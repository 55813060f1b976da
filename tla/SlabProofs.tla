----------------------------- MODULE SlabProofs -----------------------------
(***************************************************************************)
(* Proofs about Slab, for any number of CPUs and pages and any table of    *)
(* size classes that tile a page: the free lists threaded through the free *)
(* objects stay chains, and every cell has exactly one holder.             *)
(***************************************************************************)
EXTENDS Slab, NatLemmas, FiniteSetTheorems

-----------------------------------------------------------------------------
(* Sizes, classes and pages.                                               *)

ClassIds == 1 .. Len(Classes)

\* CLASSES: every class is at least a cell and tiles a page.
LEMMA ClassFacts ==
    /\ Len(Classes) \in Nat
    /\ \A i \in ClassIds : Classes[i] \in Nat /\ Classes[i] >= 1 /\ PageSize % Classes[i] = 0
BY SlabAssumption DEF ClassIds

\* Sizes and alignments are at least 1.
LEMMA LayoutFacts ==
    ASSUME NEW l \in Layouts
    PROVE  l[1] \in Nat /\ l[1] >= 1 /\ l[2] \in Nat /\ l[2] >= 1
BY SlabAssumption

\* size.max(align) is at least both.
LEMMA MaxOfTwo ==
    ASSUME NEW a \in Int, NEW b \in Int
    PROVE  Max({a, b}) \in Int /\ Max({a, b}) >= a /\ Max({a, b}) >= b
<1>1. \E x \in {a, b} : \A y \in {a, b} : x >= y
  OBVIOUS
<1>2. Max({a, b}) \in {a, b} /\ \A y \in {a, b} : Max({a, b}) >= y
  BY <1>1 DEF Max
<1>3. QED
  BY <1>2

\* The least of a set of naturals.
LEMMA MinOfNats ==
    ASSUME NEW S, S \subseteq Nat, S # {}
    PROVE  Min(S) \in S /\ \A x \in S : Min(S) <= x
<1>1. \E m \in S : \A n \in S : m <= n
  BY LeastElement, Zenon
<1>2. QED
  BY <1>1, Zenon DEF Min

\* size_class_index finds a class that is large enough for size and alignment.
LEMMA ClassFits ==
    ASSUME NEW l \in Layouts, ClassOf(l) # None
    PROVE  /\ ClassOf(l) \in ClassIds
           /\ Classes[ClassOf(l)] >= l[1] /\ Classes[ClassOf(l)] >= l[2]
           /\ Classes[ClassOf(l)] % l[2] = 0 /\ Granted(l) = Classes[ClassOf(l)]
<1> DEFINE fit == {i \in ClassIds : Classes[i] >= Max({l[1], l[2]})}
<1>1. ClassOf(l) = IF fit = {} THEN None ELSE Min(fit)
  BY DEF ClassOf, SizeClassIndex, ClassIds
<1>2. fit \subseteq Nat /\ fit # {}
  <2>1. fit # {}
    BY <1>1
  <2>2. ClassIds \subseteq Nat
    BY ClassFacts DEF ClassIds
  <2>3. QED
    BY <2>1, <2>2, Zenon
<1>3. Min(fit) \in fit
  BY <1>2, MinOfNats, Zenon
<1>4. ClassOf(l) \in ClassIds /\ Classes[ClassOf(l)] >= Max({l[1], l[2]})
  BY <1>1, <1>2, <1>3, Zenon
<1>5. Classes[ClassOf(l)] >= l[1] /\ Classes[ClassOf(l)] >= l[2]
  <2>1. PICK m : m = Max({l[1], l[2]})
    OBVIOUS
  <2>2. l[1] \in Int /\ l[2] \in Int /\ Classes[ClassOf(l)] \in Int
    BY <1>4, LayoutFacts, ClassFacts
  <2>3. m \in Int /\ m >= l[1] /\ m >= l[2]
    BY <2>1, <2>2, MaxOfTwo, Zenon
  <2>4. Classes[ClassOf(l)] >= m
    BY <1>4, <2>1
  <2>5. QED
    BY <2>2, <2>3, <2>4
<1>6. Classes[ClassOf(l)] % l[2] = 0
  BY <1>4, <1>5, SlabAssumption, Zenon DEF ClassIds
<1>7. Granted(l) = Classes[ClassOf(l)]
  BY Zenon DEF Granted
<1>8. QED
  BY <1>4, <1>5, <1>6, <1>7

\* The block that pages_order chooses is large enough, if there is one.
LEMMA PagesFit ==
    ASSUME NEW l \in Layouts, \E x \in Blocks : x * PageSize >= l[1]
    PROVE  /\ PagesFor(l[1]) \in Nat /\ PagesFor(l[1]) >= 1
           /\ PagesFor(l[1]) * PageSize >= l[1]
<1>1. PICK s, a : s = l[1] /\ a = PageSize /\ s \in Nat /\ s >= 1 /\ a \in Nat /\ a >= 1
  BY LayoutFacts, SlabAssumption
<1>2. PICK q \in Int, r \in 0 .. a - 1 : q = (s + a - 1) \div a /\ s + a - 1 = a * q + r
  <2>1. PICK t \in Int : t = s + a - 1
    BY <1>1
  <2>2. t = a * (t \div a) + (t % a) /\ t % a \in 0 .. a - 1 /\ t \div a \in Int
    BY <1>1, <2>1, DivMod, Zenon
  <2>3. QED
    BY <2>1, <2>2
<1> DEFINE B == {x \in Blocks : x >= q}
<1>3. PagesFor(l[1]) = Min(B)
  BY <1>1, <1>2, Zenon DEF PagesFor
<1>4. Blocks \subseteq Nat \ {0}
  BY SlabAssumption
<1>5. B # {}
  <2>1. PICK x \in Blocks : x * a >= s
    BY <1>1
  <2>2. x \in Nat
    BY <1>4
  <2>3. x >= q
    <3> SUFFICES ASSUME x <= q - 1 PROVE FALSE
      BY <1>2, <2>2
    <3>1. x * a <= (q - 1) * a
      BY <1>1, <1>2, <2>2
    <3>2. (q - 1) * a = a * q - a
      BY <1>1, <1>2
    <3>3. QED
      BY <1>1, <1>2, <2>1, <2>2, <3>1, <3>2
  <2>4. QED
    BY <2>3
<1>6. Min(B) \in B
  BY <1>4, <1>5, MinOfNats, Zenon
<1>7. PICK n : n = Min(B)
  BY Zenon
<1>8. n \in Nat /\ n >= 1 /\ n >= q
  <2>1. n \in Blocks /\ n >= q
    BY <1>6, <1>7
  <2>2. QED
    BY <1>4, <2>1
<1>9. n * a >= s
  <2>1. n * a >= q * a
    BY <1>1, <1>2, <1>8
  <2>2. q * a = a * q
    BY <1>1, <1>2
  <2>3. a * q >= s
    BY <1>1, <1>2
  <2>4. n * a \in Int /\ q * a \in Int
    BY <1>1, <1>2, <1>8
  <2>5. QED
    BY <1>1, <2>1, <2>2, <2>3, <2>4
<1>10. QED
  BY <1>1, <1>3, <1>7, <1>8, <1>9

\* What a number is a multiple of, its divisors divide too.
LEMMA AlignedToDivisor ==
    ASSUME NEW a \in Nat, NEW s \in Nat, NEW d \in Nat, s >= 1, d >= 1, a % s = 0, s % d = 0
    PROVE  a % d = 0
<1>1. a = s * (a \div s) + 0 /\ s = d * (s \div d) + 0 /\ a \div s \in Int /\ s \div d \in Int
  BY DivMod
<1>2. PICK q \in Int, r \in Int : a = s * q /\ s = d * r
  BY <1>1
<1>3. a = d * (r * q) /\ r * q \in Int
  BY <1>2
<1>4. QED
  BY <1>3, Multiple

\* n tiles of c cells, from b on, cover n * c cells and do not overlap.
LEMMA Tiles ==
    ASSUME NEW c \in Nat, c >= 1, NEW n \in Nat, NEW b \in Int
    PROVE  /\ \A x \in Int : b <= x /\ x < b + n * c
                             <=> \E k \in 0 .. n - 1 : b + k * c <= x /\ x < b + k * c + c
           /\ \A j, k \in Int : j < k => b + j * c + c <= b + k * c
<1>1. ASSUME NEW j \in Int, NEW k \in Int, j < k PROVE b + j * c + c <= b + k * c
  <2>1. (j + 1) * c <= k * c
    BY <1>1
  <2>2. (j + 1) * c = j * c + c
    OBVIOUS
  <2>3. j * c \in Int /\ k * c \in Int
    OBVIOUS
  <2>4. QED
    BY <2>1, <2>2, <2>3
<1>2. ASSUME NEW x \in Int, NEW k \in 0 .. n - 1, b + k * c <= x, x < b + k * c + c
      PROVE  b <= x /\ x < b + n * c
  <2>1. k \in Int /\ n \in Int /\ k < n /\ 0 <= k
    OBVIOUS
  <2>2. b + k * c + c <= b + n * c
    BY <1>1, <2>1
  <2>3. 0 <= k * c
    BY <2>1
  <2>4. k * c \in Int /\ n * c \in Int
    BY <2>1
  <2>5. QED
    BY <1>2, <2>2, <2>3, <2>4
<1>3. ASSUME NEW x \in Int, b <= x, x < b + n * c
      PROVE  \E k \in 0 .. n - 1 : b + k * c <= x /\ x < b + k * c + c
  <2>1. PICK q \in Int, r \in 0 .. c - 1 : x - b = c * q + r
    <3>1. PICK t \in Int : t = x - b
      OBVIOUS
    <3>2. t = c * (t \div c) + (t % c) /\ t % c \in 0 .. c - 1 /\ t \div c \in Int
      BY <3>1, DivMod, Zenon
    <3>3. QED
      BY <3>1, <3>2
  <2>2. c * q = q * c /\ q * c \in Int /\ n * c \in Int
    BY <2>1
  <2>3. b + q * c <= x /\ x < b + q * c + c
    BY <2>1, <2>2
  <2>4. q >= 0
    <3> SUFFICES ASSUME q < 0 PROVE FALSE
      BY <2>1
    <3>1. b + q * c + c <= b + 0 * c
      BY <1>1, <2>1
    <3>2. QED
      BY <1>3, <2>2, <2>3, <3>1
  <2>5. q < n
    <3> SUFFICES ASSUME n <= q PROVE FALSE
      BY <2>1
    <3>1. n * c <= q * c
      BY <2>1
    <3>2. QED
      BY <1>3, <2>2, <2>3, <3>1
  <2>6. QED
    BY <2>1, <2>3, <2>4, <2>5
<1>4. QED
  BY <1>1, <1>2, <1>3

\* A page is PageSize cells of memory.
LEMMA PageFacts ==
    ASSUME NEW p \in Nat
    PROVE  /\ \A x : x \in PageCells(p, 1) <=>
                       x \in Int /\ p * PageSize <= x /\ x < p * PageSize + PageSize
           /\ p * PageSize \in Nat
<1>1. PICK a : a = PageSize /\ a \in Nat /\ a >= 1
  BY SlabAssumption
<1>2. PICK b \in Nat : b = p * a
  BY <1>1
<1>3. QED
  BY <1>1, <1>2 DEF PageCells, Range0

\* Memory is the cells of its pages.
LEMMA CellFacts ==
    /\ NPages * PageSize \in Nat
    /\ \A x : x \in Cells <=> x \in Int /\ 0 <= x /\ x < NPages * PageSize
    /\ \A x : x \in Cells <=> \E p \in Pages : x \in PageCells(p, 1)
<1>1. PICK a : a = PageSize /\ a \in Nat /\ a >= 1
  BY SlabAssumption
<1>2. PICK n \in Nat : n = NPages
  BY SlabAssumption
<1>3. PICK z \in Nat : z = n * a
  BY <1>1, <1>2
<1>4. \A x : x \in Cells <=> x \in Int /\ 0 <= x /\ x < n * a
  BY <1>1, <1>2, <1>3 DEF Cells
<1>5. \A x \in Int : 0 <= x /\ x < 0 + n * a
                     <=> \E k \in 0 .. n - 1 : 0 + k * a <= x /\ x < 0 + k * a + a
  <2>1. a \in Nat /\ a >= 1 /\ n \in Nat /\ 0 \in Int
    BY <1>1
  <2>2. QED
    BY <2>1, Tiles, Zenon
<1>6. ASSUME NEW x PROVE x \in Cells <=> \E p \in Pages : x \in PageCells(p, 1)
  <2>1. Pages = 0 .. n - 1 /\ Pages \subseteq Nat
    BY <1>2 DEF Pages
  <2>2. \A p \in Pages : x \in PageCells(p, 1) <=>
                           x \in Int /\ p * a <= x /\ x < p * a + a
    BY <1>1, <2>1, PageFacts
  <2>3. \A p \in Pages : p * a \in Int /\ 0 + p * a = p * a
    BY <1>1, <2>1
  <2>4. QED
    BY <1>3, <1>4, <1>5, <2>1, <2>2, <2>3
<1>7. QED
  BY <1>1, <1>2, <1>3, <1>4, <1>6

\* Different pages share no cell.
LEMMA PagesApart ==
    ASSUME NEW p \in Nat, NEW q \in Nat, p # q
    PROVE  PageCells(p, 1) \cap PageCells(q, 1) = {}
<1>1. PICK a : a = PageSize /\ a \in Nat /\ a >= 1
  BY SlabAssumption
<1>2. \A j, k \in Int : j < k => 0 + j * a + a <= 0 + k * a
  BY <1>1, Tiles
<1>3. /\ p < q => 0 + p * a + a <= 0 + q * a
      /\ q < p => 0 + q * a + a <= 0 + p * a
  BY <1>2
<1>4. PICK u \in Nat, v \in Nat : u = p * a /\ v = q * a
  BY <1>1
<1>5. /\ \A x : x \in PageCells(p, 1) <=> x \in Int /\ u <= x /\ x < u + a
      /\ \A x : x \in PageCells(q, 1) <=> x \in Int /\ v <= x /\ x < v + a
  BY <1>1, <1>4, PageFacts
<1>6. u + a <= v \/ v + a <= u
  BY <1>1, <1>3, <1>4
<1>7. QED
  BY <1>1, <1>5, <1>6

\* A run of n pages is the cells of its pages.
LEMMA RunFacts ==
    ASSUME NEW p \in Nat, NEW n \in Nat
    PROVE  \A x : x \in Range0(p * PageSize, n * PageSize)
                  <=> \E q \in Range0(p, n) : x \in PageCells(q, 1)
<1>1. PICK a : a = PageSize /\ a \in Nat /\ a >= 1
  BY SlabAssumption
<1>2. PICK u \in Nat, z \in Nat : u = p * a /\ z = n * a
  BY <1>1
<1>3. \A x \in Int : u <= x /\ x < u + n * a
                     <=> \E k \in 0 .. n - 1 : u + k * a <= x /\ x < u + k * a + a
  <2>1. a \in Nat /\ a >= 1 /\ n \in Nat /\ u \in Int
    BY <1>1, <1>2
  <2>2. QED
    BY <2>1, Tiles, Zenon
<1>4. SUFFICES ASSUME NEW x
               PROVE  x \in Range0(p * PageSize, n * PageSize)
                      <=> \E q \in Range0(p, n) : x \in PageCells(q, 1)
  OBVIOUS
<1>5. x \in Range0(p * PageSize, n * PageSize) <=> x \in Int /\ u <= x /\ x < u + z
  BY <1>1, <1>2 DEF Range0
<1>6. ASSUME NEW k \in 0 .. n - 1
      PROVE  /\ p + k \in Range0(p, n)
             /\ x \in PageCells(p + k, 1) <=> x \in Int /\ u + k * a <= x /\ x < u + k * a + a
  <2>1. p + k \in Nat /\ p + k \in Range0(p, n)
    BY DEF Range0
  <2>2. (p + k) * a = u + k * a
    BY <1>1, <1>2
  <2>3. x \in PageCells(p + k, 1) <=>
          x \in Int /\ (p + k) * a <= x /\ x < (p + k) * a + a
    BY <1>1, <2>1, PageFacts
  <2>4. QED
    BY <2>1, <2>2, <2>3
<1>7. \A q \in Range0(p, n) : q - p \in 0 .. n - 1 /\ p + (q - p) = q
  BY DEF Range0
<1>8. QED
  BY <1>2, <1>3, <1>5, <1>6, <1>7

\* The objects that refill cuts from page p tile it.
LEMMA ObjectFacts ==
    ASSUME NEW p \in Pages, NEW i \in ClassIds
    PROVE  /\ ObjectsPerPage(i) \in Nat /\ ObjectsPerPage(i) >= 1
           /\ \A k \in 0 .. ObjectsPerPage(i) - 1 :
                 /\ ObjectAt(p, i, k) \in Cells /\ ObjectAt(p, i, k) % Classes[i] = 0
                 /\ ObjectAt(p, i, k) \in PageCells(p, 1)
           /\ \A j, k \in 0 .. ObjectsPerPage(i) - 1 : j # k =>
                 /\ ObjectAt(p, i, j) # ObjectAt(p, i, k)
                 /\ Range0(ObjectAt(p, i, j), Classes[i]) \cap Range0(ObjectAt(p, i, k), Classes[i]) = {}
           /\ \A x : x \in PageCells(p, 1) <=>
                 \E k \in 0 .. ObjectsPerPage(i) - 1 : x \in Range0(ObjectAt(p, i, k), Classes[i])
<1>1. PICK a : a = PageSize /\ a \in Nat /\ a >= 1
  BY SlabAssumption
<1>2. PICK c : c = Classes[i] /\ c \in Nat /\ c >= 1 /\ a % c = 0
  BY <1>1, ClassFacts
<1>3. PICK n \in Int : n = ObjectsPerPage(i) /\ a = c * n
  <2>1. a = c * (a \div c) + (a % c) /\ a \div c \in Int
    <3>1. a \in Int
      BY <1>1
    <3>2. QED
      BY <1>2, <3>1, DivMod, Zenon
  <2>2. QED
    BY <1>1, <1>2, <2>1 DEF ObjectsPerPage
<1>4. n \in Nat /\ n >= 1 /\ a = n * c
  <2>1. n >= 1
    <3> SUFFICES ASSUME n <= 0 PROVE FALSE
      BY <1>3
    <3>1. c * n <= 0
      BY <1>2, <1>3
    <3>2. QED
      BY <1>1, <1>3, <3>1
  <2>2. c * n = n * c
    BY <1>2, <1>3
  <2>3. QED
    BY <1>3, <2>1, <2>2
<1>5. p \in Nat
  BY SlabAssumption DEF Pages
<1>6. PICK u \in Nat : u = p * a
  BY <1>1, <1>5
<1>7. \A x : x \in PageCells(p, 1) <=> x \in Int /\ u <= x /\ x < u + a
  BY <1>1, <1>5, <1>6, PageFacts
<1>8. /\ \A x \in Int : u <= x /\ x < u + n * c
                        <=> \E k \in 0 .. n - 1 : u + k * c <= x /\ x < u + k * c + c
      /\ \A j, k \in Int : j < k => u + j * c + c <= u + k * c
  <2>1. c \in Nat /\ c >= 1 /\ n \in Nat /\ u \in Int
    BY <1>2, <1>4, <1>6
  <2>2. QED
    BY <2>1, Tiles, Zenon
<1>9. ASSUME NEW k \in 0 .. n - 1
      PROVE  /\ ObjectAt(p, i, k) = u + k * c /\ k * c \in Nat
             /\ \A x : x \in Range0(ObjectAt(p, i, k), Classes[i]) <=>
                          x \in Int /\ u + k * c <= x /\ x < u + k * c + c
  <2>1. k \in Nat /\ k * c \in Nat
    BY <1>2, <1>4
  <2>2. ObjectAt(p, i, k) = u + k * c
    BY <1>1, <1>2, <1>6 DEF ObjectAt
  <2>3. PICK v \in Nat : v = u + k * c
    BY <1>6, <2>1
  <2>4. QED
    BY <1>2, <2>1, <2>2, <2>3 DEF Range0
<1>10. ASSUME NEW k \in 0 .. n - 1
       PROVE  /\ ObjectAt(p, i, k) \in Cells /\ ObjectAt(p, i, k) % Classes[i] = 0
              /\ ObjectAt(p, i, k) \in PageCells(p, 1)
  <2>1. PICK v \in Nat : v = u + k * c /\ v = ObjectAt(p, i, k)
    BY <1>9
  <2>2. v \in PageCells(p, 1)
    <3>1. v <= v /\ v < v + c /\ v \in Int
      BY <1>2, <2>1
    <3>2. u <= v /\ v < u + n * c
      BY <1>8, <2>1, <3>1
    <3>3. QED
      BY <1>4, <1>7, <3>1, <3>2
  <2>3. v \in Cells
    BY <2>2, CellFacts
  <2>4. v % c = 0
    <3>1. PICK m \in Int : a = c * m /\ m = n
      BY <1>3
    <3>2. u = c * (p * n)
      BY <1>2, <1>3, <1>5, <1>6, <3>1
    <3>3. k * c = c * k
      BY <1>2, <1>4
    <3>4. PICK q \in Int : q = p * n
      BY <1>3, <1>5
    <3>5. v = c * (q + k) /\ q + k \in Int
      BY <1>2, <1>4, <2>1, <3>2, <3>3, <3>4
    <3>6. (c * (q + k)) % c = 0
      BY <1>2, <3>5, Multiple
    <3>7. QED
      BY <3>5, <3>6
  <2>5. QED
    BY <1>2, <2>1, <2>2, <2>3, <2>4
<1>11. ASSUME NEW j \in 0 .. n - 1, NEW k \in 0 .. n - 1, j # k
       PROVE  /\ ObjectAt(p, i, j) # ObjectAt(p, i, k)
              /\ Range0(ObjectAt(p, i, j), Classes[i])
                   \cap Range0(ObjectAt(p, i, k), Classes[i]) = {}
  <2>1. j \in Int /\ k \in Int /\ (j < k \/ k < j)
    BY <1>11
  <2>2. PICK v \in Int, w \in Int : v = u + j * c /\ w = u + k * c
    BY <1>9
  <2>3. v + c <= w \/ w + c <= v
    BY <1>8, <2>1, <2>2
  <2>4. /\ ObjectAt(p, i, j) = v /\ ObjectAt(p, i, k) = w
        /\ \A x : x \in Range0(ObjectAt(p, i, j), Classes[i]) <=> x \in Int /\ v <= x /\ x < v + c
        /\ \A x : x \in Range0(ObjectAt(p, i, k), Classes[i]) <=> x \in Int /\ w <= x /\ x < w + c
    BY <1>9, <2>2
  <2>5. QED
    BY <1>2, <2>2, <2>3, <2>4
<1>12. ASSUME NEW x
       PROVE  x \in PageCells(p, 1) <=>
                \E k \in 0 .. n - 1 : x \in Range0(ObjectAt(p, i, k), Classes[i])
  BY <1>4, <1>7, <1>8, <1>9
<1>13. QED
  BY <1>3, <1>4, <1>10, <1>11, <1>12

-----------------------------------------------------------------------------
(* Free lists.                                                             *)

\* The objects of class i that a list with this head leads through, s, the
\* last of them first.
Chain(i, head, m, s) ==
    /\ s \in Seq(Cells)
    /\ head = IF Len(s) = 0 THEN None ELSE s[Len(s)]
    /\ \A k \in 1 .. Len(s) :
          s[k] % Classes[i] = 0 /\ m[s[k]] = IF k = 1 THEN None ELSE s[k - 1]
    /\ \A j, k \in 1 .. Len(s) : j # k => s[j] # s[k]

Links == Cells \cup {None, Data}

\* What a chain says of its objects.
LEMMA ChainFacts ==
    ASSUME NEW i, NEW head, NEW m, NEW s, Chain(i, head, m, s)
    PROVE  /\ Len(s) \in Nat /\ \A k \in 1 .. Len(s) : s[k] \in Cells
           /\ Len(s) <= NPages * PageSize
<1>1. s \in Seq(Cells)
  BY DEF Chain
<1>2. Len(s) \in Nat /\ (\A k \in 1 .. Len(s) : s[k] \in Cells) /\ s \in [1 .. Len(s) -> Cells]
  BY <1>1
<1>3. PICK z \in Nat : z = NPages * PageSize
  BY CellFacts
<1>4. Cells = 0 .. z - 1
  BY <1>3 DEF Cells
<1>5. IsFiniteSet(Cells) /\ Cardinality(Cells) = z
  <2>1. /\ IsFiniteSet(0 .. z - 1)
        /\ Cardinality(0 .. z - 1) = IF 0 > z - 1 THEN 0 ELSE (z - 1) - 0 + 1
    <3>1. 0 \in Int /\ z - 1 \in Int
      BY <1>3
    <3>2. QED
      BY <3>1, FS_Interval, Zenon
  <2>2. (IF 0 > z - 1 THEN 0 ELSE (z - 1) - 0 + 1) = z
    BY <1>3
  <2>3. QED
    BY <1>4, <2>1, <2>2
<1>6. PICK n \in Nat : n = Len(s)
  BY <1>2
<1>7. IsFiniteSet(1 .. n) /\ Cardinality(1 .. n) = n
  <2>1. /\ IsFiniteSet(1 .. n)
        /\ Cardinality(1 .. n) = IF 1 > n THEN 0 ELSE n - 1 + 1
    <3>1. 1 \in Int /\ n \in Int
      BY <1>6
    <3>2. QED
      BY <3>1, FS_Interval, Zenon
  <2>2. (IF 1 > n THEN 0 ELSE n - 1 + 1) = n
    BY <1>6
  <2>3. QED
    BY <2>1, <2>2
<1>8. s \in Injection(1 .. n, Cells)
  BY <1>2, <1>6 DEF Chain, Injection, IsInjective
<1>9. n <= z
  BY <1>5, <1>7, <1>8, FS_Injection
<1>10. QED
  BY <1>2, <1>3, <1>6, <1>9

\* Following the links from the head of a chain leads through its objects, and
\* to nothing else.
LEMMA ChainListed ==
    ASSUME NEW i, NEW head, NEW m, NEW s, Chain(i, head, m, s)
    PROVE  /\ Follow(head, m)[NPages * PageSize] = None
           /\ \A a : a \in Listed(head, m) <=> \E k \in 1 .. Len(s) : a = s[k]
<1> DEFINE N == NPages * PageSize
           At(g, n) == IF n = 0 THEN head ELSE LET x == g[n - 1] IN IF x \in Cells THEN m[x] ELSE x
           Solves(g) == g = [n \in 0 .. N |-> At(g, n)]
           at == CHOOSE g : Solves(g)
           h == [n \in 0 .. N |-> IF n < Len(s) THEN s[Len(s) - n] ELSE None]
<1>1. PICK z \in Nat : z = N
  BY CellFacts
<1>2. PICK w \in Nat : w = Len(s) /\ w <= z
  BY <1>1, ChainFacts
<1>3. \A k \in 1 .. w : s[k] \in Cells /\ m[s[k]] = IF k = 1 THEN None ELSE s[k - 1]
  BY <1>2, ChainFacts DEF Chain
<1>4. None \notin Cells
  BY SlabAssumption, CellFacts
<1>5. h[0] = head
  <2>1. 0 \in 0 .. N
    BY <1>1
  <2>2. h[0] = IF 0 < w THEN s[w - 0] ELSE None
    BY <1>2, <2>1
  <2>3. QED
    BY <1>2, <2>2 DEF Chain
<1>6. ASSUME NEW n \in 1 .. N PROVE h[n] = At(h, n)
  <2>1. n \in 0 .. N /\ n - 1 \in 0 .. N /\ n \in Nat /\ n # 0
    BY <1>1
  <2>2. /\ h[n] = IF n < w THEN s[w - n] ELSE None
        /\ h[n - 1] = IF n - 1 < w THEN s[w - (n - 1)] ELSE None
    BY <1>2, <2>1
  <2>3. CASE n - 1 < w
    <3>0. w - (n - 1) \in 1 .. w
      BY <1>2, <2>1, <2>3
    <3>1. PICK k \in 1 .. w : k = w - (n - 1)
      BY <3>0, Zenon
    <3>2. s[k] \in Cells /\ h[n - 1] = s[k]
      BY <1>3, <2>2, <2>3, <3>1, Zenon
    <3>3. m[s[k]] = h[n]
      <4>1. CASE k = 1
        <5>1. ~(n < w)
          BY <1>2, <2>1, <3>1, <4>1
        <5>2. QED
          BY <1>3, <2>2, <4>1, <5>1
      <4>2. CASE k # 1
        <5>1. n < w /\ w - n = k - 1
          BY <1>2, <2>1, <3>1, <4>2
        <5>2. QED
          BY <1>3, <2>2, <4>2, <5>1, Zenon
      <4>3. QED
        BY <4>1, <4>2
    <3> HIDE DEF h
    <3>4. QED
      BY <2>1, <3>2, <3>3
  <2>4. CASE ~(n - 1 < w)
    <3>1. ~(n < w)
      BY <1>2, <2>1, <2>4
    <3>2. h[n] = None /\ h[n - 1] = None
      BY <2>2, <2>4, <3>1
    <3> HIDE DEF h
    <3>3. QED
      BY <1>4, <2>1, <3>2
  <2>5. QED
    BY <2>3, <2>4, Zenon
<1>7. Solves(h)
  <2>1. ASSUME NEW n \in 0 .. N PROVE h[n] = At(h, n)
    <3>1. n # 0 => n \in 1 .. N
      BY <1>1
    <3> HIDE DEF h
    <3>2. QED
      BY <1>5, <1>6, <3>1, Zenon
  <2>2. h = [n \in 0 .. N |-> h[n]]
    OBVIOUS
  <2> HIDE DEF h, At
  <2>3. QED
    BY <2>1, <2>2
<1>8. Solves(at)
  <2> HIDE DEF Solves, h
  <2>1. QED
    BY <1>7
<1>9. Follow(head, m) = at
  BY Zenon DEF Follow
<1> HIDE DEF at
<1>10. PICK f : f = at
  OBVIOUS
<1>11. f[0] = head /\ \A n \in 1 .. N : f[n] = At(f, n)
  <2>1. 0 \in 0 .. N /\ \A n \in 1 .. N : n \in 0 .. N
    BY <1>1
  <2>2. \A n \in 0 .. N : f[n] = At(f, n)
    <3>1. Solves(f)
      BY <1>8, <1>10, Zenon
    <3> HIDE DEF At
    <3>2. QED
      BY <3>1, Zenon
  <2>3. QED
    BY <2>1, <2>2
<1> HIDE DEF h
<1>12. 0 .. z \subseteq {n \in 0 .. z : f[n] = h[n]}
  <2> DEFINE T == {n \in 0 .. z : f[n] = h[n]}
  <2>1. 0 \in T
    BY <1>1, <1>5, <1>11
  <2>2. ASSUME NEW n \in 0 .. z - 1, n \in T PROVE n + 1 \in T
    <3>1. n + 1 \in 1 .. N /\ (n + 1) - 1 = n /\ n + 1 \in 0 .. z /\ n + 1 # 0
      BY <1>1
    <3>2. f[n] = h[n]
      BY <2>2
    <3>3. f[n + 1] = At(f, n + 1) /\ h[n + 1] = At(h, n + 1)
      BY <1>6, <1>11, <3>1, Zenon
    <3>4. At(f, n + 1) = At(h, n + 1)
      BY <3>1, <3>2
    <3>5. QED
      BY <3>1, <3>3, <3>4
  <2> HIDE DEF T
  <2>3. 0 .. z \subseteq T
    BY <1>1, <2>1, <2>2, UpTo
  <2>4. QED
    BY <2>3 DEF T
<1>13. \A n \in 0 .. z : f[n] = IF n < w THEN s[w - n] ELSE None
  BY <1>1, <1>2, <1>12, Zenon DEF h
<1>14. Follow(head, m)[NPages * PageSize] = None
  <2>1. z \in 0 .. z /\ ~(z < w)
    BY <1>1, <1>2
  <2>2. QED
    BY <1>1, <1>9, <1>10, <1>13, <2>1
<1>15. ASSUME NEW a PROVE a \in Listed(head, m) <=> \E k \in 1 .. w : a = s[k]
  <2>1. a \in Listed(head, m) <=> a \in Cells /\ \E n \in 0 .. z : a = f[n]
    BY <1>1, <1>9, <1>10, Zenon DEF Listed
  <2>2. ASSUME NEW n \in 0 .. z, a = f[n], a \in Cells PROVE \E k \in 1 .. w : a = s[k]
    <3>1. n < w
      BY <1>4, <1>13, <2>2
    <3>2. w - n \in 1 .. w
      BY <1>2, <3>1
    <3>3. QED
      BY <1>13, <2>2, <3>1, <3>2
  <2>3. ASSUME NEW k \in 1 .. w, a = s[k] PROVE a \in Cells /\ \E n \in 0 .. z : a = f[n]
    <3>1. w - k \in 0 .. z /\ w - k < w /\ w - (w - k) = k
      BY <1>1, <1>2
    <3>2. f[w - k] = s[k]
      BY <1>13, <3>1
    <3>3. QED
      BY <1>3, <2>3, <3>1, <3>2
  <2>4. QED
    BY <2>1, <2>2, <2>3
<1>16. QED
  BY <1>2, <1>14, <1>15

\* push puts its object in front of the chain.
LEMMA PushChain ==
    ASSUME NEW i, NEW head, NEW m \in [Cells -> Links], NEW s, Chain(i, head, m, s),
           NEW a \in Cells, a % Classes[i] = 0, \A k \in 1 .. Len(s) : s[k] # a
    PROVE  Chain(i, a, [m EXCEPT ![a] = head], Append(s, a))
<1>1. PICK t, n, m2 : t = Append(s, a) /\ n = Len(s) /\ m2 = [m EXCEPT ![a] = head]
  BY Zenon
<1>2. /\ s \in Seq(Cells) /\ n \in Nat /\ \A k \in 1 .. n : s[k] \in Cells
      /\ head = IF n = 0 THEN None ELSE s[n]
      /\ \A k \in 1 .. n :
           s[k] % Classes[i] = 0 /\ m[s[k]] = IF k = 1 THEN None ELSE s[k - 1]
      /\ \A j, k \in 1 .. n : j # k => s[j] # s[k]
  BY <1>1, ChainFacts DEF Chain
<1>3. /\ t \in Seq(Cells) /\ Len(t) = n + 1 /\ t[n + 1] = a
      /\ \A k \in 1 .. n : t[k] = s[k]
  BY <1>1, <1>2
<1>4. m2[a] = head /\ \A x \in Cells : x # a => m2[x] = m[x]
  BY <1>1
<1>5. ASSUME NEW k \in 1 .. n + 1
      PROVE  t[k] % Classes[i] = 0 /\ m2[t[k]] = IF k = 1 THEN None ELSE t[k - 1]
  <2>1. CASE k = n + 1
    <3>1. k = 1 <=> n = 0
      BY <1>2, <2>1
    <3>2. n # 0 => k - 1 = n /\ n \in 1 .. n
      BY <1>2, <2>1
    <3>3. QED
      BY <1>2, <1>3, <1>4, <2>1, <3>1, <3>2
  <2>2. CASE k # n + 1
    <3>1. k \in 1 .. n /\ (k # 1 => k - 1 \in 1 .. n)
      BY <1>2, <2>2
    <3>2. t[k] = s[k] /\ s[k] \in Cells /\ s[k] # a /\ (k # 1 => t[k - 1] = s[k - 1])
      BY <1>1, <1>2, <1>3, <3>1, Zenon
    <3>3. QED
      BY <1>2, <1>4, <3>1, <3>2
  <2>3. QED
    BY <2>1, <2>2
<1>6. ASSUME NEW j \in 1 .. n + 1, NEW k \in 1 .. n + 1, j # k PROVE t[j] # t[k]
  <2>1. \A x \in 1 .. n + 1 : x = n + 1 \/ x \in 1 .. n
    BY <1>2
  <2>2. QED
    BY <1>1, <1>2, <1>3, <1>6, <2>1
<1>7. Chain(i, a, m2, t)
  <2>1. Len(t) # 0 /\ a = t[Len(t)]
    BY <1>2, <1>3
  <2>2. QED
    BY <1>3, <1>5, <1>6, <2>1 DEF Chain
<1>8. QED
  BY <1>1, <1>7

\* t is the rest of the chain s once its head is taken off.
Rest(i, head, m, s, t) ==
    /\ Chain(i, m[head], m, t) /\ head \in Cells
    /\ \A a : (\E k \in 1 .. Len(t) : a = t[k])
              <=> (\E k \in 1 .. Len(s) : a = s[k]) /\ a # head

\* pop takes the object at the head off the chain.
LEMMA PopChain ==
    ASSUME NEW i, NEW head, NEW m, NEW s, Chain(i, head, m, s), head # None
    PROVE  \E t : Rest(i, head, m, s, t)
<1>1. PICK n : n = Len(s)
  BY Zenon
<1>2. /\ s \in Seq(Cells) /\ n \in Nat /\ \A k \in 1 .. n : s[k] \in Cells
      /\ head = IF n = 0 THEN None ELSE s[n]
      /\ \A k \in 1 .. n :
           s[k] % Classes[i] = 0 /\ m[s[k]] = IF k = 1 THEN None ELSE s[k - 1]
      /\ \A j, k \in 1 .. n : j # k => s[j] # s[k]
  BY <1>1, ChainFacts DEF Chain
<1>3. n # 0 /\ head = s[n] /\ n \in 1 .. n /\ n - 1 \in Nat
  BY <1>2
<1>4. PICK t : t = [k \in 1 .. n - 1 |-> s[k]]
  BY Zenon
<1>5. /\ t \in Seq(Cells) /\ Len(t) = n - 1 /\ \A k \in 1 .. n - 1 : t[k] = s[k] /\ k \in 1 .. n
  BY <1>2, <1>3, <1>4
<1>6. m[head] = IF n - 1 = 0 THEN None ELSE t[n - 1]
  <2>1. m[head] = IF n = 1 THEN None ELSE s[n - 1]
    BY <1>2, <1>3
  <2>2. (n = 1 <=> n - 1 = 0) /\ (n # 1 => n - 1 \in 1 .. n - 1)
    BY <1>3
  <2>3. QED
    BY <1>5, <2>1, <2>2
<1>7. \A k \in 1 .. n - 1 : k # 1 => k - 1 \in 1 .. n - 1
  BY <1>3
<1>8. Chain(i, m[head], m, t)
  BY <1>2, <1>5, <1>6, <1>7, SMTT(60) DEF Chain
<1>9. ASSUME NEW a
      PROVE  (\E k \in 1 .. n - 1 : a = t[k]) <=> (\E k \in 1 .. n : a = s[k]) /\ a # head
  <2>1. \A k \in 1 .. n : k = n \/ k \in 1 .. n - 1
    BY <1>3
  <2>2. \A k \in 1 .. n - 1 : k # n
    BY <1>3
  <2>3. QED
    BY <1>2, <1>3, <1>5, <2>1, <2>2, SMTT(60)
<1>10. head \in Cells
  BY <1>2, <1>3
<1>11. \A a : (\E k \in 1 .. Len(t) : a = t[k])
              <=> (\E k \in 1 .. Len(s) : a = s[k]) /\ a # head
  BY <1>1, <1>5, <1>9, Zenon
<1>12. QED
  BY <1>8, <1>10, <1>11, Zenon DEF Rest

\* After n turns of refill's loop the chain has n objects of page p more, and
\* memory outside the page is as it was.
Pushed(i, p, s, m, n, x) ==
    /\ x.mem \in [Cells -> Links]
    /\ \A y \in Cells : y \notin PageCells(p, 1) => x.mem[y] = m[y]
    /\ \E t : /\ Chain(i, x.head, x.mem, t)
              /\ \A a : (\E k \in 1 .. Len(t) : a = t[k])
                        <=> \/ \E k \in 1 .. Len(s) : a = s[k]
                            \/ \E k \in 0 .. n - 1 : a = ObjectAt(p, i, k)

\* A turn of the loop.
LEMMA PushStep ==
    ASSUME NEW p \in Pages, NEW i \in ClassIds, NEW s, NEW m,
           \A k \in 1 .. Len(s) : s[k] \notin PageCells(p, 1),
           NEW n \in 0 .. ObjectsPerPage(i) - 1, NEW x, Pushed(i, p, s, m, n, x)
    PROVE  Pushed(i, p, s, m, n + 1, Push(x, ObjectAt(p, i, n)))
<1>1. PICK a, y : a = ObjectAt(p, i, n) /\ y = Push(x, a)
  OBVIOUS
<1>2. PICK t : /\ Chain(i, x.head, x.mem, t)
               /\ \A b : (\E k \in 1 .. Len(t) : b = t[k])
                         <=> \/ \E k \in 1 .. Len(s) : b = s[k]
                             \/ \E k \in 0 .. n - 1 : b = ObjectAt(p, i, k)
  BY Zenon DEF Pushed
<1>3. a \in Cells /\ a % Classes[i] = 0 /\ a \in PageCells(p, 1)
  BY <1>1, ObjectFacts, Zenon
<1>4. n \in Nat /\ \A k \in 0 .. n - 1 : k \in 0 .. ObjectsPerPage(i) - 1 /\ k # n
  BY ObjectFacts
<1>5. \A k \in 0 .. n - 1 : ObjectAt(p, i, k) # a
  BY <1>1, <1>4, ObjectFacts, Zenon
<1>6. ASSUME NEW j \in 1 .. Len(t), t[j] = a PROVE FALSE
  <2>1. \E k \in 1 .. Len(t) : a = t[k]
    BY <1>6
  <2>2. (\E k \in 1 .. Len(s) : a = s[k]) \/ (\E k \in 0 .. n - 1 : a = ObjectAt(p, i, k))
    BY <1>2, <2>1, Zenon
  <2>3. QED
    BY <1>3, <1>5, <2>2
<1>7. y.head = a /\ y.mem = [x.mem EXCEPT ![a] = x.head]
  BY <1>1, Zenon DEF Push
<1>8. x.mem \in [Cells -> Links] /\ \A z \in Cells : z \notin PageCells(p, 1) => x.mem[z] = m[z]
  BY Zenon DEF Pushed
<1>9. Chain(i, y.head, y.mem, Append(t, a))
  BY <1>2, <1>3, <1>6, <1>7, <1>8, PushChain, SMTT(60)
<1>10. x.head \in Links
  BY <1>2, ChainFacts, SMTT(60) DEF Chain, Links
<1>11. y.mem \in [Cells -> Links] /\ \A z \in Cells : z \notin PageCells(p, 1) => y.mem[z] = m[z]
  BY <1>3, <1>7, <1>8, <1>10, Zenon
<1>12. ASSUME NEW b
       PROVE  (\E k \in 1 .. Len(Append(t, a)) : b = Append(t, a)[k])
              <=> \/ \E k \in 1 .. Len(s) : b = s[k]
                  \/ \E k \in 0 .. (n + 1) - 1 : b = ObjectAt(p, i, k)
  <2>1. t \in Seq(Cells) /\ Len(t) \in Nat
    BY <1>2, ChainFacts, SMTT(60) DEF Chain
  <2>2. PICK w, u : w = Len(t) /\ w \in Nat /\ u = Append(t, a)
    BY <2>1, Zenon
  <2>3. Len(u) = w + 1 /\ u[w + 1] = a /\ \A k \in 1 .. w : u[k] = t[k]
    BY <1>3, <2>1, <2>2
  <2>4. (\E k \in 1 .. w + 1 : b = u[k]) <=> (\E k \in 1 .. w : b = t[k]) \/ b = a
    <3>1. w + 1 \in 1 .. w + 1 /\ \A k \in 1 .. w + 1 : k = w + 1 \/ k \in 1 .. w
      BY <2>2
    <3>2. \A k \in 1 .. w : k \in 1 .. w + 1
      BY <2>2
    <3>3. QED
      BY <2>3, <3>1, <3>2, Zenon
  <2>5. (\E k \in 0 .. (n + 1) - 1 : b = ObjectAt(p, i, k))
        <=> (\E k \in 0 .. n - 1 : b = ObjectAt(p, i, k)) \/ b = a
    <3>1. n \in 0 .. (n + 1) - 1 /\ \A k \in 0 .. (n + 1) - 1 : k = n \/ k \in 0 .. n - 1
      BY <1>4
    <3>2. \A k \in 0 .. n - 1 : k \in 0 .. (n + 1) - 1
      BY <1>4
    <3>3. QED
      BY <1>1, <3>1, <3>2, Zenon
  <2>6. QED
    BY <1>2, <2>2, <2>3, <2>4, <2>5, Zenon
<1>13. Pushed(i, p, s, m, n + 1, y)
  <2>1. \E u : /\ Chain(i, y.head, y.mem, u)
               /\ \A b : (\E k \in 1 .. Len(u) : b = u[k])
                         <=> \/ \E k \in 1 .. Len(s) : b = s[k]
                             \/ \E k \in 0 .. (n + 1) - 1 : b = ObjectAt(p, i, k)
    BY <1>9, <1>12, Zenon
  <2>2. QED
    BY <1>11, <2>1, Zenon DEF Pushed
<1>14. QED
  BY <1>1, <1>13

\* refill's loop.
LEMMA PushAllChain ==
    ASSUME NEW p \in Pages, NEW i \in ClassIds, NEW s, NEW head, NEW m \in [Cells -> Links],
           Chain(i, head, m, s), \A k \in 1 .. Len(s) : s[k] \notin PageCells(p, 1)
    PROVE  Pushed(i, p, s, m, ObjectsPerPage(i), PushAll(i, p, [head |-> head, mem |-> m]))
<1> DEFINE N == ObjectsPerPage(i)
           S == [head : Links, mem : [Cells -> Links]]
           start == [head |-> head, mem |-> m]
           Turn(g, n) == Push(g[n - 1], ObjectAt(p, i, n - 1))
           Solves(g) == g = [n \in 0 .. N |-> IF n = 0 THEN start ELSE Turn(g, n)]
           after == CHOOSE g : Solves(g)
           step == [n \in 1 .. N |-> [x \in S |-> Push(x, ObjectAt(p, i, n - 1))]]
<1>1. N \in Nat
  BY ObjectFacts, Zenon
<1>2. \A n \in 1 .. N : n - 1 \in 0 .. N - 1 /\ n - 1 \in 0 .. N /\ ObjectAt(p, i, n - 1) \in Cells
  <2>1. \A n \in 1 .. N : n - 1 \in 0 .. N - 1 /\ n - 1 \in 0 .. N
    BY <1>1
  <2>2. QED
    BY <2>1, ObjectFacts, Zenon
<1>3. start \in S
  <2>1. head \in Links
    BY ChainFacts DEF Chain, Links
  <2>2. QED
    BY <2>1
<1>4. step \in [1 .. N -> [S -> S]]
  <2>1. ASSUME NEW n \in 1 .. N, NEW x \in S PROVE Push(x, ObjectAt(p, i, n - 1)) \in S
    <3>1. ObjectAt(p, i, n - 1) \in Links /\ x.head \in Links /\ x.mem \in [Cells -> Links]
      BY <1>2, Zenon DEF Links
    <3>2. QED
      BY <1>2, <3>1, Zenon DEF Push
  <2> HIDE DEF S
  <2>2. QED
    BY <2>1
<1>5. PICK g : /\ g \in [0 .. N -> S] /\ g[0] = start
               /\ \A n \in 1 .. N : g[n] = step[n][g[n - 1]]
  <2> HIDE DEF step, S, start, N
  <2>1. \E g : IsLoop(g, N, S, start, step)
    BY <1>1, <1>3, <1>4, LoopValues
  <2>2. QED
    BY <2>1, Zenon DEF IsLoop
<1>6. Solves(g)
  <2> HIDE DEF S, start
  <2>1. ASSUME NEW n \in 1 .. N PROVE g[n] = Turn(g, n)
    <3>1. g[n - 1] \in S
      BY <1>2, <1>5, Zenon
    <3>2. QED
      BY <1>5, <3>1, Zenon
  <2>2. \A n \in 0 .. N : n # 0 => n \in 1 .. N
    BY <1>1
  <2> HIDE DEF Turn
  <2>3. QED
    BY <2>1, <2>2, <1>5
<1>7. Solves(after)
  <2> HIDE DEF Solves
  <2>1. QED
    BY <1>6
<1>8. PushAll(i, p, start) = after[N]
  BY Zenon DEF PushAll
<1> HIDE DEF after
<1>9. PICK f : f = after
  OBVIOUS
<1>10. f[0] = start /\ \A n \in 1 .. N : f[n] = Turn(f, n)
  <2>1. Solves(f)
    BY <1>7, <1>9, Zenon
  <2> HIDE DEF start, Turn
  <2>2. 0 \in 0 .. N /\ \A n \in 1 .. N : n \in 0 .. N /\ n # 0
    BY <1>1
  <2>3. QED
    BY <2>1, <2>2, Zenon
<1> DEFINE T == {n \in 0 .. N : Pushed(i, p, s, m, n, f[n])}
<1>11. 0 \in T
  <2>1. 0 \in 0 .. N /\ \A k \in 0 .. 0 - 1 : FALSE
    BY <1>1
  <2>2. start.mem = m /\ start.head = head
    OBVIOUS
  <2> HIDE DEF start
  <2>3. Pushed(i, p, s, m, 0, start)
    BY <2>1, <2>2, Zenon DEF Pushed
  <2>4. QED
    BY <1>10, <2>1, <2>3
<1>12. ASSUME NEW n \in 0 .. N - 1, n \in T PROVE n + 1 \in T
  <2>1. n + 1 \in 1 .. N /\ n + 1 \in 0 .. N /\ (n + 1) - 1 = n
    BY <1>1
  <2>2. f[n + 1] = Push(f[n], ObjectAt(p, i, n))
    BY <1>10, <2>1, Zenon
  <2>3. Pushed(i, p, s, m, n, f[n])
    BY <1>12
  <2>4. Pushed(i, p, s, m, n + 1, Push(f[n], ObjectAt(p, i, n)))
    BY <2>3, PushStep, Zenon
  <2>5. QED
    BY <2>1, <2>2, <2>4
<1> HIDE DEF T
<1>13. 0 .. N \subseteq T
  BY <1>1, <1>11, <1>12, UpTo, Zenon
<1>14. N \in T
  BY <1>1, <1>13
<1>15. QED
  BY <1>8, <1>9, <1>14, Zenon DEF T

-----------------------------------------------------------------------------
(* Who holds which cells.                                                  *)

\* Every cell is in exactly one span.
Partition(S) ==
    /\ \A s, t \in S : s # t => s[3] \cap t[3] = {}
    /\ \A x : x \in Cells <=> \E s \in S : x \in s[3]

\* A step that cuts up the cells of some spans, A, in another way, B, leaves a
\* partition.
LEMMA Regroup ==
    ASSUME NEW S, Partition(S), NEW A, A \subseteq S, NEW B,
           \A s, t \in B : s # t => s[3] \cap t[3] = {},
           \A x : (\E s \in A : x \in s[3]) <=> (\E s \in B : x \in s[3]),
           NEW S2, \A s : s \in S2 <=> (s \in S /\ s \notin A) \/ s \in B
    PROVE  Partition(S2)
<1>1. ASSUME NEW s \in S, s \notin A, NEW t \in B PROVE s[3] \cap t[3] = {}
  <2> SUFFICES ASSUME NEW x, x \in s[3], x \in t[3] PROVE FALSE
    OBVIOUS
  <2>1. PICK u \in A : x \in u[3]
    OBVIOUS
  <2>2. u \in S /\ u # s
    BY <1>1
  <2>3. QED
    BY <2>1, <2>2 DEF Partition
<1>2. ASSUME NEW s \in S2, NEW t \in S2, s # t PROVE s[3] \cap t[3] = {}
  <2>1. CASE s \in S /\ s \notin A /\ t \in S /\ t \notin A
    BY <1>2, <2>1 DEF Partition
  <2>2. CASE s \in S /\ s \notin A /\ t \in B
    BY <1>1, <2>2
  <2>3. CASE s \in B /\ t \in S /\ t \notin A
    BY <1>1, <2>3, Zenon
  <2>4. CASE s \in B /\ t \in B
    BY <1>2, <2>4
  <2>5. QED
    BY <2>1, <2>2, <2>3, <2>4
<1>3. ASSUME NEW x PROVE x \in Cells <=> \E s \in S2 : x \in s[3]
  <2>1. ASSUME x \in Cells PROVE \E s \in S2 : x \in s[3]
    <3>1. PICK s \in S : x \in s[3]
      BY <2>1 DEF Partition
    <3>2. CASE s \in A
      <4>1. PICK t \in B : x \in t[3]
        BY <3>1, <3>2
      <4>2. QED
        BY <4>1
    <3>3. CASE s \notin A
      BY <3>1, <3>3
    <3>4. QED
      BY <3>2, <3>3
  <2>2. ASSUME NEW s \in S2, x \in s[3] PROVE x \in Cells
    <3>1. CASE s \in S
      BY <2>2, <3>1 DEF Partition
    <3>2. CASE s \in B
      <4>1. PICK t \in A : x \in t[3]
        BY <2>2, <3>2
      <4>2. QED
        BY <4>1, Zenon DEF Partition
    <3>3. QED
      BY <3>1, <3>2
  <2>3. QED
    BY <2>1, <2>2
<1>4. QED
  BY <1>2, <1>3, Zenon DEF Partition

\* A span is of one of five kinds.
LEMMA SpanKinds ==
    \A s : s \in Spans <=> \/ s \in ListedSpans(free_lists, mem) \/ s \in LiveSpans(live)
                          \/ s \in PoolSpans(pool) \/ s \in CarvingSpans(pc, got)
                          \/ s \in FreeingSpans(pc, got, req)
BY Zenon DEF Spans

\* So it is after a step.
LEMMA SpanKindsPrime ==
    \A s : s \in Spans' <=> \/ s \in ListedSpans(free_lists', mem') \/ s \in LiveSpans(live')
                           \/ s \in PoolSpans(pool') \/ s \in CarvingSpans(pc', got')
                           \/ s \in FreeingSpans(pc', got', req')
BY Zenon DEF Spans

\* s is the span of an object in a list.
InLists(lists, m, s) ==
    \E i \in ClassIds : \E a \in Listed(lists[i], m) : s = <<"listed", i, Range0(a, Classes[i])>>

\* The spans of listed objects.
LEMMA ListedAre ==
    ASSUME NEW lists, NEW m, NEW s
    PROVE  s \in ListedSpans(lists, m) <=> InLists(lists, m, s)
<1> DEFINE Of(i) == {<<"listed", i, Range0(a, Classes[i])>> : a \in Listed(lists[i], m)}
<1>1. \A i : s \in Of(i) <=> \E a \in Listed(lists[i], m) :
                                 s = <<"listed", i, Range0(a, Classes[i])>>
  BY Zenon
<1>2. ListedSpans(lists, m) = UNION {Of(i) : i \in ClassIds}
  BY Zenon DEF ListedSpans, ClassIds
<1> HIDE DEF Of
<1>3. s \in UNION {Of(i) : i \in ClassIds} <=> \E i \in ClassIds : s \in Of(i)
  OBVIOUS
<1>4. QED
  BY <1>1, <1>2, <1>3, Zenon DEF InLists

\* Membership, kind by kind.
LEMMA ListedIs ==
    ASSUME NEW lists, NEW m, NEW s
    PROVE  s \in ListedSpans(lists, m) <=>
             \E i \in ClassIds : \E a \in Listed(lists[i], m) :
                 s = <<"listed", i, Range0(a, Classes[i])>>
BY ListedAre DEF InLists

\* The spans of objects in use.
LEMMA LiveIs ==
    ASSUME NEW objects, NEW s
    PROVE  s \in LiveSpans(objects) <=>
             \E o \in objects : s = <<"live", o, Range0(o[1], Granted(o[2]))>>
BY Zenon DEF LiveSpans

\* The spans of free pages.
LEMMA PoolIs ==
    ASSUME NEW pages, NEW s
    PROVE  s \in PoolSpans(pages) <=> \E p \in pages : s = <<"pool", p, PageCells(p, 1)>>
BY Zenon DEF PoolSpans

\* The spans of pages being carved.
LEMMA CarvingIs ==
    ASSUME NEW at, NEW g, NEW s
    PROVE  s \in CarvingSpans(at, g) <=>
             \E c \in CPUs : at[c] = "carve" /\ s = <<"carving", c, PageCells(g[c], 1)>>
BY Zenon DEF CarvingSpans

\* The spans of objects being freed.
LEMMA FreeingIs ==
    ASSUME NEW at, NEW g, NEW r, NEW s
    PROVE  s \in FreeingSpans(at, g, r) <=>
             \E c \in CPUs : /\ at[c] \in {"free", "lfree", "lput"}
                             /\ s = <<"freeing", c, Range0(g[c], Granted(r[c]))>>
BY Zenon DEF FreeingSpans

\* A CPU that neither starts nor ends carving or freeing changes no span.
LEMMA SameCarving ==
    ASSUME NEW at, NEW g, NEW at2, NEW g2,
           \A d \in CPUs : /\ at2[d] = "carve" <=> at[d] = "carve"
                           /\ at[d] = "carve" => g2[d] = g[d]
    PROVE  \A s : s \in CarvingSpans(at2, g2) <=> s \in CarvingSpans(at, g)
<1> TAKE s
<1>1. ASSUME s \in CarvingSpans(at2, g2) PROVE s \in CarvingSpans(at, g)
  <2>1. PICK c \in CPUs : at2[c] = "carve" /\ s = <<"carving", c, PageCells(g2[c], 1)>>
    BY <1>1, CarvingIs
  <2>2. at[c] = "carve" /\ s = <<"carving", c, PageCells(g[c], 1)>>
    BY <2>1, Zenon
  <2>3. QED
    BY <2>2, CarvingIs, Zenon
<1>2. ASSUME s \in CarvingSpans(at, g) PROVE s \in CarvingSpans(at2, g2)
  <2>1. PICK c \in CPUs : at[c] = "carve" /\ s = <<"carving", c, PageCells(g[c], 1)>>
    BY <1>2, CarvingIs
  <2>2. at2[c] = "carve" /\ s = <<"carving", c, PageCells(g2[c], 1)>>
    BY <2>1, Zenon
  <2>3. QED
    BY <2>2, CarvingIs, Zenon
<1>3. QED
  BY <1>1, <1>2

\* The same for what the CPUs free.
LEMMA SameFreeing ==
    ASSUME NEW at, NEW g, NEW r, NEW at2, NEW g2, NEW r2,
           \A d \in CPUs :
              /\ at2[d] \in {"free", "lfree", "lput"} <=> at[d] \in {"free", "lfree", "lput"}
              /\ at[d] \in {"free", "lfree", "lput"} => g2[d] = g[d] /\ r2[d] = r[d]
    PROVE  \A s : s \in FreeingSpans(at2, g2, r2) <=> s \in FreeingSpans(at, g, r)
<1> DEFINE F == {"free", "lfree", "lput"}
<1> HIDE DEF F
<1>0. \A d \in CPUs : /\ at2[d] \in F <=> at[d] \in F
                      /\ at[d] \in F => g2[d] = g[d] /\ r2[d] = r[d]
  BY Zenon DEF F
<1> TAKE s
<1>1. ASSUME s \in FreeingSpans(at2, g2, r2) PROVE s \in FreeingSpans(at, g, r)
  <2>1. PICK c \in CPUs : at2[c] \in F /\ s = <<"freeing", c, Range0(g2[c], Granted(r2[c]))>>
    BY <1>1, FreeingIs DEF F
  <2>2. at[c] \in F /\ s = <<"freeing", c, Range0(g[c], Granted(r[c]))>>
    BY <1>0, <2>1, Zenon
  <2>3. QED
    BY <2>2, FreeingIs, Zenon DEF F
<1>2. ASSUME s \in FreeingSpans(at, g, r) PROVE s \in FreeingSpans(at2, g2, r2)
  <2>1. PICK c \in CPUs : at[c] \in F /\ s = <<"freeing", c, Range0(g[c], Granted(r[c]))>>
    BY <1>2, FreeingIs DEF F
  <2>2. at2[c] \in F /\ s = <<"freeing", c, Range0(g2[c], Granted(r2[c]))>>
    BY <1>0, <2>1, Zenon
  <2>3. QED
    BY <2>2, FreeingIs, Zenon DEF F
<1>3. QED
  BY <1>1, <1>2, Zenon

-----------------------------------------------------------------------------
(* The inductive invariant.                                                *)

Steps == {"idle", "lock", "refill", "take", "carve", "pop", "unlink", "large", "ltake",
          "free", "lfree", "lput"}

TypeInv ==
    /\ pool \subseteq Pages /\ live \subseteq Nat \X Layouts
    /\ free_lists \in [ClassIds -> Cells \cup {None}] /\ mem \in [Cells -> Links]
    /\ pc \in [CPUs -> Steps] /\ req \in [CPUs -> Layouts \cup {None}]
    /\ got \in [CPUs -> Nat \cup {None}]

\* Where an object of layout l may be: a class's object at a multiple of the
\* class, a large one at the start of a block.
Placed(a, l) ==
    /\ a \in Nat /\ l \in Layouts
    /\ ClassOf(l) # None => a % Classes[ClassOf(l)] = 0
    /\ ClassOf(l) = None =>
          /\ \E x \in Blocks : x * PageSize >= l[1]
          /\ \E p \in Nat : a = p * PageSize /\ p + PagesFor(l[1]) <= NPages

\* What CPU c knows where it is: it has the slab lock from the look at the list
\* until it has taken an object off, so that the head it read stays the head.
CallInv(c) ==
    /\ pc[c] # "idle" => req[c] \in Layouts
    /\ pc[c] \in {"refill", "take", "carve", "pop", "unlink"} => slabLock = c
    /\ pc[c] \in {"lock", "refill", "take", "carve", "pop", "unlink", "free"}
          => ClassOf(req[c]) # None
    /\ pc[c] \in {"large", "ltake", "lfree", "lput"} => ClassOf(req[c]) = None
    /\ pc[c] = "carve" => got[c] \in Pages
    /\ pc[c] = "pop" => free_lists[ClassOf(req[c])] # None
    /\ pc[c] = "unlink" => got[c] = free_lists[ClassOf(req[c])] /\ got[c] # None
    /\ pc[c] \in {"free", "lfree", "lput"} => Placed(got[c], req[c])

SlabInv ==
    /\ TypeInv
    /\ \A c \in CPUs : CallInv(c)
    /\ \A o \in live : Placed(o[1], o[2])
    /\ \A i \in ClassIds : \E s : Chain(i, free_lists[i], mem, s)
    /\ Partition(Spans)

\* Slab::new, with all pages free.
LEMMA InitSlabInv == Init => SlabInv
<1> SUFFICES ASSUME Init PROVE SlabInv
  OBVIOUS
<1>1. TypeInv
  <2>1. Cells \subseteq Int
    BY CellFacts
  <2>2. QED
    BY <2>1 DEF Init, TypeInv, Links, Steps, ClassIds
<1>2. (\A c \in CPUs : CallInv(c)) /\ \A o \in live : Placed(o[1], o[2])
  BY DEF Init, CallInv
<1>3. \A i \in ClassIds : Chain(i, free_lists[i], mem, <<>>)
  <2>1. <<>> \in Seq(Cells) /\ Len(<<>>) = 0
    OBVIOUS
  <2>2. \A k \in 1 .. Len(<<>>) : FALSE
    BY <2>1
  <2>3. QED
    BY <2>1, <2>2, Zenon DEF Init, Chain, ClassIds
<1>4. \A s : s \in Spans <=> \E p \in Pages : s = <<"pool", p, PageCells(p, 1)>>
  <2>1. \A s : s \notin ListedSpans(free_lists, mem)
    <3>1. \A i \in ClassIds : \A a : a \notin Listed(free_lists[i], mem)
      <4> TAKE i \in ClassIds
      <4>1. \A a : a \in Listed(free_lists[i], mem) <=> \E k \in 1 .. Len(<<>>) : a = <<>>[k]
        BY <1>3, ChainListed
      <4>2. Len(<<>>) = 0
        OBVIOUS
      <4>3. \A k \in 1 .. 0 : FALSE
        OBVIOUS
      <4>4. QED
        BY <4>1, <4>2, <4>3, Zenon
    <3>2. QED
      BY <3>1, ListedIs, Zenon
  <2>2. \A s : s \notin LiveSpans(live)
    <3>1. live = {}
      BY DEF Init
    <3>2. QED
      BY <3>1, LiveIs
  <2>3. \A c \in CPUs : pc[c] = "idle"
    BY DEF Init
  <2>4. \A s : s \notin CarvingSpans(pc, got)
    <3>1. \A c \in CPUs : pc[c] # "carve"
      BY <2>3
    <3>2. QED
      BY <3>1, CarvingIs, Zenon
  <2>5. \A s : s \notin FreeingSpans(pc, got, req)
    <3>1. \A c \in CPUs : pc[c] \notin {"free", "lfree", "lput"}
      BY <2>3
    <3>2. QED
      BY <3>1, FreeingIs, Zenon
  <2>6. \A s : s \in PoolSpans(pool) <=> \E p \in Pages : s = <<"pool", p, PageCells(p, 1)>>
    <3>1. pool = Pages
      BY DEF Init
    <3>2. QED
      BY <3>1, PoolIs, Zenon
  <2>7. QED
    BY <2>1, <2>2, <2>4, <2>5, <2>6, SpanKinds, Zenon
<1>5. Partition(Spans)
  <2>1. ASSUME NEW s \in Spans, NEW t \in Spans, s # t PROVE s[3] \cap t[3] = {}
    <3>1. PICK p \in Pages : s = <<"pool", p, PageCells(p, 1)>>
      BY <1>4
    <3>2. PICK q \in Pages : t = <<"pool", q, PageCells(q, 1)>>
      BY <1>4
    <3>3. p # q /\ p \in Nat /\ q \in Nat
      BY <2>1, <3>1, <3>2, SlabAssumption DEF Pages
    <3>4. PageCells(p, 1) \cap PageCells(q, 1) = {}
      BY <3>3, PagesApart
    <3>5. s[3] = PageCells(p, 1) /\ t[3] = PageCells(q, 1)
      BY <3>1, <3>2
    <3>6. QED
      BY <3>4, <3>5, Zenon
  <2>2. ASSUME NEW x PROVE x \in Cells <=> \E s \in Spans : x \in s[3]
    <3>1. x \in Cells <=> \E p \in Pages : x \in PageCells(p, 1)
      BY CellFacts, Zenon
    <3>2. \A p : <<"pool", p, PageCells(p, 1)>>[3] = PageCells(p, 1)
      OBVIOUS
    <3>3. ASSUME NEW p \in Pages, x \in PageCells(p, 1) PROVE \E s \in Spans : x \in s[3]
      <4>1. <<"pool", p, PageCells(p, 1)>> \in Spans
        BY <1>4, Zenon
      <4>2. QED
        BY <3>2, <3>3, <4>1
    <3>4. ASSUME NEW s \in Spans, x \in s[3] PROVE \E p \in Pages : x \in PageCells(p, 1)
      <4>1. PICK p \in Pages : s = <<"pool", p, PageCells(p, 1)>>
        BY <1>4, Zenon
      <4>2. QED
        BY <3>2, <3>4, <4>1, Zenon
    <3>5. QED
      BY <3>1, <3>3, <3>4, Zenon
  <2>3. QED
    BY <2>1, <2>2 DEF Partition
<1>6. QED
  BY <1>1, <1>2, <1>3, <1>5 DEF SlabInv

\* A step of one CPU leaves what the others know.
LEMMA OthersKeep ==
    ASSUME NEW d \in CPUs, CallInv(d),
           pc'[d] = pc[d], req'[d] = req[d], got'[d] = got[d],
           slabLock = d => slabLock' = d /\ free_lists' = free_lists
    PROVE  CallInv(d)'
<1>1. \A a, l : Placed(a, l)' <=> Placed(a, l)
  OBVIOUS
<1>2. pc[d] \in {"refill", "take", "carve", "pop", "unlink"} => slabLock = d
  BY Zenon DEF CallInv
<1>3. CASE slabLock = d
  BY <1>3, Zenon DEF CallInv
<1>4. CASE slabLock # d
  BY <1>2, <1>4, Zenon DEF CallInv
<1>5. QED
  BY <1>3, <1>4

\* A step that moves no cell from one holder to another.
LEMMA QuietSpans ==
    ASSUME SlabInv, UNCHANGED <<pool, free_lists, mem, live>>,
           \A d \in CPUs :
              /\ pc'[d] = "carve" <=> pc[d] = "carve"
              /\ pc[d] = "carve" => got'[d] = got[d]
              /\ pc'[d] \in {"free", "lfree", "lput"} <=> pc[d] \in {"free", "lfree", "lput"}
              /\ pc[d] \in {"free", "lfree", "lput"} => got'[d] = got[d] /\ req'[d] = req[d]
    PROVE  /\ Partition(Spans')
           /\ \A o \in live' : Placed(o[1], o[2])
           /\ \A i \in ClassIds : \E s : Chain(i, free_lists'[i], mem', s)
<1>1. \A s : s \in CarvingSpans(pc', got') <=> s \in CarvingSpans(pc, got)
  BY SameCarving, Zenon
<1>2. \A s : s \in FreeingSpans(pc', got', req') <=> s \in FreeingSpans(pc, got, req)
  BY SameFreeing, Zenon
<1>3. \A s : s \in Spans' <=> s \in Spans
  BY <1>1, <1>2, SpanKinds, SpanKindsPrime, Zenon
<1>4. Partition(Spans)
  BY Zenon DEF SlabInv
<1>5. Partition(Spans')
  BY <1>3, <1>4, Zenon DEF Partition
<1>6. QED
  BY <1>5, Zenon DEF SlabInv

-----------------------------------------------------------------------------
(* One step of one CPU.                                                    *)

\* The layout and the class of a call under way.
LEMMA CallFacts ==
    ASSUME SlabInv, NEW c \in CPUs
    PROVE  /\ c # None /\ CallInv(c) /\ TypeInv
           /\ pc[c] \in {"lock", "refill", "take", "carve", "pop", "unlink", "free"} =>
                 /\ req[c] \in Layouts /\ ClassOf(req[c]) # None /\ ClassOf(req[c]) \in ClassIds
                 /\ Granted(req[c]) = Classes[ClassOf(req[c])]
<1>1. c # None /\ CallInv(c) /\ TypeInv
  BY SlabAssumption, Zenon DEF SlabInv
<1>2. ASSUME pc[c] \in {"lock", "refill", "take", "carve", "pop", "unlink", "free"}
      PROVE  /\ req[c] \in Layouts /\ ClassOf(req[c]) # None /\ ClassOf(req[c]) \in ClassIds
             /\ Granted(req[c]) = Classes[ClassOf(req[c])]
  <2>1. req[c] \in Layouts /\ ClassOf(req[c]) # None
    BY <1>1, <1>2, Zenon DEF CallInv
  <2>2. QED
    BY <2>1, ClassFits, Zenon
<1>3. QED
  BY <1>1, <1>2, Zenon

\* The other CPUs do nothing.
Others(c) == \A d \in CPUs \ {c} : pc'[d] = pc[d] /\ req'[d] = req[d] /\ got'[d] = got[d]

\* What is left to show of a step of CPU c that moves no cell.
LEMMA QuietStep ==
    ASSUME SlabInv, NEW c \in CPUs, TypeInv', CallInv(c)',
           UNCHANGED <<pool, free_lists, mem, live>>,
           Others(c),
           slabLock' = slabLock \/ slabLock \in {c, None},
           pc[c] # "carve" /\ pc'[c] # "carve",
           pc'[c] \in {"free", "lfree", "lput"} <=> pc[c] \in {"free", "lfree", "lput"},
           pc[c] \in {"free", "lfree", "lput"} => got'[c] = got[c] /\ req'[c] = req[c]
    PROVE  SlabInv'
<1>1. ASSUME NEW d \in CPUs PROVE CallInv(d)'
  <2>1. CASE d = c
    BY <2>1, Zenon
  <2>2. CASE d # c
    <3>1. CallInv(d) /\ d # None
      BY CallFacts, Zenon
    <3>2. slabLock = d => slabLock' = d
      BY <2>2, <3>1, Zenon
    <3>3. pc'[d] = pc[d] /\ req'[d] = req[d] /\ got'[d] = got[d] /\ free_lists' = free_lists
      BY <2>2, Zenon DEF Others
    <3>4. QED
      BY <3>1, <3>2, <3>3, OthersKeep, Zenon
  <2>3. QED
    BY <2>1, <2>2, Zenon
<1>2. \A d \in CPUs :
         /\ pc'[d] = "carve" <=> pc[d] = "carve"
         /\ pc[d] = "carve" => got'[d] = got[d]
         /\ pc'[d] \in {"free", "lfree", "lput"} <=> pc[d] \in {"free", "lfree", "lput"}
         /\ pc[d] \in {"free", "lfree", "lput"} => got'[d] = got[d] /\ req'[d] = req[d]
  <2> TAKE d \in CPUs
  <2>1. CASE d = c
    BY <2>1, Zenon
  <2>2. CASE d # c
    BY <2>2, Zenon DEF Others
  <2>3. QED
    BY <2>1, <2>2, Zenon
<1>3. /\ Partition(Spans')
      /\ \A o \in live' : Placed(o[1], o[2])
      /\ \A i \in ClassIds : \E s : Chain(i, free_lists'[i], mem', s)
  BY <1>2, QuietSpans, Zenon
<1>4. QED
  BY <1>1, <1>3, Zenon DEF SlabInv

\* An allocation starts.
LEMMA AllocCallInv ==
    ASSUME SlabInv, NEW c \in CPUs, NEW l \in Layouts, AllocCall(c, l)
    PROVE  SlabInv'
<1>1. CallInv(c) /\ TypeInv
  BY CallFacts, Zenon
<1>2. TypeInv'
  BY <1>1, Zenon DEF AllocCall, Go, TypeInv, Steps
<1>3. pc[c] = "idle" /\ pc'[c] = (IF ClassOf(l) = None THEN "large" ELSE "lock") /\ req'[c] = l
  BY <1>1, Zenon DEF AllocCall, Go, TypeInv
<1>4. CallInv(c)'
  BY <1>3, Zenon DEF CallInv
<1>5. Others(c)
  BY <1>1, Zenon DEF AllocCall, Go, TypeInv, Others
<1>6. UNCHANGED <<pool, free_lists, mem, live>> /\ slabLock' = slabLock
  BY SMTT(30) DEF AllocCall
<1>7. QED
  BY <1>2, <1>3, <1>4, <1>5, <1>6, QuietStep, Zenon

\* alloc takes the slab lock and looks at the list.
LEMMA LockSlabInv ==
    ASSUME SlabInv, NEW c \in CPUs, LockSlab(c)
    PROVE  SlabInv'
<1>1. CallInv(c) /\ TypeInv
  BY CallFacts, Zenon
<1>2. TypeInv'
  BY <1>1, Zenon DEF LockSlab, Go, TypeInv, Steps
<1>3. /\ pc[c] = "lock" /\ slabLock = None /\ slabLock' = c
      /\ pc'[c] = (IF free_lists[ClassOf(req[c])] = None THEN "refill" ELSE "pop")
      /\ UNCHANGED <<pool, free_lists, mem, live, req, got>>
      /\ Others(c)
  BY <1>1, Zenon DEF LockSlab, Go, TypeInv, Others
<1>4. CallInv(c)'
  BY <1>1, <1>3, Zenon DEF CallInv
<1>5. QED
  BY <1>2, <1>3, <1>4, QuietStep, Zenon

\* The page allocator's lock.
LEMMA LockBuddyInv ==
    ASSUME SlabInv, NEW c \in CPUs, LockBuddy(c)
    PROVE  SlabInv'
<1>1. CallInv(c) /\ TypeInv
  BY CallFacts
<1>2. TypeInv'
  BY <1>1, Zenon DEF LockBuddy, Go, TypeInv, Steps
<1>3. /\ \/ pc[c] = "refill" /\ pc'[c] = "take"
         \/ pc[c] = "large" /\ pc'[c] = "ltake"
         \/ pc[c] = "lfree" /\ pc'[c] = "lput"
      /\ UNCHANGED <<slabLock, pool, free_lists, mem, live, req, got>>
      /\ Others(c)
  BY <1>1, Zenon DEF LockBuddy, Go, TypeInv, Others
<1>4. CallInv(c)'
  BY <1>1, <1>3, Zenon DEF CallInv
<1>5. QED
  BY <1>2, <1>3, <1>4, QuietStep, Zenon

\* An allocation fails for want of pages, the slab lock being dropped.
LEMMA RefillFailsInv ==
    ASSUME SlabInv, NEW c \in CPUs, RefillFails(c)
    PROVE  SlabInv'
<1>1. CallInv(c) /\ TypeInv
  BY CallFacts
<1>2. TypeInv'
  BY <1>1, Zenon DEF RefillFails, Return, Go, TypeInv, Steps
<1>3. /\ pc[c] \in {"refill", "take"} /\ pc'[c] = "idle"
      /\ UNCHANGED <<pool, free_lists, mem, live>>
      /\ Others(c)
  BY <1>1, Zenon DEF RefillFails, Return, Go, TypeInv, Others
<1>4. CallInv(c)' /\ slabLock = c
  BY <1>1, <1>3, Zenon DEF CallInv
<1>5. QED
  BY <1>2, <1>3, <1>4, QuietStep, Zenon

\* large_alloc fails: the page allocator is down or has no block.
LEMMA LargeFailsInv ==
    ASSUME SlabInv, NEW c \in CPUs, LargeFails(c)
    PROVE  SlabInv'
<1>1. CallInv(c) /\ TypeInv
  BY CallFacts
<1>2. TypeInv'
  BY <1>1, Zenon DEF LargeFails, Return, Go, TypeInv, Steps
<1>3. /\ pc[c] \in {"large", "ltake"} /\ pc'[c] = "idle"
      /\ UNCHANGED <<slabLock, pool, free_lists, mem, live>>
      /\ Others(c)
  BY <1>1, Zenon DEF LargeFails, Return, Go, TypeInv, Others
<1>4. CallInv(c)'
  BY <1>1, <1>3, Zenon DEF CallInv
<1>5. QED
  BY <1>2, <1>3, <1>4, QuietStep, Zenon

\* pop reads the head.
LEMMA PopInv ==
    ASSUME SlabInv, NEW c \in CPUs, Pop(c)
    PROVE  SlabInv'
<1>1. CallInv(c) /\ TypeInv
  BY CallFacts
<1>2. pc[c] = "pop"
  BY Zenon DEF Pop, Go
<1>3. ClassOf(req[c]) \in ClassIds /\ free_lists[ClassOf(req[c])] # None
  BY <1>1, <1>2, CallFacts, Zenon DEF CallInv
<1>4. free_lists[ClassOf(req[c])] \in Nat
  BY <1>1, <1>3, CellFacts DEF TypeInv
<1>5. TypeInv'
  BY <1>1, <1>4, Zenon DEF Pop, Go, TypeInv, Steps
<1>6. /\ pc'[c] = "unlink" /\ got'[c] = free_lists[ClassOf(req[c])]
      /\ UNCHANGED <<slabLock, pool, free_lists, mem, live, req>>
      /\ Others(c)
  BY <1>1, Zenon DEF Pop, Go, TypeInv, Others
<1>7. CallInv(c)'
  BY <1>1, <1>2, <1>3, <1>6, Zenon DEF CallInv
<1>8. QED
  BY <1>2, <1>5, <1>6, <1>7, QuietStep, Zenon

\* The step cuts up the cells of the spans A into B.
Recuts(A, B) ==
    /\ \A s \in A : s \in Spans
    /\ \A s, t \in B : s # t => s[3] \cap t[3] = {}
    /\ \A x : (\E s \in A : x \in s[3]) <=> (\E s \in B : x \in s[3])
    /\ \A s : s \in Spans' <=> (s \in Spans /\ s \notin A) \/ s \in B

\* It leaves a partition.
LEMMA Recut ==
    ASSUME SlabInv, NEW A, NEW B, Recuts(A, B)
    PROVE  Partition(Spans')
<1>1. Partition(Spans) /\ A \subseteq Spans
  BY Zenon DEF SlabInv, Recuts
<1>2. /\ \A s, t \in B : s # t => s[3] \cap t[3] = {}
      /\ \A x : (\E s \in A : x \in s[3]) <=> (\E s \in B : x \in s[3])
      /\ \A s : s \in Spans' <=> (s \in Spans /\ s \notin A) \/ s \in B
  BY Zenon DEF Recuts
<1>3. QED
  BY <1>1, <1>2, Regroup, Zenon

\* So does one that passes the cells of span a on as span b.
LEMMA PassOn ==
    ASSUME SlabInv, NEW a, NEW b, a \in Spans, a[3] = b[3],
           \A s : s \in Spans' <=> (s \in Spans /\ s # a) \/ s = b
    PROVE  Partition(Spans')
<1>1. Recuts({a}, {b})
  BY Zenon DEF Recuts
<1>2. QED
  BY <1>1, Recut

\* What is left to show of a step of CPU c that moves cells.
LEMMA MovingStep ==
    ASSUME SlabInv, NEW c \in CPUs, TypeInv', CallInv(c)',
           Others(c),
           slabLock' = slabLock \/ slabLock \in {c, None},
           free_lists' = free_lists \/ slabLock \in {c, None},
           \A o \in live' : Placed(o[1], o[2]),
           \A i \in ClassIds : \E s : Chain(i, free_lists'[i], mem', s),
           Partition(Spans')
    PROVE  SlabInv'
<1>1. ASSUME NEW d \in CPUs PROVE CallInv(d)'
  <2>1. CASE d = c
    BY <2>1, Zenon
  <2>2. CASE d # c
    <3>1. CallInv(d) /\ d # None
      BY CallFacts, Zenon
    <3>2. slabLock = d => slabLock' = d /\ free_lists' = free_lists
      BY <2>2, <3>1
    <3>3. pc'[d] = pc[d] /\ req'[d] = req[d] /\ got'[d] = got[d]
      BY <2>2, Zenon DEF Others
    <3>4. QED
      BY <3>1, <3>2, <3>3, OthersKeep, Zenon
  <2>3. QED
    BY <2>1, <2>2, Zenon
<1>2. QED
  BY <1>1, Zenon DEF SlabInv

\* The name of a span tells its kind.
LEMMA KindOf ==
    ASSUME NEW s
    PROVE  /\ s \in ListedSpans(free_lists, mem) => s[1] = "listed"
           /\ s \in LiveSpans(live) => s[1] = "live"
           /\ s \in PoolSpans(pool) => s[1] = "pool"
           /\ s \in CarvingSpans(pc, got) => s[1] = "carving"
           /\ s \in FreeingSpans(pc, got, req) => s[1] = "freeing"
<1>1. s \in ListedSpans(free_lists, mem) => s[1] = "listed"
  BY ListedAre, SMTT(60) DEF InLists
<1>2. s \in LiveSpans(live) => s[1] = "live"
  BY LiveIs
<1>3. s \in PoolSpans(pool) => s[1] = "pool"
  BY PoolIs
<1>4. s \in CarvingSpans(pc, got) => s[1] = "carving"
  BY CarvingIs
<1>5. s \in FreeingSpans(pc, got, req) => s[1] = "freeing"
  BY FreeingIs
<1>6. QED
  BY <1>1, <1>2, <1>3, <1>4, <1>5, Zenon

\* What the CPUs carve, when only CPU c moves.
LEMMA CarvingSteps ==
    ASSUME NEW c \in CPUs, Others(c)
    PROVE  /\ pc[c] \notin {"carve"} /\ pc'[c] \notin {"carve"} =>
                \A s : s \in CarvingSpans(pc', got') <=> s \in CarvingSpans(pc, got)
           /\ pc[c] \notin {"carve"} /\ pc'[c] \in {"carve"} =>
                \A s : s \in CarvingSpans(pc', got') <=>
                         s \in CarvingSpans(pc, got) \/ s = <<"carving", c, PageCells(got'[c], 1)>>
           /\ pc[c] \in {"carve"} /\ pc'[c] \notin {"carve"} =>
                \A s : s \in CarvingSpans(pc', got') <=>
                         s \in CarvingSpans(pc, got) /\ s # <<"carving", c, PageCells(got[c], 1)>>
<1> DEFINE F == {"carve"}
           Of(d) == <<"carving", d, PageCells(got[d], 1)>>
           Of2(d) == <<"carving", d, PageCells(got'[d], 1)>>
<1>1. \A s : s \in CarvingSpans(pc, got) <=> \E d \in CPUs : pc[d] \in F /\ s = Of(d)
  BY CarvingIs
<1>2. \A s : s \in CarvingSpans(pc', got') <=> \E d \in CPUs : pc'[d] \in F /\ s = Of2(d)
  BY CarvingIs
<1>3. ASSUME NEW d \in CPUs, d # c PROVE (pc'[d] \in F <=> pc[d] \in F) /\ Of2(d) = Of(d)
  BY <1>3 DEF Others
<1>4. \A d \in CPUs : (Of(d) = Of(c) => d = c) /\ (Of2(d) = Of2(c) => d = c)
  BY Zenon
<1> HIDE DEF F, Of, Of2
<1>5. ASSUME pc[c] \notin F, pc'[c] \notin F
      PROVE  \A s : s \in CarvingSpans(pc', got') <=> s \in CarvingSpans(pc, got)
  BY <1>1, <1>2, <1>3, <1>5
<1>6. ASSUME pc[c] \notin F, pc'[c] \in F
      PROVE  \A s : s \in CarvingSpans(pc', got') <=> s \in CarvingSpans(pc, got) \/ s = Of2(c)
  BY <1>1, <1>2, <1>3, <1>6
<1>7. ASSUME pc[c] \in F, pc'[c] \notin F
      PROVE  \A s : s \in CarvingSpans(pc', got') <=> s \in CarvingSpans(pc, got) /\ s # Of(c)
  BY <1>1, <1>2, <1>3, <1>4, <1>7
<1>8. QED
  BY <1>5, <1>6, <1>7, Zenon DEF F, Of, Of2

\* What the CPUs free, when only CPU c moves.
LEMMA FreeingSteps ==
    ASSUME NEW c \in CPUs, Others(c)
    PROVE  /\ pc[c] \notin {"free", "lfree", "lput"} /\ pc'[c] \notin {"free", "lfree", "lput"} =>
                \A s : s \in FreeingSpans(pc', got', req') <=> s \in FreeingSpans(pc, got, req)
           /\ pc[c] \notin {"free", "lfree", "lput"} /\ pc'[c] \in {"free", "lfree", "lput"} =>
                \A s : s \in FreeingSpans(pc', got', req') <=>
                         s \in FreeingSpans(pc, got, req) \/ s = <<"freeing", c, Range0(got'[c], Granted(req'[c]))>>
           /\ pc[c] \in {"free", "lfree", "lput"} /\ pc'[c] \notin {"free", "lfree", "lput"} =>
                \A s : s \in FreeingSpans(pc', got', req') <=>
                         s \in FreeingSpans(pc, got, req) /\ s # <<"freeing", c, Range0(got[c], Granted(req[c]))>>
<1> DEFINE F == {"free", "lfree", "lput"}
           Of(d) == <<"freeing", d, Range0(got[d], Granted(req[d]))>>
           Of2(d) == <<"freeing", d, Range0(got'[d], Granted(req'[d]))>>
<1>1. \A s : s \in FreeingSpans(pc, got, req) <=> \E d \in CPUs : pc[d] \in F /\ s = Of(d)
  BY FreeingIs, SMTT(60)
<1>2. \A s : s \in FreeingSpans(pc', got', req') <=> \E d \in CPUs : pc'[d] \in F /\ s = Of2(d)
  BY FreeingIs, SMTT(60)
<1>3. ASSUME NEW d \in CPUs, d # c PROVE (pc'[d] \in F <=> pc[d] \in F) /\ Of2(d) = Of(d)
  BY <1>3, Zenon DEF Others
<1>4. \A d \in CPUs : (Of(d) = Of(c) => d = c) /\ (Of2(d) = Of2(c) => d = c)
  BY Zenon
<1> HIDE DEF F, Of, Of2
<1>5. ASSUME pc[c] \notin F, pc'[c] \notin F
      PROVE  \A s : s \in FreeingSpans(pc', got', req') <=> s \in FreeingSpans(pc, got, req)
  BY <1>1, <1>2, <1>3, <1>5
<1>6. ASSUME pc[c] \notin F, pc'[c] \in F
      PROVE  \A s : s \in FreeingSpans(pc', got', req') <=> s \in FreeingSpans(pc, got, req) \/ s = Of2(c)
  BY <1>1, <1>2, <1>3, <1>6
<1>7. ASSUME pc[c] \in F, pc'[c] \notin F
      PROVE  \A s : s \in FreeingSpans(pc', got', req') <=> s \in FreeingSpans(pc, got, req) /\ s # Of(c)
  BY <1>1, <1>2, <1>3, <1>4, <1>7
<1>8. QED
  BY <1>5, <1>6, <1>7, Zenon DEF F, Of, Of2

\* The page allocator gives refill a page.
LEMMA TakePageInv ==
    ASSUME SlabInv, NEW c \in CPUs, NEW p \in Pages, TakePage(c, p)
    PROVE  SlabInv'
<1>1. CallInv(c) /\ TypeInv
  BY CallFacts, Zenon
<1>2. p \in Nat
  BY SlabAssumption DEF Pages
<1>3. TypeInv'
  BY <1>1, <1>2, Zenon DEF TakePage, Go, TypeInv, Steps
<1>4. /\ pc[c] = "take" /\ pc'[c] = "carve" /\ got'[c] = p /\ p \in pool /\ pool' = pool \ {p}
      /\ UNCHANGED <<slabLock, free_lists, mem, live, req>>
      /\ Others(c)
  BY <1>1, Zenon DEF TakePage, Go, TypeInv, Others
<1>5. CallInv(c)'
  BY <1>1, <1>4, Zenon DEF CallInv
<1>6. /\ \A o \in live' : Placed(o[1], o[2])
      /\ \A i \in ClassIds : \E s : Chain(i, free_lists'[i], mem', s)
  BY <1>4, Zenon DEF SlabInv
<1>7. PICK a, b : a = <<"pool", p, PageCells(p, 1)>> /\ b = <<"carving", c, PageCells(p, 1)>>
  BY Zenon
<1>8. \A s : s \in PoolSpans(pool') <=> s \in PoolSpans(pool) /\ s # a
  <2>1. \A q : q \in pool' <=> q \in pool /\ q # p
    BY <1>4, Zenon
  <2>2. \A q : <<"pool", q, PageCells(q, 1)>> = a <=> q = p
    BY <1>7, SMTT(30)
  <2>3. QED
    BY <2>1, <2>2, PoolIs, SMTT(30)
<1>9. \A s : s \in CarvingSpans(pc', got') <=> s \in CarvingSpans(pc, got) \/ s = b
  BY <1>4, <1>7, CarvingSteps, Zenon
<1>10. \A s : s \in FreeingSpans(pc', got', req') <=> s \in FreeingSpans(pc, got, req)
  BY <1>4, FreeingSteps, Zenon
<1>11. a \in PoolSpans(pool)
  BY <1>4, <1>7, PoolIs, Zenon
<1>12. /\ a \notin ListedSpans(free_lists, mem) /\ a \notin LiveSpans(live)
       /\ a \notin CarvingSpans(pc, got) /\ a \notin FreeingSpans(pc, got, req)
  BY <1>7, KindOf, SMTT(30)
<1>13. \A s : s \in Spans' <=> (s \in Spans /\ s # a) \/ s = b
  BY <1>4, <1>8, <1>9, <1>10, <1>12, SpanKinds, SpanKindsPrime, Zenon
<1>14. a \in Spans /\ a[3] = b[3]
  BY <1>7, <1>11, SpanKinds
<1>15. /\ Others(c)
       /\ slabLock' = slabLock /\ free_lists' = free_lists
  BY <1>4, Zenon
<1>17. Partition(Spans')
  BY <1>13, <1>14, PassOn
<1>18. QED
  BY <1>3, <1>5, <1>6, <1>15, <1>17, MovingStep, Zenon

\* A client gives an object back.
LEMMA DeallocCallInv ==
    ASSUME SlabInv, NEW c \in CPUs, NEW o \in live, DeallocCall(c, o)
    PROVE  SlabInv'
<1>1. CallInv(c) /\ TypeInv
  BY CallFacts, Zenon
<1>2. o \in Nat \X Layouts /\ Placed(o[1], o[2])
  BY <1>1, Zenon DEF TypeInv, SlabInv
<1>3. TypeInv'
  BY <1>1, <1>2, Zenon DEF DeallocCall, Go, TypeInv, Steps
<1>4. /\ pc[c] = "idle" /\ pc'[c] = (IF ClassOf(o[2]) = None THEN "lfree" ELSE "free")
      /\ req'[c] = o[2] /\ got'[c] = o[1] /\ live' = live \ {o}
      /\ UNCHANGED <<slabLock, pool, free_lists, mem>>
      /\ Others(c)
  BY <1>1, Zenon DEF DeallocCall, Go, TypeInv, Others
<1>5. CallInv(c)'
  <2>1. o[2] \in Layouts
    BY <1>2, Zenon
  <2>2. Placed(o[1], o[2])'
    BY <1>2, Zenon DEF Placed
  <2>3. QED
    BY <1>2, <1>4, <2>1, <2>2, Zenon DEF CallInv, Placed
<1>6. /\ \A u \in live' : Placed(u[1], u[2])
      /\ \A i \in ClassIds : \E s : Chain(i, free_lists'[i], mem', s)
  BY <1>4, Zenon DEF SlabInv
<1>7. PICK a, b : /\ a = <<"live", o, Range0(o[1], Granted(o[2]))>>
                  /\ b = <<"freeing", c, Range0(o[1], Granted(o[2]))>>
  BY Zenon
<1>8. \A s : s \in LiveSpans(live') <=> s \in LiveSpans(live) /\ s # a
  <2>1. \A q : q \in live' <=> q \in live /\ q # o
    BY <1>4, Zenon
  <2>2. \A q : <<"live", q, Range0(q[1], Granted(q[2]))>> = a <=> q = o
    BY <1>7, SMTT(30)
  <2>3. QED
    BY <2>1, <2>2, LiveIs
<1>9. \A s : s \in FreeingSpans(pc', got', req') <=> s \in FreeingSpans(pc, got, req) \/ s = b
  BY <1>4, <1>7, FreeingSteps, Zenon
<1>10. \A s : s \in CarvingSpans(pc', got') <=> s \in CarvingSpans(pc, got)
  BY <1>4, CarvingSteps, Zenon
<1>11. a \in LiveSpans(live)
  BY <1>7, LiveIs
<1>12. /\ a \notin ListedSpans(free_lists, mem) /\ a \notin PoolSpans(pool)
       /\ a \notin CarvingSpans(pc, got) /\ a \notin FreeingSpans(pc, got, req)
  BY <1>7, KindOf, SMTT(30)
<1>13. \A s : s \in Spans' <=> (s \in Spans /\ s # a) \/ s = b
  BY <1>4, <1>8, <1>9, <1>10, <1>12, SpanKinds, SpanKindsPrime, Zenon
<1>14. a \in Spans /\ a[3] = b[3]
  BY <1>7, <1>11, SpanKinds, Zenon
<1>16. Partition(Spans')
  BY <1>13, <1>14, PassOn, Zenon
<1>17. QED
  BY <1>3, <1>4, <1>5, <1>6, <1>16, MovingStep, Zenon

\* Disjoint cells: the pages of a set.
LEMMA PoolApart ==
    ASSUME NEW R, R \subseteq Nat
    PROVE  \A s, t \in PoolSpans(R) : s # t => s[3] \cap t[3] = {}
<1> SUFFICES ASSUME NEW s \in PoolSpans(R), NEW t \in PoolSpans(R), s # t
             PROVE  s[3] \cap t[3] = {}
  BY Zenon
<1>1. PICK p \in R : s = <<"pool", p, PageCells(p, 1)>>
  BY PoolIs, Zenon
<1>2. PICK q \in R : t = <<"pool", q, PageCells(q, 1)>>
  BY PoolIs, Zenon
<1>3. p # q /\ p \in Nat /\ q \in Nat
  BY <1>1, <1>2
<1>4. s[3] = PageCells(p, 1) /\ t[3] = PageCells(q, 1)
  BY <1>1, <1>2
<1>5. QED
  BY <1>3, <1>4, PagesApart, Zenon

\* A large object's cells are those of its pages.
LEMMA LargeFacts ==
    ASSUME NEW l \in Layouts, ClassOf(l) = None, \E x \in Blocks : x * PageSize >= l[1],
           NEW p \in Nat, NEW n, n = PagesFor(l[1])
    PROVE  /\ n \in Nat /\ n >= 1 /\ Granted(l) = n * PageSize /\ Range0(p, n) \subseteq Nat
           /\ (p * PageSize) \div PageSize = p
           /\ \A x : x \in Range0(p * PageSize, Granted(l))
                     <=> \E s \in PoolSpans(Range0(p, n)) : x \in s[3]
<1>1. n \in Nat /\ n >= 1 /\ Granted(l) = n * PageSize
  BY PagesFit DEF Granted
<1>2. Range0(p, n) \subseteq Nat
  BY <1>1 DEF Range0
<1>3. (p * PageSize) \div PageSize = p
  <2>1. PageSize \in Nat /\ PageSize >= 1 /\ p * PageSize = PageSize * p /\ p \in Int
    BY SlabAssumption
  <2>2. (PageSize * p) \div PageSize = p
    BY <2>1, Multiple
  <2>3. QED
    BY <2>1, <2>2
<1>4. ASSUME NEW x
      PROVE  x \in Range0(p * PageSize, n * PageSize) <=> \E s \in PoolSpans(Range0(p, n)) : x \in s[3]
  <2>1. x \in Range0(p * PageSize, n * PageSize) <=> \E q \in Range0(p, n) : x \in PageCells(q, 1)
    BY <1>1, RunFacts, Zenon
  <2>2. ASSUME NEW q \in Range0(p, n), x \in PageCells(q, 1)
        PROVE  \E s \in PoolSpans(Range0(p, n)) : x \in s[3]
    <3>1. <<"pool", q, PageCells(q, 1)>> \in PoolSpans(Range0(p, n))
      BY PoolIs
    <3>2. QED
      BY <2>2, <3>1, Zenon
  <2>3. ASSUME NEW s \in PoolSpans(Range0(p, n)), x \in s[3]
        PROVE  \E q \in Range0(p, n) : x \in PageCells(q, 1)
    <3>1. PICK q \in Range0(p, n) : s = <<"pool", q, PageCells(q, 1)>>
      BY PoolIs
    <3>2. s[3] = PageCells(q, 1)
      BY <3>1, Zenon
    <3>3. QED
      BY <2>3, <3>2, Zenon
  <2>4. QED
    BY <2>1, <2>2, <2>3, Zenon
<1>5. QED
  BY <1>1, <1>2, <1>3, <1>4, Zenon

\* The page allocator gives large_alloc a block.
LEMMA TakeRunInv ==
    ASSUME SlabInv, NEW c \in CPUs, NEW p \in Pages, TakeRun(c, p)
    PROVE  SlabInv'
<1>1. CallInv(c) /\ TypeInv
  BY CallFacts
<1>2. PICK l, n, R : l = req[c] /\ n = PagesFor(l[1]) /\ R = Range0(p, n)
  BY Zenon
<1>3. /\ pc[c] = "ltake" /\ pc'[c] = "idle" /\ R \subseteq pool /\ pool' = pool \ R
      /\ live' = live \cup {<<p * PageSize, l>>}
      /\ \E x \in Blocks : x * PageSize >= l[1]
      /\ UNCHANGED <<slabLock, free_lists, mem>>
      /\ Others(c)
  BY <1>1, <1>2, Zenon DEF TakeRun, Return, Go, TypeInv, Others
<1>4. l \in Layouts /\ ClassOf(l) = None /\ p \in Nat
  BY <1>1, <1>2, <1>3, SlabAssumption, SMTT(60) DEF CallInv, Pages
<1>5. /\ n \in Nat /\ n >= 1 /\ R \subseteq Nat
      /\ \A x : x \in Range0(p * PageSize, Granted(l)) <=> \E s \in PoolSpans(R) : x \in s[3]
  BY <1>2, <1>3, <1>4, LargeFacts, SMTT(60)
<1>6. p + n <= NPages
  <2>1. p + n - 1 \in R
    BY <1>2, <1>4, <1>5 DEF Range0
  <2>2. p + n - 1 \in Pages
    BY <1>1, <1>3, <2>1, Zenon DEF TypeInv
  <2>3. QED
    BY <1>4, <1>5, <2>2, SlabAssumption, SMTT(60) DEF Pages
<1>o. PICK o : o = <<p * PageSize, l>>
  BY Zenon
<1>7. o = <<p * PageSize, l>> /\ o[1] = p * PageSize /\ o[2] = l
  BY <1>o, SMTT(30)
<1>8. Placed(o[1], o[2]) /\ o \in Nat \X Layouts
  <2>1. p * PageSize \in Nat
    BY <1>4, PageFacts, Zenon
  <2>2. QED
    BY <1>2, <1>3, <1>4, <1>6, <1>7, <2>1, Zenon DEF Placed
<1>9. TypeInv'
  BY <1>1, <1>3, <1>7, <1>8, Zenon DEF TakeRun, Return, Go, TypeInv, Steps
<1>10. CallInv(c)'
  BY <1>3, Zenon DEF CallInv
<1>11. /\ \A u \in live' : Placed(u[1], u[2])
       /\ \A i \in ClassIds : \E s : Chain(i, free_lists'[i], mem', s)
  BY <1>3, <1>7, <1>8, Zenon DEF SlabInv
<1>12. PICK b : b = <<"live", o, Range0(p * PageSize, Granted(l))>>
  BY Zenon
<1>13. \A s : s \in LiveSpans(live') <=> s \in LiveSpans(live) \/ s = b
  <2>1. \A q : q \in live' <=> q \in live \/ q = o
    BY <1>3, <1>7, Zenon
  <2>2. b = <<"live", o, Range0(o[1], Granted(o[2]))>>
    BY <1>7, <1>12
  <2>3. QED
    BY <2>1, <2>2, LiveIs
<1> DEFINE A == PoolSpans(R)
           B == {b}
<1>14. \A s : s \in PoolSpans(pool') <=> s \in PoolSpans(pool) /\ s \notin A
  <2>1. \A q : q \in pool' <=> q \in pool /\ q \notin R
    BY <1>3, Zenon
  <2>2. \A q, r : <<"pool", q, PageCells(q, 1)>> = <<"pool", r, PageCells(r, 1)>> => q = r
    OBVIOUS
  <2>3. QED
    BY <2>1, <2>2, PoolIs
<1>15. \A s \in A : s \in PoolSpans(pool)
  BY <1>3, PoolIs, SMTT(60)
<1>16. ASSUME NEW s \in A
       PROVE  /\ s \notin ListedSpans(free_lists, mem) /\ s \notin LiveSpans(live)
              /\ s \notin CarvingSpans(pc, got) /\ s \notin FreeingSpans(pc, got, req)
  <2>1. PICK q \in R : s = <<"pool", q, PageCells(q, 1)>>
    BY PoolIs, SMTT(30)
  <2>2. QED
    BY <2>1, KindOf
<1>17. /\ \A s : s \in FreeingSpans(pc', got', req') <=> s \in FreeingSpans(pc, got, req)
       /\ \A s : s \in CarvingSpans(pc', got') <=> s \in CarvingSpans(pc, got)
  BY <1>3, FreeingSteps, CarvingSteps, Zenon
<1> HIDE DEF A
<1>18. \A s : s \in Spans' <=> (s \in Spans /\ s \notin A) \/ s \in B
  BY <1>3, <1>13, <1>14, <1>16, <1>17, SpanKinds, SpanKindsPrime, Zenon
<1>19. /\ \A s \in A : s \in Spans
       /\ \A s, t \in B : s # t => s[3] \cap t[3] = {}
       /\ \A x : (\E s \in A : x \in s[3]) <=> (\E s \in B : x \in s[3])
  <2>1. \A s \in A : s \in Spans
    BY <1>15, SpanKinds
  <2>2. b[3] = Range0(p * PageSize, Granted(l))
    BY <1>12
  <2>3. \A x : x \in b[3] <=> \E s \in A : x \in s[3]
    BY <1>5, <2>2, Zenon DEF A
  <2>4. QED
    BY <2>1, <2>3, Zenon
<1>20. Recuts(A, B)
  BY <1>18, <1>19, Zenon DEF Recuts
<1> HIDE DEF B
<1>21. Partition(Spans')
  BY <1>20, Recut
<1>22. QED
  BY <1>3, <1>9, <1>10, <1>11, <1>21, MovingStep, Zenon

\* large_dealloc gives the block back.
LEMMA PutRunInv ==
    ASSUME SlabInv, NEW c \in CPUs, PutRun(c)
    PROVE  SlabInv'
<1>1. CallInv(c) /\ TypeInv
  BY CallFacts
<1>2. pc[c] = "lput"
  BY Zenon DEF PutRun, Go
<1>3. PICK l, n : l = req[c] /\ n = PagesFor(l[1])
  BY Zenon
<1>4. Placed(got[c], l) /\ l \in Layouts /\ ClassOf(l) = None
  BY <1>1, <1>2, <1>3, Zenon DEF CallInv
<1>5. PICK p \in Nat : got[c] = p * PageSize /\ p + n <= NPages
  BY <1>3, <1>4, Zenon DEF Placed
<1>6. PICK R : R = Range0(p, n)
  OBVIOUS
<1>7. \E x \in Blocks : x * PageSize >= l[1]
  BY <1>4 DEF Placed
<1>8. /\ n \in Nat /\ n >= 1 /\ R \subseteq Nat /\ got[c] \div PageSize = p
      /\ \A x : x \in Range0(got[c], Granted(l)) <=> \E s \in PoolSpans(R) : x \in s[3]
  BY <1>3, <1>4, <1>5, <1>6, <1>7, LargeFacts, SMTT(60)
<1>9. R \subseteq Pages
  BY <1>5, <1>6, <1>8, SlabAssumption, SMTT(60) DEF Range0, Pages
<1>10. /\ pc'[c] = "idle" /\ pool' = pool \cup R
       /\ UNCHANGED <<slabLock, free_lists, mem, live>>
       /\ Others(c)
  BY <1>1, <1>3, <1>6, <1>8, Zenon DEF PutRun, Return, Go, TypeInv, Others
<1>11. TypeInv'
  BY <1>1, <1>9, <1>10, Zenon DEF PutRun, Return, Go, TypeInv, Steps
<1>12. CallInv(c)'
  BY <1>10, Zenon DEF CallInv
<1>13. /\ \A u \in live' : Placed(u[1], u[2])
       /\ \A i \in ClassIds : \E s : Chain(i, free_lists'[i], mem', s)
  BY <1>10, Zenon DEF SlabInv
<1>14. PICK a : a = <<"freeing", c, Range0(got[c], Granted(l))>>
  BY Zenon
<1> DEFINE A == {a}
           B == PoolSpans(R)
<1>15. \A s : s \in PoolSpans(pool') <=> s \in PoolSpans(pool) \/ s \in B
  BY <1>10, PoolIs
<1>16. /\ \A s : s \in FreeingSpans(pc', got', req') <=> s \in FreeingSpans(pc, got, req) /\ s # a
       /\ \A s : s \in CarvingSpans(pc', got') <=> s \in CarvingSpans(pc, got)
  <2>1. \A s : s \in FreeingSpans(pc', got', req') <=> s \in FreeingSpans(pc, got, req) /\ s # a
    BY <1>2, <1>3, <1>10, <1>14, FreeingSteps, Zenon
  <2>2. \A s : s \in CarvingSpans(pc', got') <=> s \in CarvingSpans(pc, got)
    BY <1>2, <1>10, CarvingSteps, Zenon
  <2>3. QED
    BY <2>1, <2>2, Zenon
<1>17. a \in FreeingSpans(pc, got, req)
  BY <1>2, <1>3, <1>14, FreeingIs, Zenon
<1>18. /\ a \notin ListedSpans(free_lists, mem) /\ a \notin LiveSpans(live)
       /\ a \notin CarvingSpans(pc, got) /\ a \notin PoolSpans(pool)
  BY <1>14, KindOf
<1>19. \A s, t \in B : s # t => s[3] \cap t[3] = {}
  BY <1>8, PoolApart, Zenon
<1> HIDE DEF B
<1>20. \A s : s \in Spans' <=> (s \in Spans /\ s \notin A) \/ s \in B
  BY <1>10, <1>15, <1>16, <1>18, SpanKinds, SpanKindsPrime, Zenon
<1>21. /\ \A s \in A : s \in Spans
       /\ \A x : (\E s \in A : x \in s[3]) <=> (\E s \in B : x \in s[3])
  <2>1. a \in Spans
    BY <1>17, SpanKinds, Zenon
  <2>2. a[3] = Range0(got[c], Granted(l))
    BY <1>14
  <2>3. \A x : x \in a[3] <=> \E s \in B : x \in s[3]
    BY <1>8, <2>2, Zenon DEF B
  <2>4. QED
    BY <2>1, <2>3, Zenon
<1>22. Recuts(A, B)
  BY <1>19, <1>20, <1>21, Zenon DEF Recuts
<1> HIDE DEF A
<1>23. Partition(Spans')
  BY <1>22, Recut
<1>24. QED
  BY <1>10, <1>11, <1>12, <1>13, <1>23, MovingStep, Zenon

\* Spans of one size that start apart are different.
LEMMA SpanStart ==
    ASSUME NEW a \in Int, NEW b \in Int, NEW n \in Nat, n >= 1, Range0(a, n) = Range0(b, n)
    PROVE  a = b
<1>1. a \in Range0(a, n) /\ b \in Range0(b, n)
  BY DEF Range0
<1>2. a >= b /\ b >= a
  BY <1>1 DEF Range0
<1>3. QED
  BY <1>2

\* What a list leads to are cells, at multiples of its class, and each has a
\* span to itself.
LEMMA ListedApart ==
    ASSUME SlabInv, NEW i \in ClassIds, NEW a \in Listed(free_lists[i], mem), NEW t \in Spans,
           t # <<"listed", i, Range0(a, Classes[i])>>
    PROVE  a \in Cells /\ a \notin t[3]
<1>1. a \in Cells
  BY Zenon DEF Listed
<1>2. a \in Range0(a, Classes[i])
  BY <1>1, ClassFacts, CellFacts DEF Range0
<1>3. PICK s : s = <<"listed", i, Range0(a, Classes[i])>>
  BY Zenon
<1>4. s \in Spans
  BY <1>3, ListedIs, SpanKinds, Zenon
<1>5. s[3] \cap t[3] = {}
  BY <1>3, <1>4, Zenon DEF SlabInv, Partition
<1>6. a \in s[3]
  BY <1>2, <1>3, Zenon
<1>7. QED
  BY <1>1, <1>5, <1>6, Zenon

\* A chain stays one if its objects are not written.
LEMMA ChainKeeps ==
    ASSUME NEW i, NEW head, NEW m, NEW s, Chain(i, head, m, s), NEW m2,
           \A k \in 1 .. Len(s) : m2[s[k]] = m[s[k]]
    PROVE  Chain(i, head, m2, s)
BY Zenon DEF Chain

\* A step that changes the list of class i only, and writes only cells W that
\* are in no other list.
ListMove(i, W, t) ==
    /\ \A j \in ClassIds \ {i} : free_lists'[j] = free_lists[j]
    /\ \A x \in Cells \ W : mem'[x] = mem[x]
    /\ \A j \in ClassIds \ {i} : \A a \in Listed(free_lists[j], mem) : a \notin W
    /\ Chain(i, free_lists'[i], mem', t)

\* It leaves chains, and changes the spans of class i only.
LEMMA ListsMove ==
    ASSUME SlabInv, NEW i \in ClassIds, NEW W, NEW t, ListMove(i, W, t)
    PROVE  /\ \A j \in ClassIds : \E s : Chain(j, free_lists'[j], mem', s)
           /\ \A s : s \in ListedSpans(free_lists', mem') <=>
                \/ \E k \in 1 .. Len(t) : s = <<"listed", i, Range0(t[k], Classes[i])>>
                \/ s \in ListedSpans(free_lists, mem) /\ s[2] # i
<1>1. ASSUME NEW j \in ClassIds, j # i
      PROVE  /\ \E s : Chain(j, free_lists'[j], mem', s)
             /\ \A a : a \in Listed(free_lists'[j], mem') <=> a \in Listed(free_lists[j], mem)
  <2>1. PICK s : Chain(j, free_lists[j], mem, s)
    BY DEF SlabInv
  <2>2. \A a : a \in Listed(free_lists[j], mem) <=> \E k \in 1 .. Len(s) : a = s[k]
    BY <2>1, ChainListed
  <2>3. \A k \in 1 .. Len(s) : s[k] \in Cells
    BY <2>1, ChainFacts, Zenon
  <2>4. \A k \in 1 .. Len(s) : s[k] \notin W
    BY <1>1, <2>2, Zenon DEF ListMove
  <2>5. \A k \in 1 .. Len(s) : mem'[s[k]] = mem[s[k]]
    BY <2>3, <2>4, Zenon DEF ListMove
  <2>6. Chain(j, free_lists[j], mem', s)
    BY <2>1, <2>5, ChainKeeps, Zenon
  <2>7. free_lists'[j] = free_lists[j]
    BY <1>1, Zenon DEF ListMove
  <2>8. Chain(j, free_lists'[j], mem', s)
    BY <2>6, <2>7, Zenon
  <2>9. \A a : a \in Listed(free_lists'[j], mem') <=> \E k \in 1 .. Len(s) : a = s[k]
    BY <2>8, ChainListed
  <2>10. QED
    BY <2>2, <2>8, <2>9, Zenon
<1>2. Chain(i, free_lists'[i], mem', t)
  BY Zenon DEF ListMove
<1>3. \A a : a \in Listed(free_lists'[i], mem') <=> \E k \in 1 .. Len(t) : a = t[k]
  BY <1>2, ChainListed
<1>4. ASSUME NEW s
      PROVE  s \in ListedSpans(free_lists', mem') <=>
                \/ \E k \in 1 .. Len(t) : s = <<"listed", i, Range0(t[k], Classes[i])>>
                \/ s \in ListedSpans(free_lists, mem) /\ s[2] # i
  <2>1. /\ s \in ListedSpans(free_lists', mem') <=>
             \E j \in ClassIds : \E a \in Listed(free_lists'[j], mem') :
                 s = <<"listed", j, Range0(a, Classes[j])>>
        /\ s \in ListedSpans(free_lists, mem) <=>
             \E j \in ClassIds : \E a \in Listed(free_lists[j], mem) :
                 s = <<"listed", j, Range0(a, Classes[j])>>
    <3>1. /\ s \in ListedSpans(free_lists', mem') <=> InLists(free_lists', mem', s)
          /\ s \in ListedSpans(free_lists, mem) <=> InLists(free_lists, mem, s)
      BY ListedAre
    <3>2. QED
      BY <3>1, Zenon DEF InLists
  <2>2. ASSUME NEW j \in ClassIds, NEW a \in Listed(free_lists'[j], mem'),
               s = <<"listed", j, Range0(a, Classes[j])>>
        PROVE  \/ \E k \in 1 .. Len(t) : s = <<"listed", i, Range0(t[k], Classes[i])>>
               \/ s \in ListedSpans(free_lists, mem) /\ s[2] # i
    <3>1. CASE j = i
      <4>1. PICK k \in 1 .. Len(t) : a = t[k]
        BY <1>3, <3>1
      <4>2. QED
        BY <2>2, <3>1, <4>1, Zenon
    <3>2. CASE j # i
      <4>1. a \in Listed(free_lists[j], mem) /\ s[2] = j
        BY <1>1, <2>2, <3>2, Zenon
      <4>2. QED
        BY <2>1, <2>2, <3>2, <4>1, Zenon
    <3>3. QED
      BY <3>1, <3>2, Zenon
  <2>3. ASSUME NEW k \in 1 .. Len(t), s = <<"listed", i, Range0(t[k], Classes[i])>>
        PROVE  s \in ListedSpans(free_lists', mem')
    <3>1. t[k] \in Listed(free_lists'[i], mem')
      BY <1>3
    <3>2. QED
      BY <2>1, <2>3, <3>1, Zenon
  <2>4. ASSUME s \in ListedSpans(free_lists, mem), s[2] # i
        PROVE  s \in ListedSpans(free_lists', mem')
    <3>1. PICK j \in ClassIds : \E a \in Listed(free_lists[j], mem) :
                                   s = <<"listed", j, Range0(a, Classes[j])>>
      BY <2>1, <2>4, Zenon
    <3>2. PICK a \in Listed(free_lists[j], mem) : s = <<"listed", j, Range0(a, Classes[j])>>
      BY <3>1, Zenon
    <3>3. j # i
      BY <2>4, <3>2
    <3>4. a \in Listed(free_lists'[j], mem')
      BY <1>1, <3>3, Zenon
    <3>5. QED
      BY <2>1, <3>2, <3>4, Zenon
  <2>5. QED
    BY <2>1, <2>2, <2>3, <2>4, Zenon
<1>5. ASSUME NEW j \in ClassIds PROVE \E s : Chain(j, free_lists'[j], mem', s)
  <2>1. CASE j = i
    BY <1>2, <2>1
  <2>2. CASE j # i
    BY <1>1, <2>2, Zenon
  <2>3. QED
    BY <2>1, <2>2
<1>6. QED
  BY <1>4, <1>5, Zenon

\* dealloc pushes the object.
LEMMA DeallocInv ==
    ASSUME SlabInv, NEW c \in CPUs, Dealloc(c)
    PROVE  SlabInv'
<1>1. CallInv(c) /\ TypeInv
  BY CallFacts
<1>2. pc[c] = "free"
  BY Zenon DEF Dealloc, Go
<1>3. PICK i, a : i = ClassOf(req[c]) /\ a = got[c]
  BY Zenon
<1>4. /\ i \in ClassIds /\ Granted(req[c]) = Classes[i] /\ a \in Nat /\ a % Classes[i] = 0
      /\ Classes[i] \in Nat /\ Classes[i] >= 1
  BY <1>1, <1>2, <1>3, CallFacts, ClassFacts, Zenon DEF CallInv, Placed
<1>5. /\ pc'[c] = "idle" /\ slabLock = None
      /\ free_lists' = [free_lists EXCEPT ![i] = a]
      /\ mem' = [mem EXCEPT ![a] = free_lists[i]]
      /\ UNCHANGED <<slabLock, pool, live>>
      /\ Others(c)
  BY <1>1, <1>3, Zenon DEF Dealloc, Push, Return, Go, TypeInv, Others
<1>6. PICK f, b : /\ f = <<"freeing", c, Range0(a, Classes[i])>>
                  /\ b = <<"listed", i, Range0(a, Classes[i])>>
  BY Zenon
<1>7. f \in FreeingSpans(pc, got, req) /\ f \in Spans
  <2>1. f \in FreeingSpans(pc, got, req)
    BY <1>2, <1>3, <1>4, <1>6, FreeingIs, Zenon
  <2>2. QED
    BY <2>1, SpanKinds, Zenon
<1>8. a \in f[3] /\ a \in Cells
  <2>1. a \in f[3]
    BY <1>4, <1>6, SMTT(60) DEF Range0
  <2>2. QED
    BY <1>7, <2>1, Zenon DEF SlabInv, Partition
<1>9. ASSUME NEW j \in ClassIds, NEW y \in Listed(free_lists[j], mem) PROVE y # a
  <2>1. f # <<"listed", j, Range0(y, Classes[j])>>
    BY <1>6, Zenon
  <2>2. QED
    BY <1>7, <1>8, <2>1, ListedApart, Zenon
<1>10. PICK s0 : Chain(i, free_lists[i], mem, s0)
  BY <1>4, Zenon DEF SlabInv
<1>11. \A y : y \in Listed(free_lists[i], mem) <=> \E k \in 1 .. Len(s0) : y = s0[k]
  BY <1>10, ChainListed
<1>12. PICK t : t = Append(s0, a)
  BY Zenon
<1>13. Chain(i, a, mem', t)
  <2>1. \A k \in 1 .. Len(s0) : s0[k] # a
    BY <1>4, <1>9, <1>11, Zenon
  <2>2. mem \in [Cells -> Links]
    BY <1>1, SMTT(30) DEF TypeInv
  <2>3. QED
    BY <1>4, <1>5, <1>8, <1>10, <1>12, <2>1, <2>2, PushChain, Zenon
<1>14. ListMove(i, {a}, t)
  <2>1. free_lists'[i] = a /\ \A j \in ClassIds \ {i} : free_lists'[j] = free_lists[j]
    BY <1>1, <1>4, <1>5, Zenon DEF TypeInv
  <2>2. \A x \in Cells \ {a} : mem'[x] = mem[x]
    BY <1>1, <1>5, Zenon DEF TypeInv
  <2>3. QED
    BY <1>9, <1>13, <2>1, <2>2, Zenon DEF ListMove
<1>15. /\ \A j \in ClassIds : \E s : Chain(j, free_lists'[j], mem', s)
       /\ \A s : s \in ListedSpans(free_lists', mem') <=>
            \/ \E k \in 1 .. Len(t) : s = <<"listed", i, Range0(t[k], Classes[i])>>
            \/ s \in ListedSpans(free_lists, mem) /\ s[2] # i
  BY <1>4, <1>14, ListsMove
<1>16. ASSUME NEW s
       PROVE  s \in ListedSpans(free_lists', mem') <=> s \in ListedSpans(free_lists, mem) \/ s = b
  <2>1. /\ Len(s0) \in Nat /\ Len(t) = Len(s0) + 1 /\ t[Len(s0) + 1] = a
        /\ \A k \in 1 .. Len(s0) : t[k] = s0[k]
    BY <1>10, <1>12, SMTT(60) DEF Chain
  <2>2. (\E k \in 1 .. Len(t) : s = <<"listed", i, Range0(t[k], Classes[i])>>) <=>
           (\E k \in 1 .. Len(s0) : s = <<"listed", i, Range0(s0[k], Classes[i])>>) \/ s = b
    BY <1>6, <2>1, SMTT(60)
  <2>3. (\E k \in 1 .. Len(s0) : s = <<"listed", i, Range0(s0[k], Classes[i])>>) <=>
           (\E y \in Listed(free_lists[i], mem) : s = <<"listed", i, Range0(y, Classes[i])>>)
    BY <1>11, Zenon
  <2>4. s \in ListedSpans(free_lists, mem) <=>
             \E j \in ClassIds : \E y \in Listed(free_lists[j], mem) :
                 s = <<"listed", j, Range0(y, Classes[j])>>
    BY ListedAre, SMTT(60) DEF InLists
  <2>5. (\E y \in Listed(free_lists[i], mem) : s = <<"listed", i, Range0(y, Classes[i])>>) <=>
           s \in ListedSpans(free_lists, mem) /\ s[2] = i
    BY <1>4, <2>4, SMTT(60)
  <2>6. QED
    BY <1>15, <2>2, <2>3, <2>5, Zenon
<1>17. TypeInv'
  <2>1. free_lists' \in [ClassIds -> Cells \cup {None}] /\ mem' \in [Cells -> Links]
    BY <1>1, <1>4, <1>5, <1>8, Zenon DEF TypeInv, Links
  <2>2. QED
    BY <1>1, <1>5, <2>1, Zenon DEF Dealloc, Return, Go, TypeInv, Steps
<1>18. CallInv(c)'
  BY <1>5, Zenon DEF CallInv
<1>19. \A o \in live' : Placed(o[1], o[2])
  BY <1>5, Zenon DEF SlabInv
<1>20. \A s : s \in FreeingSpans(pc', got', req') <=> s \in FreeingSpans(pc, got, req) /\ s # f
  <2>1. f = <<"freeing", c, Range0(got[c], Granted(req[c]))>>
    BY <1>3, <1>4, <1>6, Zenon
  <2>2. QED
    BY <1>2, <1>5, <2>1, FreeingSteps, Zenon
<1>21. \A s : s \in CarvingSpans(pc', got') <=> s \in CarvingSpans(pc, got)
  BY <1>2, <1>5, CarvingSteps, Zenon
<1>22. /\ f \notin ListedSpans(free_lists, mem) /\ f \notin LiveSpans(live)
       /\ f \notin CarvingSpans(pc, got) /\ f \notin PoolSpans(pool)
  BY <1>6, KindOf
<1>23. \A s : s \in Spans' <=> (s \in Spans /\ s # f) \/ s = b
  BY <1>5, <1>16, <1>20, <1>21, <1>22, SpanKinds, SpanKindsPrime, Zenon
<1>24. f \in Spans /\ f[3] = b[3]
  BY <1>6, <1>7, Zenon
<1>26. Partition(Spans')
  BY <1>23, <1>24, PassOn, Zenon
<1>27. QED
  BY <1>5, <1>15, <1>17, <1>18, <1>19, <1>26, MovingStep, Zenon

\* pop takes the head off, and the client has it.
LEMMA UnlinkInv ==
    ASSUME SlabInv, NEW c \in CPUs, Unlink(c)
    PROVE  SlabInv'
<1>1. CallInv(c) /\ TypeInv
  BY CallFacts
<1>2. pc[c] = "unlink"
  BY Zenon DEF Unlink, Go
<1>3. PICK i, a, l, R : /\ l = req[c] /\ i = ClassOf(l) /\ a = got[c]
                        /\ R = Range0(a, Classes[i])
  BY Zenon
<1>4. /\ l \in Layouts /\ i \in ClassIds /\ i # None /\ Granted(l) = Classes[i]
      /\ a = free_lists[i] /\ a # None /\ Classes[i] \in Nat /\ Classes[i] >= 1 /\ slabLock = c
  BY <1>1, <1>2, <1>3, CallFacts, ClassFacts, Zenon DEF CallInv
<1>5. PICK s0 : Chain(i, a, mem, s0)
  BY <1>4, Zenon DEF SlabInv
<1>t. PICK t : Rest(i, a, mem, s0, t)
  BY <1>4, <1>5, PopChain, Zenon
<1>6. /\ Chain(i, mem[a], mem, t) /\ a \in Cells
      /\ \A y : (\E k \in 1 .. Len(t) : y = t[k]) <=> (\E k \in 1 .. Len(s0) : y = s0[k]) /\ y # a
  BY <1>t, Zenon DEF Rest
<1>7. \A y : y \in Listed(free_lists[i], mem) <=> \E k \in 1 .. Len(s0) : y = s0[k]
  BY <1>4, <1>5, ChainListed, SMTT(60)
<1>8. a \in Nat /\ a % Classes[i] = 0 /\ a \in Listed(free_lists[i], mem)
  <2>1. a = s0[Len(s0)] /\ Len(s0) \in Nat /\ Len(s0) # 0
    BY <1>4, <1>5 DEF Chain
  <2>2. Len(s0) \in 1 .. Len(s0)
    BY <2>1
  <2>3. a % Classes[i] = 0
    BY <1>5, <2>1, <2>2, Zenon DEF Chain
  <2>4. QED
    BY <1>6, <1>7, <2>1, <2>2, <2>3, CellFacts, SMTT(60)
<1>9. PICK o : o = <<a, l>>
  BY Zenon
<1>10. o[1] = a /\ o[2] = l /\ o \in Nat \X Layouts
  BY <1>4, <1>8, <1>9, Zenon
<1>11. /\ pc'[c] = "idle" /\ slabLock' = None
       /\ free_lists' = [free_lists EXCEPT ![i] = mem[a]]
       /\ mem' = [x \in Cells |-> IF x \in R THEN Data ELSE mem[x]]
       /\ live' = live \cup {o} /\ pool' = pool
       /\ Others(c)
  BY <1>1, <1>3, <1>4, <1>9, Zenon DEF Unlink, Return, Go, TypeInv, Others
<1>12. PICK f, b : f = <<"listed", i, R>> /\ b = <<"live", o, R>>
  BY Zenon
<1>13. f \in ListedSpans(free_lists, mem) /\ f \in Spans /\ f[3] = R
  <2>1. InLists(free_lists, mem, f)
    BY <1>3, <1>4, <1>8, <1>12, Zenon DEF InLists
  <2>2. QED
    BY <1>12, <2>1, ListedAre, SpanKinds, Zenon
<1>14. ASSUME NEW j \in ClassIds, NEW y \in Listed(free_lists[j], mem), j # i \/ y # a
       PROVE  y \notin R
  <2>1. f # <<"listed", j, Range0(y, Classes[j])>>
    <3>1. CASE j # i
      BY <1>12, <3>1, Zenon
    <3>2. CASE j = i /\ y # a
      <4>1. y \in Int /\ a \in Int
        BY <1>8, CellFacts, Zenon DEF Listed
      <4>2. Range0(y, Classes[i]) # R
        BY <1>3, <1>4, <3>2, <4>1, SpanStart, Zenon
      <4>3. QED
        BY <1>12, <3>2, <4>2, Zenon
    <3>3. QED
      BY <1>14, <3>1, <3>2, Zenon
  <2>2. QED
    BY <1>13, <2>1, ListedApart, Zenon
<1>15. Chain(i, mem[a], mem', t)
  <2>1. ASSUME NEW k \in 1 .. Len(t) PROVE mem'[t[k]] = mem[t[k]]
    <3>1. t[k] # a /\ t[k] \in Listed(free_lists[i], mem)
      BY <1>6, <1>7, Zenon
    <3>2. t[k] \notin R /\ t[k] \in Cells
      BY <1>4, <1>14, <3>1, Zenon DEF Listed
    <3>3. QED
      BY <1>11, <3>2, Zenon
  <2>2. QED
    BY <1>6, <2>1, ChainKeeps, Zenon
<1>16. ListMove(i, R, t)
  <2>1. free_lists'[i] = mem[a] /\ \A j \in ClassIds \ {i} : free_lists'[j] = free_lists[j]
    BY <1>1, <1>4, <1>11, Zenon DEF TypeInv
  <2>2. \A x \in Cells \ R : mem'[x] = mem[x]
    BY <1>11, Zenon
  <2>3. QED
    BY <1>14, <1>15, <2>1, <2>2, Zenon DEF ListMove
<1>17. /\ \A j \in ClassIds : \E s : Chain(j, free_lists'[j], mem', s)
       /\ \A s : s \in ListedSpans(free_lists', mem') <=>
            \/ \E k \in 1 .. Len(t) : s = <<"listed", i, Range0(t[k], Classes[i])>>
            \/ s \in ListedSpans(free_lists, mem) /\ s[2] # i
  BY <1>4, <1>16, ListsMove, SMTT(60)
<1>18. ASSUME NEW s
       PROVE  s \in ListedSpans(free_lists', mem') <=> s \in ListedSpans(free_lists, mem) /\ s # f
  <2>1. s \in ListedSpans(free_lists, mem) <=>
             \E j \in ClassIds : \E y \in Listed(free_lists[j], mem) :
                 s = <<"listed", j, Range0(y, Classes[j])>>
    <3>1. s \in ListedSpans(free_lists, mem) <=> InLists(free_lists, mem, s)
      BY ListedAre, Zenon
    <3>2. QED
      BY <3>1, Zenon DEF InLists
  <2>2. (\E y \in Listed(free_lists[i], mem) : s = <<"listed", i, Range0(y, Classes[i])>>) <=>
           s \in ListedSpans(free_lists, mem) /\ s[2] = i
    BY <1>4, <2>1
  <2>3. \A y : y \in Listed(free_lists[i], mem) => (<<"listed", i, Range0(y, Classes[i])>> = f <=> y = a)
    <3> TAKE y
    <3> SUFFICES ASSUME y \in Listed(free_lists[i], mem)
                 PROVE  <<"listed", i, Range0(y, Classes[i])>> = f <=> y = a
      BY Zenon
    <3>1. y \in Int /\ a \in Int
      BY <1>8, CellFacts, Zenon DEF Listed
    <3>2. Range0(y, Classes[i]) = R <=> y = a
      BY <1>3, <1>4, <3>1, SpanStart, Zenon
    <3>3. QED
      BY <1>12, <3>2, Zenon
  <2>4. (\E k \in 1 .. Len(t) : s = <<"listed", i, Range0(t[k], Classes[i])>>) <=>
        (\E y \in Listed(free_lists[i], mem) : y # a /\ s = <<"listed", i, Range0(y, Classes[i])>>)
    <3>1. \A y : y \in Listed(free_lists[i], mem) /\ y # a <=> \E k \in 1 .. Len(t) : y = t[k]
      BY <1>6, <1>7, Zenon
    <3>2. QED
      BY <3>1, Zenon
  <2>5. (\E y \in Listed(free_lists[i], mem) : y # a /\ s = <<"listed", i, Range0(y, Classes[i])>>)
        <=> (\E y \in Listed(free_lists[i], mem) : s = <<"listed", i, Range0(y, Classes[i])>>) /\ s # f
    BY <2>3, Zenon
  <2>6. f[2] = i
    BY <1>12
  <2>7. QED
    BY <1>17, <2>2, <2>4, <2>5, <2>6, Zenon
<1>19. TypeInv'
  <2>1. mem[a] \in Cells \cup {None}
    <3>1. CASE Len(t) = 0
      BY <1>6, <3>1, Zenon DEF Chain
    <3>2. CASE Len(t) # 0
      <4>1. Len(t) \in Nat /\ mem[a] = t[Len(t)]
        BY <1>6, <3>2 DEF Chain
      <4>2. Len(t) \in 1 .. Len(t)
        BY <3>2, <4>1
      <4>3. t[Len(t)] \in Cells
        BY <1>6, <4>2, ChainFacts, Zenon
      <4>4. QED
        BY <4>1, <4>3, Zenon
    <3>3. QED
      BY <3>1, <3>2, Zenon
  <2>2. free_lists' \in [ClassIds -> Cells \cup {None}] /\ mem' \in [Cells -> Links]
    BY <1>1, <1>4, <1>11, <2>1, Zenon DEF TypeInv, Links
  <2>3. QED
    BY <1>1, <1>10, <1>11, <2>2, Zenon DEF Unlink, Return, Go, TypeInv, Steps
<1>20. CallInv(c)'
  BY <1>11, Zenon DEF CallInv
<1>21. \A u \in live' : Placed(u[1], u[2])
  <2>1. Placed(o[1], o[2])
    BY <1>3, <1>4, <1>8, <1>10, Zenon DEF Placed
  <2>2. QED
    BY <1>11, <2>1, Zenon DEF SlabInv
<1>22. \A s : s \in LiveSpans(live') <=> s \in LiveSpans(live) \/ s = b
  <2>1. \A q : q \in live' <=> q \in live \/ q = o
    BY <1>11, Zenon
  <2>2. b = <<"live", o, Range0(o[1], Granted(o[2]))>>
    BY <1>3, <1>4, <1>10, <1>12, Zenon
  <2>3. QED
    BY <2>1, <2>2, LiveIs
<1>23. /\ \A s : s \in FreeingSpans(pc', got', req') <=> s \in FreeingSpans(pc, got, req)
       /\ \A s : s \in CarvingSpans(pc', got') <=> s \in CarvingSpans(pc, got)
  BY <1>2, <1>11, FreeingSteps, CarvingSteps, Zenon
<1>24. /\ f \notin LiveSpans(live) /\ f \notin PoolSpans(pool)
       /\ f \notin CarvingSpans(pc, got) /\ f \notin FreeingSpans(pc, got, req)
  BY <1>12, KindOf
<1>25. \A s : s \in Spans' <=> (s \in Spans /\ s # f) \/ s = b
  BY <1>11, <1>18, <1>22, <1>23, <1>24, SpanKinds, SpanKindsPrime, Zenon
<1>26. f \in Spans /\ f[3] = b[3]
  BY <1>12, <1>13, Zenon
<1>28. Partition(Spans')
  BY <1>25, <1>26, PassOn
<1>29. QED
  BY <1>4, <1>11, <1>17, <1>19, <1>20, <1>21, <1>28, MovingStep, Zenon

\* refill cuts its page into objects and pushes them all.
LEMMA CarveInv ==
    ASSUME SlabInv, NEW c \in CPUs, Carve(c)
    PROVE  SlabInv'
<1>1. CallInv(c) /\ TypeInv
  BY CallFacts
<1>2. pc[c] = "carve"
  BY Zenon DEF Carve, Go
<1>3. PICK i, p, x, N : /\ i = ClassOf(req[c]) /\ p = got[c] /\ N = ObjectsPerPage(i)
                        /\ x = PushAll(i, p, [head |-> free_lists[i], mem |-> mem])
  BY Zenon
<1>4. /\ i \in ClassIds /\ p \in Pages /\ slabLock = c
      /\ Classes[i] \in Nat /\ Classes[i] >= 1
  BY <1>1, <1>2, <1>3, CallFacts, ClassFacts, Zenon DEF CallInv
<1>5. /\ pc'[c] = "pop" /\ free_lists' = [free_lists EXCEPT ![i] = x.head] /\ mem' = x.mem
      /\ UNCHANGED <<slabLock, pool, live, req>>
      /\ Others(c)
  BY <1>1, <1>3, Zenon DEF Carve, Go, TypeInv, Others
<1>6. PICK f, W : f = <<"carving", c, W>> /\ W = PageCells(p, 1)
  BY Zenon
<1>7. f \in CarvingSpans(pc, got) /\ f \in Spans /\ f[3] = W
  <2>1. f \in CarvingSpans(pc, got)
    BY <1>2, <1>3, <1>6, CarvingIs, Zenon
  <2>2. QED
    BY <1>6, <2>1, SpanKinds, Zenon
<1>8. ASSUME NEW j \in ClassIds, NEW y \in Listed(free_lists[j], mem) PROVE y \notin W
  <2>1. f # <<"listed", j, Range0(y, Classes[j])>>
    BY <1>6, Zenon
  <2>2. QED
    BY <1>7, <2>1, ListedApart, Zenon
<1>9. PICK s0 : Chain(i, free_lists[i], mem, s0)
  BY <1>4, Zenon DEF SlabInv
<1>10. \A y : y \in Listed(free_lists[i], mem) <=> \E k \in 1 .. Len(s0) : y = s0[k]
  BY <1>9, ChainListed
<1>11. Pushed(i, p, s0, mem, N, x)
  <2>1. \A k \in 1 .. Len(s0) : s0[k] \notin PageCells(p, 1)
    BY <1>4, <1>6, <1>8, <1>10, Zenon
  <2>2. mem \in [Cells -> Links]
    BY <1>1 DEF TypeInv
  <2>3. QED
    BY <1>3, <1>4, <1>9, <2>1, <2>2, PushAllChain, Zenon
<1>12. /\ mem' \in [Cells -> Links]
       /\ \A y \in Cells \ W : mem'[y] = mem[y]
  BY <1>5, <1>6, <1>11, Zenon DEF Pushed
<1>13. PICK t : /\ Chain(i, x.head, mem', t)
                /\ \A a : (\E k \in 1 .. Len(t) : a = t[k])
                          <=> \/ \E k \in 1 .. Len(s0) : a = s0[k]
                              \/ \E k \in 0 .. N - 1 : a = ObjectAt(p, i, k)
  BY <1>5, <1>11, Zenon DEF Pushed
<1>14. /\ N \in Nat /\ N >= 1
       /\ \A j, k \in 0 .. N - 1 : j # k =>
             Range0(ObjectAt(p, i, j), Classes[i]) \cap Range0(ObjectAt(p, i, k), Classes[i]) = {}
       /\ \A y : y \in W <=> \E k \in 0 .. N - 1 : y \in Range0(ObjectAt(p, i, k), Classes[i])
  BY <1>3, <1>4, <1>6, ObjectFacts, Zenon
<1>15. x.head \in Cells /\ x.head # None
  <2>1. 0 \in 0 .. N - 1
    BY <1>14
  <2>2. \E k \in 1 .. Len(t) : ObjectAt(p, i, 0) = t[k]
    BY <1>13, <2>1, Zenon
  <2>3. Len(t) \in Nat /\ Len(t) # 0
    BY <1>13, <2>2, ChainFacts, SMTT(60)
  <2>4. x.head = t[Len(t)] /\ Len(t) \in 1 .. Len(t)
    BY <1>13, <2>3 DEF Chain
  <2>5. x.head \in Cells
    BY <1>13, <2>4, ChainFacts, SMTT(60)
  <2>6. QED
    BY <2>5, CellFacts, SlabAssumption, SMTT(60)
<1>16. ListMove(i, W, t)
  <2>1. free_lists'[i] = x.head /\ \A j \in ClassIds \ {i} : free_lists'[j] = free_lists[j]
    BY <1>1, <1>4, <1>5, Zenon DEF TypeInv
  <2>2. QED
    BY <1>8, <1>12, <1>13, <2>1, Zenon DEF ListMove
<1>17. /\ \A j \in ClassIds : \E s : Chain(j, free_lists'[j], mem', s)
       /\ \A s : s \in ListedSpans(free_lists', mem') <=>
            \/ \E k \in 1 .. Len(t) : s = <<"listed", i, Range0(t[k], Classes[i])>>
            \/ s \in ListedSpans(free_lists, mem) /\ s[2] # i
  BY <1>4, <1>16, ListsMove, Zenon
<1> DEFINE A == {f}
           New(k) == <<"listed", i, Range0(ObjectAt(p, i, k), Classes[i])>>
           B == {New(k) : k \in 0 .. N - 1}
<1>18. ASSUME NEW s
       PROVE  s \in ListedSpans(free_lists', mem') <=> s \in ListedSpans(free_lists, mem) \/ s \in B
  <2>1. s \in ListedSpans(free_lists, mem) <=>
             \E j \in ClassIds : \E y \in Listed(free_lists[j], mem) :
                 s = <<"listed", j, Range0(y, Classes[j])>>
    <3>1. s \in ListedSpans(free_lists, mem) <=> InLists(free_lists, mem, s)
      BY ListedAre
    <3>2. QED
      BY <3>1, Zenon DEF InLists
  <2>2. (\E y \in Listed(free_lists[i], mem) : s = <<"listed", i, Range0(y, Classes[i])>>) <=>
           s \in ListedSpans(free_lists, mem) /\ s[2] = i
    BY <1>4, <2>1
  <2>3. \A y : (\E k \in 1 .. Len(t) : y = t[k]) <=>
               y \in Listed(free_lists[i], mem) \/ \E k \in 0 .. N - 1 : y = ObjectAt(p, i, k)
    BY <1>10, <1>13, Zenon
  <2>4. (\E k \in 1 .. Len(t) : s = <<"listed", i, Range0(t[k], Classes[i])>>) <=>
           \/ \E y \in Listed(free_lists[i], mem) : s = <<"listed", i, Range0(y, Classes[i])>>
           \/ \E k \in 0 .. N - 1 : s = New(k)
    BY <2>3, Zenon
  <2>5. QED
    BY <1>17, <2>2, <2>4, Zenon
<1>19. TypeInv'
  <2>1. free_lists' \in [ClassIds -> Cells \cup {None}]
    BY <1>1, <1>4, <1>5, <1>15, Zenon DEF TypeInv
  <2>2. QED
    BY <1>1, <1>5, <1>12, <2>1, Zenon DEF Carve, Go, TypeInv, Steps
<1>20. CallInv(c)'
  <2>1. free_lists'[i] # None
    BY <1>1, <1>4, <1>5, <1>15, Zenon DEF TypeInv
  <2>2. ClassOf(req[c]) # None /\ req[c] \in Layouts
    BY <1>1, <1>2, Zenon DEF CallInv
  <2>3. QED
    BY <1>3, <1>4, <1>5, <2>1, <2>2, Zenon DEF CallInv
<1>21. \A o \in live' : Placed(o[1], o[2])
  BY <1>5, Zenon DEF SlabInv
<1>22. \A s : s \in FreeingSpans(pc', got', req') <=> s \in FreeingSpans(pc, got, req)
  BY <1>2, <1>5, FreeingSteps, Zenon
<1>23. \A s : s \in CarvingSpans(pc', got') <=> s \in CarvingSpans(pc, got) /\ s # f
  BY <1>2, <1>3, <1>5, <1>6, CarvingSteps, Zenon
<1>24. /\ f \notin ListedSpans(free_lists, mem) /\ f \notin LiveSpans(live)
       /\ f \notin FreeingSpans(pc, got, req) /\ f \notin PoolSpans(pool)
  BY <1>6, KindOf
<1>25. \A s, t1 \in B : s # t1 => s[3] \cap t1[3] = {}
  <2> SUFFICES ASSUME NEW j \in 0 .. N - 1, NEW k \in 0 .. N - 1, New(j) # New(k)
               PROVE  New(j)[3] \cap New(k)[3] = {}
    BY Zenon
  <2>1. j # k
    BY Zenon
  <2>2. QED
    BY <1>14, <2>1, Zenon
<1>26. \A y : (\E s \in A : y \in s[3]) <=> (\E s \in B : y \in s[3])
  <2>1. \A y : (\E s \in B : y \in s[3]) <=> \E k \in 0 .. N - 1 : y \in New(k)[3]
    BY Zenon
  <2>2. \A k : New(k)[3] = Range0(ObjectAt(p, i, k), Classes[i])
    BY Zenon
  <2>3. QED
    BY <1>7, <1>14, <2>1, <2>2, Zenon
<1> HIDE DEF B, New
<1>27. \A s : s \in Spans' <=> (s \in Spans /\ s \notin A) \/ s \in B
  BY <1>5, <1>18, <1>22, <1>23, <1>24, SpanKinds, SpanKindsPrime, Zenon
<1>28. \A s \in A : s \in Spans
  BY <1>7, Zenon
<1>29. Recuts(A, B)
  BY <1>25, <1>26, <1>27, <1>28, Zenon DEF Recuts
<1> HIDE DEF A
<1>30. Partition(Spans')
  BY <1>29, Recut, Zenon
<1>31. QED
  BY <1>4, <1>5, <1>17, <1>19, <1>20, <1>21, <1>30, MovingStep, Zenon

\* kmain installs the page allocator, or nothing happens.
LEMMA StutterInv ==
    ASSUME SlabInv,
           UNCHANGED <<pool, slabLock, free_lists, mem, live, pc, req, got>>
    PROVE  SlabInv'
<1>1. TypeInv'
  BY Zenon DEF SlabInv, TypeInv
<1>2. ASSUME NEW d \in CPUs PROVE CallInv(d)'
  <2>1. CallInv(d)
    BY CallFacts, Zenon
  <2>2. QED
    BY <2>1, OthersKeep, Zenon
<1>3. /\ Partition(Spans')
      /\ \A o \in live' : Placed(o[1], o[2])
      /\ \A i \in ClassIds : \E s : Chain(i, free_lists'[i], mem', s)
  BY QuietSpans, Zenon
<1>4. QED
  BY <1>1, <1>2, <1>3, Zenon DEF SlabInv

\* Every step of the heap keeps its invariant.
LEMMA NextSlabInv == SlabInv /\ [Next]_vars => SlabInv'
<1> SUFFICES ASSUME SlabInv, [Next]_vars PROVE SlabInv'
  OBVIOUS
<1>1. CASE UNCHANGED vars
  BY <1>1, StutterInv, Zenon DEF vars
<1>2. CASE BuddyUp
  BY <1>2, StutterInv, Zenon DEF BuddyUp
<1>3. ASSUME NEW c \in CPUs, Run(c) PROVE SlabInv'
  <2>1. CASE LockSlab(c)
    BY <2>1, LockSlabInv, Zenon
  <2>2. CASE LockBuddy(c)
    BY <2>2, LockBuddyInv
  <2>3. CASE RefillFails(c)
    BY <2>3, RefillFailsInv
  <2>4. CASE Carve(c)
    BY <2>4, CarveInv
  <2>5. CASE Pop(c)
    BY <2>5, PopInv
  <2>6. CASE Unlink(c)
    BY <2>6, UnlinkInv
  <2>7. CASE LargeFails(c)
    BY <2>7, LargeFailsInv
  <2>8. CASE Dealloc(c)
    BY <2>8, DeallocInv
  <2>9. CASE PutRun(c)
    BY <2>9, PutRunInv
  <2>10. ASSUME NEW p \in Pages, TakePage(c, p) PROVE SlabInv'
    BY <2>10, TakePageInv, Zenon
  <2>11. ASSUME NEW p \in Pages, TakeRun(c, p) PROVE SlabInv'
    BY <2>11, TakeRunInv
  <2>12. QED
    BY <1>3, <2>1, <2>2, <2>3, <2>4, <2>5, <2>6, <2>7, <2>8, <2>9, <2>10, <2>11, Zenon DEF Run
<1>4. ASSUME NEW c \in CPUs, NEW l \in Layouts, AllocCall(c, l) PROVE SlabInv'
  BY <1>4, AllocCallInv, Zenon
<1>5. ASSUME NEW c \in CPUs, NEW o \in live, DeallocCall(c, o) PROVE SlabInv'
  BY <1>5, DeallocCallInv, Zenon
<1>6. QED
  BY <1>1, <1>2, <1>3, <1>4, <1>5, Zenon DEF Next

-----------------------------------------------------------------------------
(* The theorems.                                                           *)

\* The lists stay chains, the spans a partition of memory.
THEOREM SlabInvariance == Spec => []SlabInv
<1>1. Init => SlabInv
  BY InitSlabInv
<1>2. SlabInv /\ [Next]_vars => SlabInv'
  BY NextSlabInv
<1>3. QED
  BY <1>1, <1>2, PTL DEF Spec

\* No cell is ever in two hands.
THEOREM CellsAreHeldOnce == Spec => []NoOverlap
<1>1. SlabInv => NoOverlap
  BY Zenon DEF SlabInv, Partition, NoOverlap
<1>2. QED
  BY <1>1, SlabInvariance, PTL

\* No cell is ever lost, and every list ends.
THEOREM CellsAreKept == Spec => []NothingLost
<1>1. ASSUME SlabInv PROVE NothingLost
  <2>1. ASSUME NEW i \in ClassIds PROVE Follow(free_lists[i], mem)[NPages * PageSize] = None
    <3>1. PICK s : Chain(i, free_lists[i], mem, s)
      BY <1>1, Zenon DEF SlabInv
    <3>2. QED
      BY <3>1, ChainListed
  <2>2. ListsIntact
    BY <2>1, Zenon DEF ListsIntact, ClassIds
  <2>3. \A x : x \in Cells <=> \E s \in Spans : x \in s[3]
    BY <1>1, Zenon DEF SlabInv, Partition
  <2>4. UNION {s[3] : s \in Spans} = Cells
    BY <2>3, Zenon
  <2>5. QED
    BY <2>2, <2>4, Zenon DEF NothingLost
<1>2. QED
  BY <1>1, SlabInvariance, PTL

\* Every object is as large and as aligned as its layout asks.
THEOREM LayoutsAreHonoured == Spec => []FitsLayout
<1>1. ASSUME SlabInv, NEW o \in live PROVE o[1] % o[2][2] = 0 /\ Granted(o[2]) >= o[2][1]
  <2>1. PICK a, l : a = o[1] /\ l = o[2]
    OBVIOUS
  <2>2. Placed(a, l) /\ a \in Nat /\ l \in Layouts
    BY <1>1, <2>1, Zenon DEF SlabInv, Placed
  <2>3. l[1] \in Nat /\ l[2] \in Nat /\ l[2] >= 1
    BY <2>2, LayoutFacts, Zenon
  <2>4. CASE ClassOf(l) # None
    <3>1. /\ ClassOf(l) \in ClassIds /\ Granted(l) >= l[1]
          /\ Classes[ClassOf(l)] % l[2] = 0 /\ a % Classes[ClassOf(l)] = 0
      BY <2>2, <2>4, ClassFits, Zenon DEF Placed
    <3>2. Classes[ClassOf(l)] \in Nat /\ Classes[ClassOf(l)] >= 1
      BY <3>1, ClassFacts, Zenon
    <3>3. a % l[2] = 0
      BY <2>2, <2>3, <3>1, <3>2, AlignedToDivisor, Zenon
    <3>4. QED
      BY <2>1, <3>1, <3>3, Zenon
  <2>5. CASE ClassOf(l) = None
    <3>1. /\ \E x \in Blocks : x * PageSize >= l[1]
          /\ \E p \in Nat : a = p * PageSize
      BY <2>2, <2>5, Zenon DEF Placed
    <3>2. Granted(l) >= l[1]
      BY <2>2, <2>5, <3>1, PagesFit, Zenon DEF Granted
    <3>3. PICK p \in Nat : a = p * PageSize
      BY <3>1, Zenon
    <3>4. PageSize \in Nat /\ PageSize >= 1 /\ a = PageSize * p /\ p \in Int /\ PageSize % l[2] = 0
      BY <2>2, <3>3, SlabAssumption
    <3>5. a % PageSize = 0
      BY <3>4, Multiple, Zenon
    <3>6. a % l[2] = 0
      BY <2>2, <2>3, <3>4, <3>5, AlignedToDivisor
    <3>7. QED
      BY <2>1, <3>2, <3>6, Zenon
  <2>6. QED
    BY <2>4, <2>5, Zenon
<1>2. SlabInv => FitsLayout
  BY <1>1, Zenon DEF FitsLayout
<1>3. QED
  BY <1>2, SlabInvariance, PTL
=============================================================================
