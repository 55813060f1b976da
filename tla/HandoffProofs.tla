--------------------------- MODULE HandoffProofs ---------------------------
(***************************************************************************)
(* Proofs about BootMem and Handoff.  For every number of regions and      *)
(* reservations, the two loops of for_each_free compute exactly the frames *)
(* of usable memory that no reservation holds, in regions that do not      *)
(* overlap, and alloc takes the highest run of them that fits.  Then, from *)
(* the device tree to the page allocator, what kmain hands over.           *)
(***************************************************************************)
EXTENDS Handoff, NatLemmas, SequenceTheorems

-----------------------------------------------------------------------------
(* BootMem.                                                                *)

\* What add_memory and reserve are given: at least one frame.
Regions == [base : Nat, frames : Nat \ {0}]

\* The order in which reserve keeps its list.
Sorted(res) == \A i, j \in 1 .. Len(res) : i < j => res[i].base <= res[j].base

\* Regions of a list that share no frame.
Disjoint(s) ==
    \A i, j \in 1 .. Len(s) : i # j => FramesOf(s[i]) \cap FramesOf(s[j]) = {}

\* A non-empty set of integers with an upper bound has a maximum.
LEMMA MaxOf ==
    ASSUME NEW S, S \subseteq Int, NEW b \in Int, S # {}, \A x \in S : x <= b
    PROVE  Max(S) \in S /\ \A x \in S : x <= Max(S)
<1> DEFINE T == {b - x : x \in S}
<1>1. T \subseteq Nat /\ T # {}
  <2>1. \A x \in S : b - x \in Nat
    OBVIOUS
  <2>2. T \subseteq Nat
    BY <2>1
  <2>3. T # {}
    BY Zenon
  <2>4. QED
    BY <2>2, <2>3
<1> HIDE DEF T
<1>2. PICK m \in T : \A n \in T : m <= n
  BY <1>1, LeastElement, Zenon
<1>3. PICK x \in S : m = b - x
  BY <1>2 DEF T
<1>4. \A y \in S : x >= y
  <2> TAKE y \in S
  <2>1. b - y \in T
    BY DEF T
  <2>2. x \in Int /\ y \in Int /\ b - x <= b - y
    BY <1>2, <1>3, <2>1
  <2>3. QED
    BY <2>2
<1>5. /\ Max(S) \in S
      /\ \A y \in S : Max(S) >= y
  BY <1>3, <1>4, Zenon DEF Max
<1>6. QED
  BY <1>5

\* A non-empty set of naturals has a minimum.
LEMMA MinOf ==
    ASSUME NEW S, S \subseteq Nat, S # {}
    PROVE  Min(S) \in S /\ \A x \in S : Min(S) <= x
<1>1. PICK m \in S : \A n \in S : m <= n
  BY LeastElement, Zenon
<1>2. QED
  BY <1>1, Zenon DEF Min

\* reserve's insertion shifts the regions with a larger base up by one and
\* puts the new one below them.
LEMMA InsertShifts ==
    ASSUME NEW res \in Seq(Regions), NEW r \in Regions, Sorted(res)
    PROVE  \E p \in 0 .. Len(res) :
             /\ Insert(res, r) \in Seq(Regions)
             /\ Len(Insert(res, r)) = Len(res) + 1
             /\ \A i \in 1 .. Len(res) + 1 :
                   Insert(res, r)[i] = IF i <= p THEN res[i]
                                       ELSE IF i = p + 1 THEN r ELSE res[i - 1]
             /\ \A i \in 1 .. Len(res) : res[i].base <= r.base <=> i <= p
<1> DEFINE I == {i \in 1 .. Len(res) : res[i].base <= r.base}
<1>1. PICK p : p = IF I = {} THEN 0 ELSE Max(I)
  BY Zenon
<1>2. p = IF I # {} THEN Max(I) ELSE 0
  BY <1>1
<1>3. \A i \in 1 .. Len(res) : res[i] \in Regions /\ res[i].base \in Nat /\ r.base \in Nat
  <2>1. \A i \in 1 .. Len(res) : res[i] \in Regions
    BY ElementOfSeq
  <2>2. \A x \in Regions : x.base \in Nat
    BY DEF Regions
  <2>3. QED
    BY <2>1, <2>2
<1>4. p \in 0 .. Len(res) /\ \A i \in 1 .. Len(res) : res[i].base <= r.base <=> i <= p
  <2>1. CASE I = {}
    BY <1>2, <2>1
  <2>2. CASE I # {}
    <3>1. I \subseteq Int /\ Len(res) \in Int /\ \A x \in I : x <= Len(res)
      OBVIOUS
    <3>2. Max(I) \in I /\ \A x \in I : x <= Max(I)
      BY <3>1, <2>2, MaxOf, Zenon
    <3>3. p \in I /\ \A x \in I : x <= p
      BY <3>2, <2>2, <1>2
    <3>4. ASSUME NEW i \in 1 .. Len(res), i <= p PROVE res[i].base <= r.base
      <4>1. res[i].base <= res[p].base
        BY <3>3, <3>4, <1>3 DEF Sorted
      <4>2. QED
        BY <4>1, <3>3, <1>3
    <3>5. QED
      BY <3>3, <3>4
  <2>3. QED
    BY <2>1, <2>2
<1>5. Insert(res, r) = SubSeq(res, 1, p) \o <<r>> \o SubSeq(res, p + 1, Len(res))
  BY <1>1, Zenon DEF Insert
<1>6. PICK a : a = SubSeq(res, 1, p)
  BY Zenon
<1>7. PICK c : c = SubSeq(res, p + 1, Len(res))
  BY Zenon
<1>8. a \in Seq(Regions) /\ Len(a) = p /\ \A i \in 1 .. p : a[i] = res[i]
  BY <1>4, <1>6
<1>9. /\ c \in Seq(Regions) /\ Len(c) = Len(res) - p
      /\ \A i \in 1 .. Len(res) - p : c[i] = res[p + i]
  BY <1>4, <1>7
<1>10. PICK d : d = <<r>> /\ d \in Seq(Regions) /\ Len(d) = 1 /\ d[1] = r
  <2>1. <<r>> \in Seq(Regions)
    OBVIOUS
  <2>2. Len(<<r>>) = 1 /\ <<r>>[1] = r
    OBVIOUS
  <2>3. QED
    BY <2>1, <2>2, Zenon
<1>11. PICK t : t = a \o d /\ t \in Seq(Regions) /\ Len(t) = p + 1
             /\ \A i \in 1 .. p + 1 : t[i] = IF i <= p THEN res[i] ELSE r
  <2>1. /\ a \o d \in Seq(Regions) /\ Len(a \o d) = p + 1
        /\ \A i \in 1 .. p + 1 : (a \o d)[i] = IF i <= p THEN a[i] ELSE d[i - p]
    BY <1>8, <1>10, ConcatProperties
  <2>2. \A i \in 1 .. p + 1 : (a \o d)[i] = IF i <= p THEN res[i] ELSE r
    BY <1>4, <1>8, <1>10, <2>1
  <2>3. QED
    BY <2>1, <2>2, Zenon
<1>12. Insert(res, r) = t \o c
  BY <1>5, <1>6, <1>7, <1>10, <1>11
<1>13. PICK u : /\ u = t \o c /\ u \in Seq(Regions) /\ Len(u) = Len(res) + 1
                /\ \A i \in 1 .. Len(res) + 1 : u[i] = IF i <= p + 1 THEN t[i]
                                                       ELSE c[i - (p + 1)]
  <2>1. Len(t) + Len(c) = Len(res) + 1
    BY <1>4, <1>9, <1>11
  <2>2. /\ t \o c \in Seq(Regions) /\ Len(t \o c) = Len(t) + Len(c)
        /\ \A i \in 1 .. Len(t) + Len(c) : (t \o c)[i] = IF i <= Len(t) THEN t[i]
                                                      ELSE c[i - Len(t)]
    <3>1. t \in Seq(Regions) /\ c \in Seq(Regions)
      BY <1>9, <1>11
    <3>2. QED
      BY <3>1, ConcatProperties, Zenon
  <2>3. QED
    BY <2>1, <2>2, <1>11, ZenonT(60)
<1>14. ASSUME NEW i \in 1 .. Len(res) + 1
       PROVE  u[i] = IF i <= p THEN res[i] ELSE IF i = p + 1 THEN r ELSE res[i - 1]
  <2>1. CASE i <= p + 1
    BY <2>1, <1>4, <1>11, <1>13
  <2>2. CASE i > p + 1
    <3>1. u[i] = c[i - (p + 1)] /\ i - (p + 1) \in 1 .. Len(res) - p
      BY <2>2, <1>4, <1>13
    <3>2. p + (i - (p + 1)) = i - 1
      BY <1>4
    <3>3. c[i - (p + 1)] = res[i - 1]
      BY <3>1, <3>2, <1>9
    <3>4. QED
      BY <2>2, <3>1, <3>3, <1>4
  <2>3. QED
    BY <2>1, <2>2, <1>4
<1>15. QED
  BY <1>4, <1>12, <1>13, <1>14, Zenon

\* A region is an interval of frames that is not empty.
LEMMA RegionFacts ==
    ASSUME NEW r \in Regions
    PROVE  /\ r.base \in Nat /\ r.frames \in Nat /\ r.frames >= 1 /\ End(r) \in Nat
           /\ r.base < End(r) /\ End(r) = r.base + r.frames
           /\ \A f : f \in FramesOf(r) <=> f \in Int /\ r.base <= f /\ f < End(r)
<1>1. r.base \in Nat /\ r.frames \in Nat /\ r.frames >= 1
  BY DEF Regions
<1>2. End(r) \in Nat /\ r.base < End(r) /\ End(r) = r.base + r.frames
  BY <1>1 DEF End
<1>3. QED
  BY <1>1, <1>2 DEF FramesOf

\* The interval from a to b, as the code builds it.
LEMMA RegionBetween ==
    ASSUME NEW a \in Nat, NEW b \in Nat, a < b
    PROVE  /\ Region(a, b - a) \in Regions
           /\ Region(a, b - a).base = a /\ End(Region(a, b - a)) = b
           /\ \A f : f \in FramesOf(Region(a, b - a)) <=> f \in Int /\ a <= f /\ f < b
<1>1. b - a \in Nat \ {0} /\ a + (b - a) = b
  OBVIOUS
<1>2. Region(a, b - a) \in Regions
  BY <1>1 DEF Region, Regions
<1>3. Region(a, b - a).base = a /\ End(Region(a, b - a)) = b
  BY <1>1 DEF Region, End
<1>4. QED
  BY <1>2, <1>3, RegionFacts

\* The frames of a list are those of its regions.
LEMMA FrameOfList ==
    ASSUME NEW s
    PROVE  \A f : f \in AllFrames(s) <=> \E i \in 1 .. Len(s) : f \in FramesOf(s[i])
BY Zenon DEF AllFrames

\* A list and one more region: its frames, and when they stay apart.
LEMMA AppendRegion ==
    ASSUME NEW s \in Seq(Regions), NEW r \in Regions
    PROVE  /\ Append(s, r) \in Seq(Regions) /\ Len(Append(s, r)) = Len(s) + 1
           /\ \A i \in 1 .. Len(s) : Append(s, r)[i] = s[i]
           /\ Append(s, r)[Len(s) + 1] = r
           /\ AllFrames(Append(s, r)) = AllFrames(s) \cup FramesOf(r)
           /\ Disjoint(s) /\ AllFrames(s) \cap FramesOf(r) = {} => Disjoint(Append(s, r))
<1>1. PICK t : t = Append(s, r)
  BY Zenon
<1>2. /\ t \in Seq(Regions) /\ Len(t) = Len(s) + 1 /\ Len(s) \in Nat
      /\ \A i \in 1 .. Len(s) : t[i] = s[i]
      /\ t[Len(s) + 1] = r
  BY <1>1, AppendProperties
<1>3. \A i : i \in 1 .. Len(t) <=> i \in 1 .. Len(s) \/ i = Len(s) + 1
  BY <1>2
<1>4. AllFrames(t) = AllFrames(s) \cup FramesOf(r)
  <2>1. ASSUME NEW f, f \in AllFrames(t) PROVE f \in AllFrames(s) \/ f \in FramesOf(r)
    <3>1. PICK i \in 1 .. Len(t) : f \in FramesOf(t[i])
      BY <2>1, FrameOfList
    <3>2. QED
      BY <3>1, <1>2, <1>3, FrameOfList, Zenon
  <2>2. ASSUME NEW f, f \in AllFrames(s) \/ f \in FramesOf(r) PROVE f \in AllFrames(t)
    BY <2>2, <1>2, <1>3, FrameOfList, Zenon
  <2>3. QED
    BY <2>1, <2>2
<1>5. ASSUME Disjoint(s), AllFrames(s) \cap FramesOf(r) = {} PROVE Disjoint(t)
  <2> SUFFICES ASSUME NEW i \in 1 .. Len(t), NEW j \in 1 .. Len(t), i # j,
                      NEW f, f \in FramesOf(t[i]), f \in FramesOf(t[j])
               PROVE  FALSE
    BY Zenon DEF Disjoint
  <2>1. CASE i \in 1 .. Len(s) /\ j \in 1 .. Len(s)
    BY <2>1, <1>2, <1>5, Zenon DEF Disjoint
  <2>2. CASE i = Len(s) + 1
    <3>1. j \in 1 .. Len(s) /\ f \in FramesOf(r) /\ f \in FramesOf(s[j])
      BY <2>2, <1>2, <1>3
    <3>2. QED
      BY <3>1, <1>5, FrameOfList
  <2>3. CASE j = Len(s) + 1
    <3>1. i \in 1 .. Len(s) /\ f \in FramesOf(r) /\ f \in FramesOf(s[i])
      BY <2>3, <1>2, <1>3
    <3>2. QED
      BY <3>1, <1>5, FrameOfList
  <2>4. QED
    BY <2>1, <2>2, <2>3, <1>3
<1>6. QED
  BY <1>1, <1>2, <1>4, <1>5

\* reserve keeps the list sorted and adds the frames of the new region.
LEMMA InsertReserves ==
    ASSUME NEW res \in Seq(Regions), NEW r \in Regions, Sorted(res)
    PROVE  /\ Insert(res, r) \in Seq(Regions) /\ Sorted(Insert(res, r))
           /\ Len(Insert(res, r)) = Len(res) + 1
           /\ AllFrames(Insert(res, r)) = AllFrames(res) \cup FramesOf(r)
<1>1. PICK t : t = Insert(res, r)
  OBVIOUS
<1>2. PICK p \in 0 .. Len(res) :
             /\ t \in Seq(Regions) /\ Len(t) = Len(res) + 1
             /\ \A i \in 1 .. Len(res) + 1 :
                   t[i] = IF i <= p THEN res[i] ELSE IF i = p + 1 THEN r ELSE res[i - 1]
             /\ \A i \in 1 .. Len(res) : res[i].base <= r.base <=> i <= p
  BY <1>1, InsertShifts, ZenonT(60)
<1>3. Len(res) \in Nat /\ r.base \in Nat /\ \A i \in 1 .. Len(res) : res[i].base \in Nat
  <2>1. \A i \in 1 .. Len(res) : res[i] \in Regions
    BY ElementOfSeq
  <2>2. QED
    BY <2>1, RegionFacts
<1>4. Sorted(t)
  <2> SUFFICES ASSUME NEW i \in 1 .. Len(res) + 1, NEW j \in 1 .. Len(res) + 1, i < j
               PROVE  t[i].base <= t[j].base
    BY <1>2 DEF Sorted
  <2>1. CASE j <= p
    <3>1. t[i] = res[i] /\ t[j] = res[j] /\ i \in 1 .. Len(res) /\ j \in 1 .. Len(res)
      BY <2>1, <1>2, <1>3
    <3>2. QED
      BY <3>1 DEF Sorted
  <2>2. CASE j = p + 1
    <3>1. t[i] = res[i] /\ t[j] = r /\ i \in 1 .. Len(res) /\ i <= p
      BY <2>2, <1>2, <1>3
    <3>2. QED
      BY <3>1, <1>2
  <2>3. CASE j > p + 1
    <3>1. t[j] = res[j - 1] /\ j - 1 \in 1 .. Len(res) /\ ~(j - 1 <= p)
      BY <2>3, <1>2, <1>3
    <3>2. r.base <= t[j].base
      BY <3>1, <1>2, <1>3
    <3>3. CASE i <= p
      <4>1. t[i] = res[i] /\ i \in 1 .. Len(res) /\ i < j - 1
        BY <2>3, <3>3, <1>2, <1>3
      <4>2. QED
        BY <4>1, <3>1 DEF Sorted
    <3>4. CASE i = p + 1
      BY <3>4, <3>2, <1>2
    <3>5. CASE i > p + 1
      <4>1. t[i] = res[i - 1] /\ i - 1 \in 1 .. Len(res) /\ i - 1 < j - 1
        BY <3>5, <1>2, <1>3
      <4>2. QED
        BY <4>1, <3>1 DEF Sorted
    <3>6. QED
      BY <3>3, <3>4, <3>5, <1>2
  <2>4. QED
    BY <2>1, <2>2, <2>3, <1>2
<1>5. ASSUME NEW f, f \in AllFrames(t) PROVE f \in AllFrames(res) \/ f \in FramesOf(r)
  <2>1. PICK i \in 1 .. Len(res) + 1 : f \in FramesOf(t[i])
    BY <1>2, <1>5, FrameOfList
  <2>2. t[i] = r \/ \E j \in 1 .. Len(res) : t[i] = res[j]
    <3>1. CASE i <= p
      BY <3>1, <1>2, <1>3
    <3>2. CASE i > p + 1
      <4>1. t[i] = res[i - 1] /\ i - 1 \in 1 .. Len(res)
        BY <3>2, <1>2, <1>3
      <4>2. QED
        BY <4>1
    <3>3. QED
      BY <3>1, <3>2, <1>2
  <2>3. QED
    BY <2>1, <2>2, FrameOfList, Zenon
<1>6. ASSUME NEW f, f \in AllFrames(res) \/ f \in FramesOf(r) PROVE f \in AllFrames(t)
  <2>1. CASE f \in FramesOf(r)
    <3>1. t[p + 1] = r /\ p + 1 \in 1 .. Len(t)
      BY <1>2, <1>3
    <3>2. QED
      BY <2>1, <3>1, FrameOfList
  <2>2. CASE f \in AllFrames(res)
    <3>1. PICK i \in 1 .. Len(res) : f \in FramesOf(res[i])
      BY <2>2, FrameOfList
    <3>2. \E j \in 1 .. Len(t) : t[j] = res[i]
      <4>1. CASE i <= p
        <5>1. t[i] = res[i] /\ i \in 1 .. Len(t)
          BY <4>1, <1>2, <1>3
        <5>2. QED
          BY <5>1
      <4>2. CASE i > p
        <5>1. PICK j : j = i + 1 /\ j \in 1 .. Len(res) + 1 /\ ~(j <= p) /\ j # p + 1 /\ j - 1 = i
          BY <4>2, <1>2, <1>3
        <5>2. t[j] = res[i]
          BY <5>1, <1>2
        <5>3. QED
          BY <5>1, <5>2, <1>2
      <4>3. QED
        BY <4>1, <4>2, <1>2
    <3>3. QED
      BY <3>1, <3>2, FrameOfList, Zenon
  <2>3. QED
    BY <1>6, <2>1, <2>2
<1>7. AllFrames(t) = AllFrames(res) \cup FramesOf(r)
  BY <1>5, <1>6
<1>8. QED
  BY <1>1, <1>2, <1>4, <1>7

\* What for_each_free's inner loop knows once the cursor has passed the first n
\* reserved regions: the gaps so far are the free frames of m below the cursor;
\* each ends where a reserved region starts, so lies below all later ones; and
\* no region passed that starts in m reaches beyond the cursor.
PassInv(m, res, n, acc) ==
    /\ acc \in [cursor : Nat, holes : Seq(Regions)]
    /\ m.base <= acc.cursor
    /\ \A f : f \in AllFrames(acc.holes) <=>
                 /\ f \in FramesOf(m) /\ f < acc.cursor
                 /\ \A i \in 1 .. n : f \notin FramesOf(res[i])
    /\ Disjoint(acc.holes)
    /\ \A j \in 1 .. Len(acc.holes) : \E i \in 1 .. n : End(acc.holes[j]) = res[i].base
    /\ \A i \in 1 .. n : res[i].base < End(m) => End(res[i]) <= acc.cursor

\* One step of the inner loop.
LEMMA PassStep ==
    ASSUME NEW m \in Regions, NEW res \in Seq(Regions), Sorted(res),
           NEW n \in 0 .. Len(res) - 1, NEW acc, PassInv(m, res, n, acc)
    PROVE  PassInv(m, res, n + 1, Pass(m, acc, res[n + 1]))
<1>1. PICK r : r = res[n + 1]
  OBVIOUS
<1>2. PICK c, h : c = acc.cursor /\ h = acc.holes
  OBVIOUS
<1>3. /\ r \in Regions /\ n \in Nat /\ n + 1 \in 1 .. Len(res)
      /\ \A i \in 1 .. n : i \in 1 .. Len(res) /\ res[i] \in Regions
      /\ \A i : i \in 1 .. n + 1 <=> i \in 1 .. n \/ i = n + 1
  <2>1. Len(res) \in Nat
    OBVIOUS
  <2>2. /\ n \in Nat /\ n + 1 \in 1 .. Len(res) /\ \A i \in 1 .. n : i \in 1 .. Len(res)
        /\ \A i : i \in 1 .. n + 1 <=> i \in 1 .. n \/ i = n + 1
    BY <2>1
  <2>3. QED
    BY <2>2, <1>1, ElementOfSeq
<1>4. /\ r.base \in Nat /\ End(r) \in Nat /\ r.base < End(r)
      /\ \A f : f \in FramesOf(r) <=> f \in Int /\ r.base <= f /\ f < End(r)
      /\ m.base \in Nat /\ End(m) \in Nat
      /\ \A f : f \in FramesOf(m) <=> f \in Int /\ m.base <= f /\ f < End(m)
  BY <1>3, RegionFacts, Zenon
<1>5. \A i \in 1 .. n :
        /\ res[i].base \in Nat /\ End(res[i]) \in Nat /\ res[i].base <= r.base
        /\ \A f : f \in FramesOf(res[i]) <=> f \in Int /\ res[i].base <= f /\ f < End(res[i])
  <2> TAKE i \in 1 .. n
  <2>1. res[i].base <= r.base
    BY <1>1, <1>3 DEF Sorted
  <2>2. QED
    BY <2>1, <1>3, RegionFacts, Zenon
<1>6. /\ c \in Nat /\ h \in Seq(Regions) /\ Len(h) \in Nat /\ m.base <= c
      /\ \A f : f \in AllFrames(h) <=>
                   /\ f \in FramesOf(m) /\ f < c
                   /\ \A i \in 1 .. n : f \notin FramesOf(res[i])
      /\ Disjoint(h)
      /\ \A j \in 1 .. Len(h) : \E i \in 1 .. n : End(h[j]) = res[i].base
      /\ \A i \in 1 .. n : res[i].base < End(m) => End(res[i]) <= c
  BY <1>2 DEF PassInv
<1>7. ASSUME NEW f, f \in AllFrames(h) PROVE f \in Int /\ f < r.base
  <2>1. PICK j \in 1 .. Len(h) : f \in FramesOf(h[j])
    BY <1>7, FrameOfList
  <2>2. h[j] \in Regions
    BY <1>6, ElementOfSeq
  <2>3. f \in Int /\ f < End(h[j]) /\ End(h[j]) \in Nat
    BY <2>1, <2>2, RegionFacts, Zenon
  <2>4. PICK i \in 1 .. n : End(h[j]) = res[i].base
    BY <1>6
  <2>5. res[i].base <= r.base /\ res[i].base \in Nat
    BY <1>5
  <2>6. QED
    BY <2>3, <2>4, <2>5, <1>4, SMTT(60)
<1>8. CASE End(r) <= c \/ r.base >= End(m)
  <2>1. Pass(m, acc, r) = acc
    BY <1>8, <1>2 DEF Pass
  <2>2. ASSUME NEW f
        PROVE  f \in AllFrames(h) <=>
                 /\ f \in FramesOf(m) /\ f < c
                 /\ \A i \in 1 .. n + 1 : f \notin FramesOf(res[i])
    <3>1. ASSUME f \in AllFrames(h) PROVE f \notin FramesOf(r)
      BY <3>1, <1>7, <1>4
    <3>2. QED
      BY <3>1, <1>1, <1>3, <1>6, Zenon
  <2>3. ASSUME NEW i \in 1 .. n + 1, res[i].base < End(m) PROVE End(res[i]) <= c
    <3>1. CASE i \in 1 .. n
      BY <3>1, <2>3, <1>6, Zenon
    <3>2. CASE i = n + 1
      BY <3>2, <2>3, <1>8, <1>1, <1>4
    <3>3. QED
      BY <3>1, <3>2, <1>3
  <2>4. \A j \in 1 .. Len(h) : \E i \in 1 .. n + 1 : End(h[j]) = res[i].base
    BY <1>3, <1>6, Zenon
  <2>5. acc \in [cursor : Nat, holes : Seq(Regions)]
    BY DEF PassInv
  <2>6. PassInv(m, res, n + 1, acc)
    BY <2>2, <2>3, <2>4, <2>5, <1>2, <1>6, Zenon DEF PassInv
  <2>7. QED
    BY <2>1, <2>6, <1>1
<1>9. CASE End(r) > c /\ r.base < End(m)
  <2>1. PICK g : g = IF r.base > c THEN Append(h, Region(c, r.base - c)) ELSE h
    BY Zenon
  <2>2. Pass(m, acc, r) = [cursor |-> End(r), holes |-> g]
    <3>1. c < End(r) /\ ~(End(r) <= c \/ r.base >= End(m))
      BY <1>9, <1>4, <1>6
    <3>2. QED
      BY <3>1, <1>2, <2>1 DEF Pass
  <2>3. /\ g \in Seq(Regions) /\ Disjoint(g)
        /\ \A f : f \in AllFrames(g) <=> f \in AllFrames(h) \/ (f \in Int /\ c <= f /\ f < r.base)
        /\ \A j \in 1 .. Len(g) : \E i \in 1 .. n + 1 : End(g[j]) = res[i].base
    <3>1. CASE r.base > c
      <4>1. PICK q : q = Region(c, r.base - c)
        OBVIOUS
      <4>2. /\ q \in Regions /\ End(q) = r.base
            /\ \A f : f \in FramesOf(q) <=> f \in Int /\ c <= f /\ f < r.base
        BY <3>1, <4>1, <1>4, <1>6, RegionBetween, SMTT(60)
      <4>3. g = Append(h, q)
        BY <2>1, <3>1, <4>1
      <4>4. AllFrames(h) \cap FramesOf(q) = {}
        <5> SUFFICES ASSUME NEW f, f \in AllFrames(h), f \in FramesOf(q) PROVE FALSE
          OBVIOUS
        <5>1. f < c /\ f \in Int /\ c <= f
          BY <1>6, <4>2, Zenon
        <5>2. QED
          BY <5>1, <1>6
      <4>5. /\ g \in Seq(Regions) /\ Len(g) = Len(h) + 1 /\ Disjoint(g)
            /\ \A j \in 1 .. Len(h) : g[j] = h[j]
            /\ g[Len(h) + 1] = q
            /\ AllFrames(g) = AllFrames(h) \cup FramesOf(q)
        BY <4>2, <4>3, <4>4, <1>6, AppendRegion
      <4>6. \A f : f \in AllFrames(g) <=> f \in AllFrames(h) \/ (f \in Int /\ c <= f /\ f < r.base)
        BY <4>2, <4>5
      <4>7. ASSUME NEW j \in 1 .. Len(g) PROVE \E i \in 1 .. n + 1 : End(g[j]) = res[i].base
        <5>1. CASE j \in 1 .. Len(h)
          BY <5>1, <4>5, <1>3, <1>6, Zenon
        <5>2. CASE j = Len(h) + 1
          BY <5>2, <4>5, <4>2, <1>1, <1>3, Zenon
        <5>3. QED
          BY <5>1, <5>2, <4>5, <1>6
      <4>8. QED
        BY <4>5, <4>6, <4>7
    <3>2. CASE ~(r.base > c)
      <4>1. g = h
        BY <2>1, <3>2
      <4>2. \A f : ~(f \in Int /\ c <= f /\ f < r.base)
        BY <3>2, <1>4, <1>6
      <4>3. \A j \in 1 .. Len(h) : \E i \in 1 .. n + 1 : End(h[j]) = res[i].base
        BY <1>3, <1>6
      <4>4. QED
        BY <4>1, <4>2, <4>3, <1>6, Zenon
    <3>3. QED
      BY <3>1, <3>2
  <2>4. ASSUME NEW f
        PROVE  f \in AllFrames(g) <=>
                 /\ f \in FramesOf(m) /\ f < End(r)
                 /\ \A i \in 1 .. n + 1 : f \notin FramesOf(res[i])
    <3>1. CASE f \in Int /\ f < c
      <4>1. f < End(r) /\ ~(f \in Int /\ c <= f /\ f < r.base)
        BY <3>1, <1>4, <1>6, <1>9, SMTT(60)
      <4>2. f \in AllFrames(h) => f \notin FramesOf(r)
        BY <1>7, <1>4
      <4>3. f \in AllFrames(g) <=> f \in AllFrames(h)
        BY <2>3, <4>1, Zenon
      <4>4. QED
        BY <3>1, <4>1, <4>2, <4>3, <1>1, <1>3, <1>6, Zenon
    <3>2. CASE f \in Int /\ c <= f
      <4>1. f \notin AllFrames(h)
        BY <3>2, <1>6
      <4>2. f < r.base => f \in FramesOf(m) /\ f < End(r)
        BY <3>2, <1>4, <1>6, <1>9, SMTT(60)
      <4>3. ASSUME f < r.base, NEW i \in 1 .. n PROVE f \notin FramesOf(res[i])
        <5>1. f < End(m)
          BY <3>2, <4>3, <1>4, <1>9
        <5>2. QED
          BY <5>1, <3>2, <1>4, <1>5, <1>6, SMTT(60)
      <4>4. f < r.base => f \notin FramesOf(r)
        BY <3>2, <1>4
      <4>5. f < r.base \/ f \in FramesOf(r) \/ ~(f < End(r))
        BY <3>2, <1>4
      <4>6. f \in AllFrames(g) <=> f < r.base
        BY <2>3, <3>2, <4>1
      <4>7. QED
        BY <4>2, <4>3, <4>4, <4>5, <4>6, <1>1, <1>3, Zenon
    <3>3. CASE f \notin Int
      <4>1. f \notin FramesOf(m)
        BY <3>3, <1>4
      <4>2. QED
        BY <4>1, <3>3, <2>3, <1>6, Zenon
    <3>4. QED
      BY <3>1, <3>2, <3>3, <1>6
  <2>5. ASSUME NEW i \in 1 .. n + 1, res[i].base < End(m) PROVE End(res[i]) <= End(r)
    <3>1. CASE i \in 1 .. n
      BY <3>1, <2>5, <1>4, <1>5, <1>6, <1>9, SMTT(60)
    <3>2. CASE i = n + 1
      BY <3>2, <1>1, <1>4
    <3>3. QED
      BY <3>1, <3>2, <1>3
  <2>6. PICK new : new = [cursor |-> End(r), holes |-> g]
    BY Zenon
  <2>7. new \in [cursor : Nat, holes : Seq(Regions)] /\ new.cursor = End(r) /\ new.holes = g
    BY <2>3, <2>6, <1>4, Zenon
  <2>8. m.base <= End(r)
    BY <1>4, <1>6, <1>9, SMTT(60)
  <2>9. PassInv(m, res, n + 1, new)
    BY <2>3, <2>4, <2>5, <2>7, <2>8, Zenon DEF PassInv
  <2>10. QED
    BY <2>2, <2>6, <2>9, <1>1
<1>10. QED
  BY <1>8, <1>9, <1>4, <1>6

\* The loop runs, and what holds of the cursor and the gaps at its end.
LEMMA PassLoop ==
    ASSUME NEW m \in Regions, NEW res \in Seq(Regions), Sorted(res)
    PROVE  \E last : /\ PassInv(m, res, Len(res), last)
                     /\ HolesIn(m, res) =
                          IF last.cursor < End(m)
                          THEN Append(last.holes, Region(last.cursor, End(m) - last.cursor))
                          ELSE last.holes
<1> DEFINE N == Len(res)
           S == {x \in [cursor : Nat, holes : Seq(Regions)] : TRUE}
           start == [cursor |-> m.base, holes |-> <<>>]
           Solves(g) == g = [n \in 0 .. N |-> IF n = 0 THEN start ELSE Pass(m, g[n - 1], res[n])]
           after == CHOOSE g : Solves(g)
           step == [n \in 1 .. N |-> [x \in S |-> Pass(m, x, res[n])]]
<1>1. N \in Nat /\ m.base \in Nat /\ \A n \in 1 .. N : res[n] \in Regions
  BY RegionFacts, ElementOfSeq
<1>2. start \in S /\ start.cursor = m.base /\ start.holes = <<>>
  BY <1>1
<1>3. ASSUME NEW n \in 1 .. N, NEW x \in S PROVE Pass(m, x, res[n]) \in S
  <2>1. PICK r : r = res[n]
    OBVIOUS
  <2>2. r.base \in Nat /\ End(r) \in Nat
    BY <2>1, <1>1, RegionFacts, Zenon
  <2>3. x.cursor \in Nat /\ x.holes \in Seq(Regions)
    OBVIOUS
  <2>4. r.base > x.cursor => Append(x.holes, Region(x.cursor, r.base - x.cursor)) \in Seq(Regions)
    BY <2>2, <2>3, RegionBetween, AppendRegion, Zenon
  <2>5. QED
    BY <2>1, <2>2, <2>3, <2>4, Zenon DEF Pass
<1>4. step \in [1 .. N -> [S -> S]]
  BY <1>3, Zenon
<1>5. PICK g : /\ g \in [0 .. N -> S] /\ g[0] = start
               /\ \A n \in 1 .. N : g[n] = step[n][g[n - 1]]
  <2> HIDE DEF step, S, start, N
  <2>1. \E g : IsLoop(g, N, S, start, step)
    BY <1>1, <1>2, <1>4, LoopValues, Zenon
  <2>2. QED
    BY <2>1, Zenon DEF IsLoop
<1>6. Solves(g)
  <2>1. ASSUME NEW n \in 1 .. N PROVE g[n] = Pass(m, g[n - 1], res[n])
    <3>1. n - 1 \in 0 .. N
      BY <1>1
    <3>2. g[n - 1] \in S
      BY <1>5, <3>1, Zenon
    <3>3. QED
      BY <1>5, <3>2, Zenon
  <2>2. ASSUME NEW n \in 0 .. N
        PROVE  g[n] = IF n = 0 THEN start ELSE Pass(m, g[n - 1], res[n])
    <3>1. n # 0 => n \in 1 .. N
      BY <1>1
    <3>2. QED
      BY <2>1, <3>1, <1>5, Zenon
  <2> HIDE DEF start
  <2>3. QED
    BY <2>2, <1>5, Zenon
<1>7. Solves(after)
  <2> HIDE DEF Solves
  <2>1. QED
    BY <1>6
<1>8. HolesIn(m, res) = IF after[N].cursor < End(m)
                        THEN Append(after[N].holes, Region(after[N].cursor, End(m) - after[N].cursor))
                        ELSE after[N].holes
  BY Zenon DEF HolesIn
<1> HIDE DEF after
<1>9. PICK a : a = after
  OBVIOUS
<1>10. a[0] = start /\ \A n \in 1 .. N : a[n] = Pass(m, a[n - 1], res[n])
  <2> HIDE DEF start
  <2>1. QED
    BY <1>1, <1>7, <1>9
<1>11. PassInv(m, res, 0, a[0])
  <2>1. Len(a[0].holes) = 0 /\ a[0].holes = <<>> /\ a[0].cursor = m.base
    BY <1>2, <1>10
  <2>2. \A f : f \notin AllFrames(a[0].holes)
    BY <2>1, FrameOfList
  <2>3. \A f : ~(f \in FramesOf(m) /\ f < a[0].cursor)
    <3>1. \A f : f \in FramesOf(m) => f \in Int /\ m.base <= f
      BY RegionFacts
    <3>2. QED
      BY <3>1, <2>1, <1>1
  <2>4. a[0] \in [cursor : Nat, holes : Seq(Regions)]
    BY <1>2, <1>10, Zenon
  <2>5. Disjoint(a[0].holes)
    BY <2>1 DEF Disjoint
  <2>6. QED
    BY <2>1, <2>2, <2>3, <2>4, <2>5, <1>1 DEF PassInv
<1> DEFINE T == {n \in 0 .. N : PassInv(m, res, n, a[n])}
<1>12. 0 \in T
  BY <1>1, <1>11
<1>13. ASSUME NEW n \in 0 .. N - 1, n \in T PROVE n + 1 \in T
  <2>1. n + 1 \in 1 .. N /\ (n + 1) - 1 = n
    BY <1>1
  <2>2. a[n + 1] = Pass(m, a[n], res[n + 1])
    BY <1>10, <2>1, Zenon
  <2>3. PassInv(m, res, n + 1, a[n + 1])
    BY <1>13, <2>2, PassStep
  <2>4. QED
    BY <2>1, <2>3
<1> HIDE DEF T, N
<1>14. 0 .. N \subseteq T
  BY <1>1, <1>12, <1>13, UpTo, Zenon
<1>15. N \in T
  BY <1>1, <1>14
<1>16. PassInv(m, res, N, a[N])
  BY <1>15 DEF T
<1>17. QED
  BY <1>8, <1>9, <1>16, Zenon DEF N

\* h lists the free frames of m, in maximal runs: each of its regions ends
\* where m ends or a reserved frame follows.
IsGaps(h, m, res) ==
    /\ h \in Seq(Regions) /\ Disjoint(h)
    /\ AllFrames(h) = FramesOf(m) \ AllFrames(res)
    /\ \A j \in 1 .. Len(h) : End(h[j]) \notin FramesOf(m) \ AllFrames(res)

\* for_each_free's inner loop finds them.
LEMMA GapsExact ==
    ASSUME NEW m \in Regions, NEW res \in Seq(Regions), Sorted(res)
    PROVE  IsGaps(HolesIn(m, res), m, res)
<1>1. PICK last : /\ PassInv(m, res, Len(res), last)
                  /\ HolesIn(m, res) =
                       IF last.cursor < End(m)
                       THEN Append(last.holes, Region(last.cursor, End(m) - last.cursor))
                       ELSE last.holes
  BY PassLoop, Zenon
<1>2. PICK c, h : c = last.cursor /\ h = last.holes
  OBVIOUS
<1>3. /\ c \in Nat /\ h \in Seq(Regions) /\ Len(h) \in Nat /\ m.base <= c
      /\ \A f : f \in AllFrames(h) <=>
                   /\ f \in FramesOf(m) /\ f < c
                   /\ \A i \in 1 .. Len(res) : f \notin FramesOf(res[i])
      /\ Disjoint(h)
      /\ \A j \in 1 .. Len(h) : \E i \in 1 .. Len(res) : End(h[j]) = res[i].base
      /\ \A i \in 1 .. Len(res) : res[i].base < End(m) => End(res[i]) <= c
  BY <1>1, <1>2 DEF PassInv
<1>4. /\ m.base \in Nat /\ End(m) \in Nat
      /\ \A f : f \in FramesOf(m) <=> f \in Int /\ m.base <= f /\ f < End(m)
  BY RegionFacts
<1>5. \A i \in 1 .. Len(res) :
        /\ res[i].base \in Nat /\ End(res[i]) \in Nat /\ res[i].base < End(res[i])
        /\ \A f : f \in FramesOf(res[i]) <=> f \in Int /\ res[i].base <= f /\ f < End(res[i])
  <2>1. \A i \in 1 .. Len(res) : res[i] \in Regions
    BY ElementOfSeq
  <2>2. QED
    BY <2>1, RegionFacts, Zenon
<1>6. \A f : f \in AllFrames(res) <=> \E i \in 1 .. Len(res) : f \in FramesOf(res[i])
  BY FrameOfList, Zenon
<1>7. \A j \in 1 .. Len(h) : End(h[j]) \in AllFrames(res)
  <2> TAKE j \in 1 .. Len(h)
  <2>1. PICK i \in 1 .. Len(res) : End(h[j]) = res[i].base
    BY <1>3, Zenon
  <2>2. res[i].base \in FramesOf(res[i])
    BY <1>5
  <2>3. QED
    BY <2>1, <2>2, <1>6
<1>8. \A f : f \in AllFrames(h) <=> f \in FramesOf(m) /\ f < c /\ f \notin AllFrames(res)
  BY <1>3, <1>6, Zenon
<1>9. CASE c < End(m)
  <2>1. PICK q : q = Region(c, End(m) - c)
    OBVIOUS
  <2>2. /\ q \in Regions /\ End(q) = End(m)
        /\ \A f : f \in FramesOf(q) <=> f \in Int /\ c <= f /\ f < End(m)
    BY <1>3, <1>4, <1>9, <2>1, RegionBetween, Zenon
  <2>3. PICK g : g = Append(h, q) /\ g = HolesIn(m, res)
    BY <1>1, <1>2, <1>9, <2>1, Zenon
  <2>4. AllFrames(h) \cap FramesOf(q) = {}
    <3> SUFFICES ASSUME NEW f, f \in AllFrames(h), f \in FramesOf(q) PROVE FALSE
      OBVIOUS
    <3>1. f < c /\ f \in Int /\ c <= f
      BY <1>8, <2>2
    <3>2. QED
      BY <3>1, <1>3
  <2>5. /\ g \in Seq(Regions) /\ Len(g) = Len(h) + 1 /\ Disjoint(g)
        /\ \A j \in 1 .. Len(h) : g[j] = h[j]
        /\ g[Len(h) + 1] = q
        /\ AllFrames(g) = AllFrames(h) \cup FramesOf(q)
    <3>1. h \in Seq(Regions) /\ Disjoint(h) /\ q \in Regions
      BY <2>2, <1>3, Zenon
    <3>2. g = Append(h, q)
      BY <2>3
    <3>3. QED
      BY <2>4, <3>1, <3>2, AppendRegion, Zenon
  <2>6. ASSUME NEW f PROVE f \in AllFrames(g) <=> f \in FramesOf(m) /\ f \notin AllFrames(res)
    <3>1. CASE f \in Int /\ f < c
      <4>1. f \notin FramesOf(q)
        BY <3>1, <2>2, <1>3
      <4>2. QED
        BY <3>1, <4>1, <2>5, <1>8
    <3>2. CASE f \in Int /\ c <= f
      <4>1. f \in FramesOf(m) <=> f \in FramesOf(q)
        BY <3>2, <2>2, <1>3, <1>4
      <4>2. f \in FramesOf(q) => f \notin AllFrames(res)
        <5> SUFFICES ASSUME f \in FramesOf(q), NEW i \in 1 .. Len(res), f \in FramesOf(res[i])
                     PROVE  FALSE
          BY <1>6
        <5>1. f < End(m) /\ res[i].base <= f /\ f < End(res[i])
          BY <2>2, <1>5, Zenon
        <5>2. QED
          BY <5>1, <3>2, <1>3, <1>4, <1>5, SMTT(60)
      <4>3. f \notin AllFrames(h)
        BY <3>2, <1>3, <1>8
      <4>4. QED
        BY <4>1, <4>2, <4>3, <2>5
    <3>3. CASE f \notin Int
      BY <3>3, <1>4, <1>8, <2>2, <2>5, Zenon
    <3>4. QED
      BY <3>1, <3>2, <3>3, <1>3
  <2>7. ASSUME NEW j \in 1 .. Len(g) PROVE End(g[j]) \notin FramesOf(m) \ AllFrames(res)
    <3>1. CASE j \in 1 .. Len(h)
      BY <3>1, <2>5, <1>7
    <3>2. CASE j = Len(h) + 1
      <4>1. End(m) \notin FramesOf(m)
        BY <1>4
      <4>2. QED
        BY <3>2, <4>1, <2>2, <2>5, Zenon
    <3>3. QED
      BY <3>1, <3>2, <2>5, <1>3
  <2>8. AllFrames(g) = FramesOf(m) \ AllFrames(res)
    BY <2>6
  <2>9. QED
    BY <2>3, <2>5, <2>7, <2>8, Zenon DEF IsGaps
<1>10. CASE ~(c < End(m))
  <2>1. HolesIn(m, res) = h
    BY <1>1, <1>2, <1>10
  <2>2. \A f : f \in FramesOf(m) => f < c
    BY <1>3, <1>4, <1>10
  <2>3. AllFrames(h) = FramesOf(m) \ AllFrames(res)
    BY <2>2, <1>8, Zenon
  <2>4. QED
    BY <2>1, <2>3, <1>3, <1>7, Zenon DEF IsGaps
<1>11. QED
  BY <1>9, <1>10

\* Two lists one after the other: their frames, and when they stay apart.
LEMMA ConcatRegions ==
    ASSUME NEW s \in Seq(Regions), NEW t \in Seq(Regions)
    PROVE  /\ s \o t \in Seq(Regions)
           /\ AllFrames(s \o t) = AllFrames(s) \cup AllFrames(t)
           /\ \A j \in 1 .. Len(s \o t) : \/ \E i \in 1 .. Len(s) : (s \o t)[j] = s[i]
                                          \/ \E i \in 1 .. Len(t) : (s \o t)[j] = t[i]
           /\ Disjoint(s) /\ Disjoint(t) /\ AllFrames(s) \cap AllFrames(t) = {}
                 => Disjoint(s \o t)
<1>1. PICK u : u = s \o t
  BY Zenon
<1>2. PICK a, b : a = Len(s) /\ b = Len(t) /\ a \in Nat /\ b \in Nat
  <2>1. Len(s) \in Nat /\ Len(t) \in Nat
    OBVIOUS
  <2>2. QED
    BY <2>1, Zenon
<1>3. /\ u \in Seq(Regions) /\ Len(u) = a + b
      /\ \A i \in 1 .. a + b : u[i] = IF i <= a THEN s[i] ELSE t[i - a]
  BY <1>1, <1>2, ConcatProperties, Zenon
<1>4. ASSUME NEW j \in 1 .. a + b
      PROVE  \/ j \in 1 .. a /\ u[j] = s[j]
             \/ j - a \in 1 .. b /\ u[j] = t[j - a]
  <2>1. CASE j <= a
    BY <2>1, <1>2, <1>3
  <2>2. CASE j > a
    BY <2>2, <1>2, <1>3
  <2>3. QED
    BY <2>1, <2>2, <1>2
<1>5. \A j \in 1 .. a + b : (\E i \in 1 .. a : u[j] = s[i]) \/ (\E i \in 1 .. b : u[j] = t[i])
  BY <1>4, Zenon
<1>6. /\ \A i \in 1 .. a : i \in 1 .. a + b /\ u[i] = s[i]
      /\ \A i \in 1 .. b : a + i \in 1 .. a + b /\ u[a + i] = t[i]
  <2>1. \A i \in 1 .. b : a + i \in 1 .. a + b /\ ~(a + i <= a) /\ (a + i) - a = i
    BY <1>2
  <2>2. \A i \in 1 .. a : i \in 1 .. a + b /\ i <= a
    BY <1>2
  <2>3. QED
    BY <2>1, <2>2, <1>3, Zenon
<1>7. ASSUME NEW f PROVE f \in AllFrames(u) <=> f \in AllFrames(s) \/ f \in AllFrames(t)
  <2>0. /\ f \in AllFrames(u) <=> \E i \in 1 .. a + b : f \in FramesOf(u[i])
        /\ f \in AllFrames(s) <=> \E i \in 1 .. a : f \in FramesOf(s[i])
        /\ f \in AllFrames(t) <=> \E i \in 1 .. b : f \in FramesOf(t[i])
    BY <1>2, <1>3, FrameOfList, Zenon
  <2>1. f \in AllFrames(u) => f \in AllFrames(s) \/ f \in AllFrames(t)
    BY <1>5, <2>0
  <2>2. f \in AllFrames(s) \/ f \in AllFrames(t) => f \in AllFrames(u)
    BY <1>6, <2>0
  <2>3. QED
    BY <2>1, <2>2
<1>8. ASSUME Disjoint(s), Disjoint(t), AllFrames(s) \cap AllFrames(t) = {} PROVE Disjoint(u)
  <2> SUFFICES ASSUME NEW i \in 1 .. Len(u), NEW j \in 1 .. Len(u), i # j,
                      NEW f, f \in FramesOf(u[i]), f \in FramesOf(u[j])
               PROVE  FALSE
    BY Zenon DEF Disjoint
  <2>0. i \in 1 .. a + b /\ j \in 1 .. a + b
    BY <1>3
  <2>1. CASE i \in 1 .. a /\ u[i] = s[i] /\ j \in 1 .. a /\ u[j] = s[j]
    BY <2>1, <1>2, <1>8, Zenon DEF Disjoint
  <2>2. CASE i - a \in 1 .. b /\ u[i] = t[i - a] /\ j - a \in 1 .. b /\ u[j] = t[j - a]
    <3>1. i - a # j - a
      BY <2>0, <1>2
    <3>2. QED
      BY <2>2, <3>1, <1>2, <1>8, Zenon DEF Disjoint
  <2>3. CASE \/ i \in 1 .. a /\ u[i] = s[i] /\ j - a \in 1 .. b /\ u[j] = t[j - a]
             \/ i - a \in 1 .. b /\ u[i] = t[i - a] /\ j \in 1 .. a /\ u[j] = s[j]
    <3>1. f \in AllFrames(s) /\ f \in AllFrames(t)
      BY <2>3, <1>2, FrameOfList, Zenon
    <3>2. QED
      BY <3>1, <1>8
  <2>4. QED
    BY <2>0, <2>1, <2>2, <2>3, <1>4, Zenon
<1>9. AllFrames(u) = AllFrames(s) \cup AllFrames(t)
  BY <1>7
<1>10. QED
  BY <1>1, <1>2, <1>3, <1>5, <1>8, <1>9, Zenon

\* h lists the free frames of the first n regions of mem, in runs that are
\* maximal within a region.
IsHoles(h, mem, n, res) ==
    /\ h \in Seq(Regions) /\ Disjoint(h)
    /\ \A f : f \in AllFrames(h) <=> /\ \E i \in 1 .. n : f \in FramesOf(mem[i])
                                     /\ f \notin AllFrames(res)
    /\ \A j \in 1 .. Len(h) : \E i \in 1 .. n :
          /\ FramesOf(h[j]) \subseteq FramesOf(mem[i])
          /\ End(h[j]) \notin FramesOf(mem[i]) \ AllFrames(res)

\* One turn of for_each_free's outer loop.
LEMMA HolesStep ==
    ASSUME NEW mem \in Seq(Regions), NEW res \in Seq(Regions), Sorted(res), Disjoint(mem),
           NEW n \in 0 .. Len(mem) - 1, NEW h, IsHoles(h, mem, n, res)
    PROVE  IsHoles(h \o HolesIn(mem[n + 1], res), mem, n + 1, res)
<1>1. /\ Len(mem) \in Nat /\ n + 1 \in 1 .. Len(mem) /\ mem[n + 1] \in Regions
      /\ \A i : i \in 1 .. n + 1 <=> i \in 1 .. n \/ i = n + 1
      /\ \A i \in 1 .. n : i \in 1 .. Len(mem) /\ i # n + 1
  <2>1. Len(mem) \in Nat /\ n \in Nat
    OBVIOUS
  <2>2. QED
    BY <2>1, ElementOfSeq
<1>2. PICK m : m = mem[n + 1]
  OBVIOUS
<1>3. PICK g : g = HolesIn(m, res)
  OBVIOUS
<1>4. /\ g \in Seq(Regions) /\ Disjoint(g)
      /\ AllFrames(g) = FramesOf(m) \ AllFrames(res)
      /\ \A j \in 1 .. Len(g) : End(g[j]) \notin FramesOf(m) \ AllFrames(res)
  BY <1>1, <1>2, <1>3, GapsExact, Zenon DEF IsGaps
<1>5. /\ h \in Seq(Regions) /\ Disjoint(h)
      /\ \A f : f \in AllFrames(h) <=> /\ \E i \in 1 .. n : f \in FramesOf(mem[i])
                                       /\ f \notin AllFrames(res)
      /\ \A j \in 1 .. Len(h) : \E i \in 1 .. n :
            /\ FramesOf(h[j]) \subseteq FramesOf(mem[i])
            /\ End(h[j]) \notin FramesOf(mem[i]) \ AllFrames(res)
  BY Zenon DEF IsHoles
<1>6. AllFrames(h) \cap AllFrames(g) = {}
  <2> SUFFICES ASSUME NEW f, f \in AllFrames(h), f \in AllFrames(g) PROVE FALSE
    OBVIOUS
  <2>1. PICK i \in 1 .. n : f \in FramesOf(mem[i])
    BY <1>5
  <2>2. f \in FramesOf(mem[n + 1])
    BY <1>2, <1>4, Zenon
  <2>3. QED
    BY <2>1, <2>2, <1>1, Zenon DEF Disjoint
<1>7. PICK u : u = h \o g
  BY Zenon
<1>8. /\ u \in Seq(Regions) /\ Disjoint(u)
      /\ AllFrames(u) = AllFrames(h) \cup AllFrames(g)
      /\ \A j \in 1 .. Len(u) : \/ \E i \in 1 .. Len(h) : u[j] = h[i]
                                \/ \E i \in 1 .. Len(g) : u[j] = g[i]
  <2>1. h \in Seq(Regions) /\ g \in Seq(Regions) /\ Disjoint(h) /\ Disjoint(g)
    BY <1>4, <1>5, Zenon
  <2>2. /\ h \o g \in Seq(Regions)
        /\ AllFrames(h \o g) = AllFrames(h) \cup AllFrames(g)
        /\ \A j \in 1 .. Len(h \o g) : \/ \E i \in 1 .. Len(h) : (h \o g)[j] = h[i]
                                       \/ \E i \in 1 .. Len(g) : (h \o g)[j] = g[i]
    BY <2>1, ConcatRegions, Zenon
  <2>3. Disjoint(h \o g)
    BY <2>1, <1>6, ConcatRegions, Zenon
  <2>4. QED
    BY <2>2, <2>3, <1>7, Zenon
<1>9. ASSUME NEW f
      PROVE  f \in AllFrames(u) <=> /\ \E i \in 1 .. n + 1 : f \in FramesOf(mem[i])
                                    /\ f \notin AllFrames(res)
  <2>1. f \in AllFrames(u) <=> f \in AllFrames(h) \/ f \in AllFrames(g)
    BY <1>8
  <2>2. f \in AllFrames(g) <=> f \in FramesOf(mem[n + 1]) /\ f \notin AllFrames(res)
    BY <1>2, <1>4
  <2>3. QED
    BY <2>1, <2>2, <1>1, <1>5, Zenon
<1>10. ASSUME NEW j \in 1 .. Len(u)
       PROVE  \E i \in 1 .. n + 1 : /\ FramesOf(u[j]) \subseteq FramesOf(mem[i])
                                    /\ End(u[j]) \notin FramesOf(mem[i]) \ AllFrames(res)
  <2>1. CASE \E i \in 1 .. Len(h) : u[j] = h[i]
    BY <2>1, <1>1, <1>5, Zenon
  <2>2. CASE \E i \in 1 .. Len(g) : u[j] = g[i]
    <3>1. PICK i \in 1 .. Len(g) : u[j] = g[i]
      BY <2>2
    <3>2. FramesOf(g[i]) \subseteq FramesOf(m)
      <4>1. \A f : f \in FramesOf(g[i]) => f \in AllFrames(g)
        BY FrameOfList, Zenon
      <4>2. QED
        BY <4>1, <1>4
    <3>3. QED
      BY <3>1, <3>2, <1>1, <1>2, <1>4, Zenon
  <2>3. QED
    BY <2>1, <2>2, <1>8, Zenon
<1>11. IsHoles(u, mem, n + 1, res)
  BY <1>8, <1>9, <1>10, Zenon DEF IsHoles
<1>12. QED
  BY <1>2, <1>3, <1>7, <1>11, Zenon

\* for_each_free yields the free frames, in runs that are maximal within a
\* memory region.
LEMMA HolesAreExact ==
    ASSUME NEW mem \in Seq(Regions), NEW res \in Seq(Regions), Sorted(res), Disjoint(mem)
    PROVE  IsHoles(Holes(mem, res), mem, Len(mem), res)
<1> DEFINE N == Len(mem)
           S == Seq(Regions)
           Solves(g) == g = [n \in 0 .. N |-> IF n = 0 THEN <<>> ELSE g[n - 1] \o HolesIn(mem[n], res)]
           upTo == CHOOSE g : Solves(g)
           step == [n \in 1 .. N |-> [x \in S |-> x \o HolesIn(mem[n], res)]]
<1>1. N \in Nat /\ <<>> \in S
  OBVIOUS
<1>2. ASSUME NEW n \in 1 .. N PROVE HolesIn(mem[n], res) \in S
  <2>1. mem[n] \in Regions
    BY ElementOfSeq
  <2>2. QED
    BY <2>1, GapsExact DEF IsGaps
<1>3. ASSUME NEW n \in 1 .. N, NEW x \in S PROVE x \o HolesIn(mem[n], res) \in S
  <2> HIDE DEF N
  <2>1. QED
    BY <1>2, ConcatRegions, Zenon
<1>4. step \in [1 .. N -> [S -> S]]
  <2> HIDE DEF S, N
  <2>1. QED
    BY <1>3
<1>5. PICK g : /\ g \in [0 .. N -> S] /\ g[0] = <<>>
               /\ \A n \in 1 .. N : g[n] = step[n][g[n - 1]]
  <2> HIDE DEF step, S, N
  <2>1. \E g : IsLoop(g, N, S, <<>>, step)
    BY <1>1, <1>4, LoopValues, Zenon
  <2>2. QED
    BY <2>1, Zenon DEF IsLoop
<1>6. Solves(g)
  <2> HIDE DEF S, N
  <2>1. ASSUME NEW n \in 1 .. N PROVE g[n] = g[n - 1] \o HolesIn(mem[n], res)
    <3>1. n - 1 \in 0 .. N
      BY <1>1
    <3>2. g[n - 1] \in S
      BY <1>5, <3>1
    <3>3. QED
      BY <1>5, <3>2, Zenon
  <2>2. ASSUME NEW n \in 0 .. N
        PROVE  g[n] = IF n = 0 THEN <<>> ELSE g[n - 1] \o HolesIn(mem[n], res)
    <3>1. n # 0 => n \in 1 .. N
      BY <1>1
    <3>2. QED
      BY <2>1, <3>1, <1>5, Zenon
  <2>3. QED
    BY <2>2, <1>5, Zenon
<1>7. Solves(upTo)
  <2> HIDE DEF Solves
  <2>1. QED
    BY <1>6
<1>8. Holes(mem, res) = upTo[N]
  BY Zenon DEF Holes
<1> HIDE DEF upTo
<1>9. PICK a : a = upTo
  OBVIOUS
<1>10. a[0] = <<>> /\ \A n \in 1 .. N : a[n] = a[n - 1] \o HolesIn(mem[n], res)
  <2> HIDE DEF N
  <2>1. QED
    BY <1>1, <1>7, <1>9, SMTT(60)
<1>11. IsHoles(a[0], mem, 0, res)
  <2>1. Len(a[0]) = 0 /\ a[0] \in Seq(Regions)
    BY <1>10
  <2>2. \A f : f \notin AllFrames(a[0])
    BY <2>1, FrameOfList
  <2>3. Disjoint(a[0])
    BY <2>1 DEF Disjoint
  <2>4. 1 .. 0 = {}
    OBVIOUS
  <2>5. QED
    BY <2>1, <2>2, <2>3, <2>4, Zenon DEF IsHoles
<1> DEFINE T == {n \in 0 .. N : IsHoles(a[n], mem, n, res)}
<1>12. 0 \in T
  BY <1>1, <1>11
<1>13. ASSUME NEW n \in 0 .. N - 1, n \in T PROVE n + 1 \in T
  <2>1. n + 1 \in 1 .. N /\ (n + 1) - 1 = n
    BY <1>1
  <2>2. a[n + 1] = a[n] \o HolesIn(mem[n + 1], res)
    BY <1>10, <2>1, Zenon
  <2>3. IsHoles(a[n + 1], mem, n + 1, res)
    BY <1>13, <2>2, HolesStep, Zenon
  <2>4. QED
    BY <2>1, <2>3
<1> HIDE DEF T, N
<1>14. 0 .. N \subseteq T
  BY <1>1, <1>12, <1>13, UpTo, Zenon
<1>15. IsHoles(a[N], mem, N, res)
  BY <1>1, <1>14 DEF T
<1>16. QED
  BY <1>8, <1>9, <1>15, Zenon DEF N

\* Rounding down to a multiple of s gives the highest one that is not above.
LEMMA RoundDown ==
    ASSUME NEW s \in Nat, s >= 1, NEW q \in Int
    PROVE  \E d \in Int : /\ d = q - (q % s) /\ d % s = 0 /\ d <= q
                          /\ \A p \in Int : p % s = 0 /\ p <= q => p <= d
<1>1. PICK c, r : c = q \div s /\ r = q % s /\ q = s * c + r /\ r \in 0 .. s - 1 /\ c \in Int
  BY DivMod, Zenon
<1>2. PICK d : d = q - (q % s)
  OBVIOUS
<1>3. d = s * c /\ d \in Int /\ d <= q /\ q < d + s
  BY <1>1, <1>2
<1>4. d % s = 0
  BY <1>1, <1>3, Multiple, Zenon
<1>5. ASSUME NEW p \in Int, p % s = 0, p <= q PROVE p <= d
  <2> SUFFICES ASSUME d < p PROVE FALSE
    BY <1>3
  <2>1. d + s <= p
    BY <1>3, <1>4, <1>5, AlignedApart
  <2>2. QED
    BY <2>1, <1>3, <1>5
<1>6. QED
  BY <1>2, <1>3, <1>4, <1>5

\* The ends of the regions of a list have a bound.
LEMMA ListBound ==
    ASSUME NEW s \in Seq(Regions)
    PROVE  \E b \in Nat : \A i \in 1 .. Len(s) : End(s[i]) <= b
<1> DEFINE T == {n \in 0 .. Len(s) : \E b \in Nat : \A i \in 1 .. n : End(s[i]) <= b}
<1>1. Len(s) \in Nat /\ \A i \in 1 .. Len(s) : End(s[i]) \in Nat
  <2>1. \A i \in 1 .. Len(s) : s[i] \in Regions
    BY ElementOfSeq
  <2>2. QED
    BY <2>1, RegionFacts
<1>2. 0 \in T
  <2>1. \A i \in 1 .. 0 : End(s[i]) <= 0
    OBVIOUS
  <2>2. QED
    BY <2>1, <1>1
<1>3. ASSUME NEW n \in 0 .. Len(s) - 1, n \in T PROVE n + 1 \in T
  <2>1. PICK b \in Nat : \A i \in 1 .. n : End(s[i]) <= b
    BY <1>3
  <2>2. n + 1 \in 1 .. Len(s) /\ \A i \in 1 .. n + 1 : i \in 1 .. n \/ i = n + 1
    BY <1>1
  <2>3. PICK e \in Nat : e = End(s[n + 1])
    BY <1>1, <2>2
  <2>4. \A i \in 1 .. n : i \in 1 .. Len(s)
    BY <1>1
  <2>5. \A i \in 1 .. n + 1 : End(s[i]) <= b + e
    BY <2>1, <2>2, <2>3, <2>4, <1>1, SMTT(60)
  <2>6. b + e \in Nat
    OBVIOUS
  <2>7. QED
    BY <2>2, <2>5, <2>6
<1> HIDE DEF T
<1>4. 0 .. Len(s) \subseteq T
  BY <1>1, <1>2, <1>3, UpTo, Zenon
<1>5. Len(s) \in T
  BY <1>1, <1>4
<1>6. QED
  BY <1>5 DEF T

\* Where an aligned run of frames may go: free, within one memory region.
Fits(mem, res, frames, align) ==
    {p \in AllFrames(mem) \ AllFrames(res) :
        /\ p % align = 0
        /\ \E i \in 1 .. Len(mem) :
              p .. p + frames - 1 \subseteq
                  (AllFrames(mem) \ AllFrames(res)) \cap FramesOf(mem[i])}

\* alloc's search finds the highest such place.
LEMMA BestIsHighest ==
    ASSUME NEW mem \in Seq(Regions), NEW res \in Seq(Regions), Sorted(res), Disjoint(mem),
           NEW frames \in Nat \ {0}, NEW align \in Nat \ {0}
    PROVE  LET fits == Fits(mem, res, frames, align)
           IN  /\ Best(mem, res, frames, align) = IF fits = {} THEN None ELSE Max(fits)
               /\ fits # {} => Max(fits) \in fits
<1> DEFINE fits == Fits(mem, res, frames, align)
           free == AllFrames(mem) \ AllFrames(res)
           cand(x) == (End(x) - frames) - ((End(x) - frames) % align)
           cands(h) == {cand(x) : x \in {x \in Range(h) : x.frames >= frames /\ cand(x) >= x.base}}
<1>1. PICK h : h = Holes(mem, res)
  OBVIOUS
<1>2. /\ h \in Seq(Regions) /\ Disjoint(h)
      /\ \A f : f \in AllFrames(h) <=> f \in free
      /\ \A j \in 1 .. Len(h) : \E i \in 1 .. Len(mem) :
            /\ FramesOf(h[j]) \subseteq FramesOf(mem[i])
            /\ End(h[j]) \notin FramesOf(mem[i]) \ AllFrames(res)
  <2>1. IsHoles(h, mem, Len(mem), res)
    BY <1>1, HolesAreExact
  <2>2. \A f : f \in AllFrames(mem) <=> \E i \in 1 .. Len(mem) : f \in FramesOf(mem[i])
    BY FrameOfList, Zenon
  <2>3. QED
    BY <2>1, <2>2, Zenon DEF IsHoles
<1>3. Best(mem, res, frames, align) = IF cands(h) = {} THEN None ELSE Max(cands(h))
  BY <1>1, Zenon DEF Best
<1>4. /\ Len(h) \in Nat /\ Len(mem) \in Nat
      /\ \A i \in 1 .. Len(h) : h[i] \in Regions
      /\ \A i \in 1 .. Len(mem) : mem[i] \in Regions
  BY <1>2, ElementOfSeq
<1>5. \A x : x \in Range(h) <=> \E j \in 1 .. Len(h) : x = h[j]
  <2>1. DOMAIN h = 1 .. Len(h)
    BY <1>2
  <2>2. QED
    BY <2>1 DEF Range
<1>6. ASSUME NEW x, x \in Range(h)
      PROVE  /\ x \in Regions /\ cand(x) \in Int /\ cand(x) % align = 0
             /\ cand(x) <= End(x) - frames
             /\ \A p \in Int : p % align = 0 /\ p <= End(x) - frames => p <= cand(x)
             /\ \A f : f \in FramesOf(x) => f \in free
             /\ \E i \in 1 .. Len(mem) :
                   /\ FramesOf(x) \subseteq FramesOf(mem[i])
                   /\ End(x) \notin FramesOf(mem[i]) \ AllFrames(res)
  <2>1. PICK j \in 1 .. Len(h) : x = h[j]
    BY <1>5, <1>6
  <2>2. x \in Regions /\ End(x) \in Nat
    BY <2>1, <1>4, RegionFacts, Zenon
  <2>3. PICK q \in Int : q = End(x) - frames
    BY <2>2
  <2>4. align \in Nat /\ align >= 1
    OBVIOUS
  <2>5. PICK d \in Int : /\ d = q - (q % align) /\ d % align = 0 /\ d <= q
                         /\ \A p \in Int : p % align = 0 /\ p <= q => p <= d
    BY <2>3, <2>4, RoundDown, Zenon
  <2>6. d = cand(x)
    BY <2>3, <2>5
  <2>7. \A f : f \in FramesOf(x) => f \in free
    BY <2>1, <1>2, FrameOfList, Zenon
  <2> HIDE DEF cand, free
  <2>8. QED
    BY <2>1, <2>2, <2>3, <2>5, <2>6, <2>7, <1>2, Zenon
<1>7. ASSUME NEW p, p \in cands(h) PROVE p \in fits
  <2>1. PICK x \in Range(h) : x.frames >= frames /\ cand(x) >= x.base /\ p = cand(x)
    BY <1>7, Zenon
  <2>2. /\ x.base \in Nat /\ End(x) \in Nat
        /\ \A f : f \in FramesOf(x) <=> f \in Int /\ x.base <= f /\ f < End(x)
    BY <1>6, RegionFacts, Zenon
  <2>3. p \in Int /\ p % align = 0 /\ p <= End(x) - frames /\ p >= x.base
    BY <2>1, <1>6, Zenon
  <2>4. p .. p + frames - 1 \subseteq FramesOf(x) /\ p \in FramesOf(x)
    BY <2>2, <2>3, SMTT(60)
  <2>5. PICK i \in 1 .. Len(mem) : FramesOf(x) \subseteq FramesOf(mem[i])
    BY <1>6, Zenon
  <2>6. p .. p + frames - 1 \subseteq free \cap FramesOf(mem[i]) /\ p \in free
    BY <2>4, <2>5, <1>6, Zenon
  <2>7. QED
    BY <2>3, <2>6, Zenon DEF Fits
<1>8. ASSUME NEW p, p \in fits PROVE p \in Int /\ \E c \in cands(h) : p <= c
  <2>1. PICK i \in 1 .. Len(mem) :
           p \in free /\ p % align = 0 /\ p .. p + frames - 1 \subseteq free \cap FramesOf(mem[i])
    BY <1>8, Zenon DEF Fits
  <2>2. PICK e \in 1 .. Len(h) : p \in FramesOf(h[e])
    BY <2>1, <1>2, FrameOfList, Zenon
  <2>3. PICK x : x = h[e]
    OBVIOUS
  <2>4. x \in Range(h)
    BY <2>3, <1>5
  <2>5. /\ x.base \in Nat /\ End(x) \in Nat /\ x.frames \in Nat /\ End(x) = x.base + x.frames
        /\ \A f : f \in FramesOf(x) <=> f \in Int /\ x.base <= f /\ f < End(x)
    BY <2>4, <1>6, RegionFacts, Zenon
  <2>6. p \in Int /\ x.base <= p /\ p < End(x)
    BY <2>2, <2>3, <2>5, Zenon
  <2>7. p + frames <= End(x)
    <3> SUFFICES ASSUME p + frames > End(x) PROVE FALSE
      BY <2>5, <2>6
    <3>1. End(x) \in p .. p + frames - 1
      BY <2>5, <2>6
    <3>2. End(x) \in FramesOf(mem[i]) /\ End(x) \notin AllFrames(res)
      BY <2>1, <3>1, Zenon
    <3>3. PICK j \in 1 .. Len(mem) : /\ FramesOf(x) \subseteq FramesOf(mem[j])
                                     /\ End(x) \notin FramesOf(mem[j]) \ AllFrames(res)
      BY <2>4, <1>6, Zenon
    <3>4. p \in FramesOf(mem[j])
      BY <2>2, <2>3, <3>3, Zenon
    <3>5. p \in FramesOf(mem[i])
      <4>1. p \in p .. p + frames - 1
        BY <2>6
      <4>2. QED
        BY <4>1, <2>1
    <3>6. i = j
      BY <3>4, <3>5, Zenon DEF Disjoint
    <3>7. QED
      BY <3>2, <3>3, <3>6, Zenon
  <2>8. p <= cand(x)
    <3>1. p <= End(x) - frames
      BY <2>5, <2>6, <2>7
    <3> HIDE DEF cand
    <3>2. QED
      BY <3>1, <2>1, <2>4, <2>6, <1>6, Zenon
  <2>9. x.frames >= frames /\ cand(x) >= x.base
    <3>1. cand(x) \in Int
      BY <2>4, <1>6, Zenon
    <3> HIDE DEF cand
    <3>2. QED
      BY <3>1, <2>5, <2>6, <2>7, <2>8, SMTT(60)
  <2> HIDE DEF cand
  <2>10. QED
    BY <2>4, <2>6, <2>8, <2>9, Zenon
<1>9. PICK b \in Nat : \A i \in 1 .. Len(h) : End(h[i]) <= b
  BY <1>2, ListBound, Zenon
<1> HIDE DEF cand
<1>10. ASSUME NEW c \in cands(h) PROVE c \in Int /\ c <= b
  <2>1. PICK x \in Range(h) : c = cand(x)
    OBVIOUS
  <2>2. PICK j \in 1 .. Len(h) : x = h[j]
    BY <1>5, Zenon
  <2>3. End(x) \in Nat /\ End(x) <= b
    BY <2>2, <1>4, <1>9, RegionFacts, Zenon
  <2>4. c \in Int /\ c <= End(x) - frames
    BY <2>1, <1>6, Zenon
  <2>5. QED
    BY <2>3, <2>4
<1>11. PICK C, F : C = cands(h) /\ F = fits
  BY Zenon
<1> HIDE DEF cands, fits
<1>12. /\ C \subseteq F /\ \A p \in F : p \in Int /\ \E c \in C : p <= c
       /\ \A c \in C : c \in Int /\ c <= b
  BY <1>7, <1>8, <1>10, <1>11
<1>13. Best(mem, res, frames, align) = IF C = {} THEN None ELSE Max(C)
  BY <1>3, <1>11, Zenon
<1>14. CASE F = {}
  <2>1. C = {}
    BY <1>12, <1>14
  <2>2. QED
    BY <2>1, <1>11, <1>13, <1>14, Zenon DEF fits
<1>15. CASE F # {}
  <2>1. C # {}
    BY <1>12, <1>15
  <2>2. Max(C) \in C /\ \A c \in C : c <= Max(C)
    BY <2>1, <1>12, MaxOf
  <2>3. \A p \in F : p <= b
    BY <1>12
  <2>4. Max(F) \in F /\ \A p \in F : p <= Max(F)
    BY <2>3, <1>12, <1>15, MaxOf
  <2>5. Max(C) = Max(F)
    <3>1. Max(C) <= Max(F)
      BY <2>2, <2>4, <1>12
    <3>2. PICK c \in C : Max(F) <= c
      BY <2>4, <1>12
    <3>3. Max(F) <= Max(C)
      BY <3>2, <2>2, <2>4, <1>12
    <3>4. QED
      BY <3>1, <3>3, <2>2, <2>4, <1>12
  <2>6. QED
    BY <2>1, <2>4, <2>5, <1>11, <1>13, <1>15, Zenon DEF fits
<1>16. QED
  BY <1>14, <1>15, Zenon

\* Rounding a byte address down and up to frames.
LEMMA FloorCeil ==
    ASSUME NEW s \in Nat, s >= 1, NEW a \in Nat
    PROVE  /\ a \div s \in Nat /\ DivCeil(a, s) \in Nat
           /\ \A f \in Int : a \div s <= f <=> a < (f + 1) * s
           /\ \A f \in Int : DivCeil(a, s) <= f <=> a <= f * s
<1>1. ASSUME NEW x \in Nat
      PROVE  x \div s \in Nat /\ \A f \in Int : x \div s <= f <=> x < (f + 1) * s
  <2>0. x \in Int
    OBVIOUS
  <2>1. PICK c, r : c = x \div s /\ r = x % s /\ x = s * c + r /\ r \in 0 .. s - 1 /\ c \in Int
    BY <2>0, DivMod, Zenon
  <2>2. c >= 0
    <3> SUFFICES ASSUME c <= -1 PROVE FALSE
      BY <2>1
    <3>1. s * c <= -s
      BY <2>1
    <3>2. QED
      BY <3>1, <2>1
  <2>3. ASSUME NEW f \in Int PROVE c <= f <=> x < (f + 1) * s
    <3>1. ASSUME c <= f PROVE x < (f + 1) * s
      <4>1. s * c <= s * f
        BY <3>1, <2>1
      <4>2. (f + 1) * s = s * f + s
        OBVIOUS
      <4>3. QED
        BY <4>1, <4>2, <2>1
    <3>2. ASSUME c > f PROVE ~(x < (f + 1) * s)
      <4>1. s * c >= s * (f + 1)
        BY <3>2, <2>1
      <4>2. (f + 1) * s = s * (f + 1)
        OBVIOUS
      <4>3. QED
        BY <4>1, <4>2, <2>1
    <3>3. QED
      BY <3>1, <3>2, <2>1
  <2>4. QED
    BY <2>1, <2>2, <2>3
<1>2. a + s - 1 \in Nat
  OBVIOUS
<1>3. PICK c : c = DivCeil(a, s)
  OBVIOUS
<1>4. c \in Nat /\ \A f \in Int : c <= f <=> a + s - 1 < (f + 1) * s
  BY <1>1, <1>2, <1>3 DEF DivCeil
<1>5. ASSUME NEW f \in Int PROVE c <= f <=> a <= f * s
  <2>1. PICK w \in Int : w = f * s /\ (f + 1) * s = w + s
    OBVIOUS
  <2>2. c <= f <=> a + s - 1 < w + s
    BY <1>4, <2>1
  <2>3. QED
    BY <2>1, <2>2
<1>6. QED
  BY <1>1, <1>3, <1>4, <1>5

\* The bytes of a frame, none of them another frame's.
LEMMA ByteFacts ==
    ASSUME NEW f \in Int
    PROVE  /\ f * PageSize \in Int /\ (f + 1) * PageSize \in Int
           /\ f * PageSize < (f + 1) * PageSize
           /\ f * PageSize \in BytesOf(f)
           /\ \A x : x \in BytesOf(f) <=> x \in Int /\ f * PageSize <= x /\ x < (f + 1) * PageSize
<1>1. PICK a \in Int, s \in Nat : a = f * PageSize /\ s = PageSize /\ s >= 1 /\ (f + 1) * PageSize = a + s
  BY BootMemAssumption
<1>2. BytesOf(f) = a .. a + s - 1
  BY <1>1 DEF BytesOf
<1>3. QED
  BY <1>1, <1>2

\* Rounded inward, a byte range gives the frames that lie wholly in it.
LEMMA RoundedInward ==
    ASSUME NEW a \in Nat, NEW b \in Nat, NEW f \in Int
    PROVE  DivCeil(a, PageSize) <= f /\ f < b \div PageSize <=> BytesOf(f) \subseteq a .. b - 1
<1>1. PICK s \in Nat : s = PageSize /\ s >= 1
  BY BootMemAssumption
<1>2. PICK lo, hi : lo = f * s /\ hi = (f + 1) * s
  OBVIOUS
<1>3. PICK c, d : c = DivCeil(a, s) /\ d = b \div s
  OBVIOUS
<1>4. c \in Nat /\ d \in Nat /\ (c <= f <=> a <= lo) /\ (d <= f <=> b < hi)
  BY <1>1, <1>2, <1>3, FloorCeil, Zenon
<1>5. /\ lo \in Int /\ hi \in Int /\ lo < hi
      /\ \A x : x \in BytesOf(f) <=> x \in Int /\ lo <= x /\ x < hi
  BY <1>1, <1>2, ByteFacts
<1>6. c <= f /\ f < d <=> a <= lo /\ hi <= b
  BY <1>4, <1>5
<1>7. BytesOf(f) \subseteq a .. b - 1 <=> a <= lo /\ hi <= b
  <2>1. ASSUME a <= lo, hi <= b PROVE BytesOf(f) \subseteq a .. b - 1
    BY <1>5, <2>1
  <2>2. ASSUME BytesOf(f) \subseteq a .. b - 1 PROVE a <= lo /\ hi <= b
    <3>1. lo \in BytesOf(f) /\ hi - 1 \in BytesOf(f)
      BY <1>5
    <3>2. lo \in a .. b - 1 /\ hi - 1 \in a .. b - 1
      BY <3>1, <2>2
    <3>3. QED
      BY <3>2, <1>5
  <2>3. QED
    BY <2>1, <2>2
<1>8. QED
  BY <1>1, <1>3, <1>6, <1>7

\* Rounded outward, a byte range gives the frames that share a byte with it.
LEMMA RoundedOutward ==
    ASSUME NEW a \in Nat, NEW b \in Nat, a < b, NEW f \in Int
    PROVE  a \div PageSize <= f /\ f < DivCeil(b, PageSize)
             <=> BytesOf(f) \cap (a .. b - 1) # {}
<1>1. PICK s \in Nat : s = PageSize /\ s >= 1
  BY BootMemAssumption
<1>2. PICK lo, hi : lo = f * s /\ hi = (f + 1) * s
  OBVIOUS
<1>3. PICK c, d : c = a \div s /\ d = DivCeil(b, s)
  OBVIOUS
<1>4. c \in Nat /\ d \in Nat /\ (c <= f <=> a < hi) /\ (d <= f <=> b <= lo)
  BY <1>1, <1>2, <1>3, FloorCeil, Zenon
<1>5. /\ lo \in Int /\ hi \in Int /\ lo < hi
      /\ \A x : x \in BytesOf(f) <=> x \in Int /\ lo <= x /\ x < hi
  BY <1>1, <1>2, ByteFacts, Zenon
<1>6. c <= f /\ f < d <=> a < hi /\ lo < b
  BY <1>4, <1>5
<1>7. BytesOf(f) \cap (a .. b - 1) # {} <=> a < hi /\ lo < b
  <2>1. ASSUME a < hi, lo < b PROVE BytesOf(f) \cap (a .. b - 1) # {}
    <3>1. CASE a <= lo
      <4>1. lo \in BytesOf(f) /\ lo \in a .. b - 1
        BY <1>5, <2>1, <3>1
      <4>2. QED
        BY <4>1
    <3>2. CASE lo < a
      <4>1. a \in BytesOf(f) /\ a \in a .. b - 1
        BY <1>5, <2>1, <3>2
      <4>2. QED
        BY <4>1
    <3>3. QED
      BY <3>1, <3>2, <1>5
  <2>2. ASSUME BytesOf(f) \cap (a .. b - 1) # {} PROVE a < hi /\ lo < b
    <3>1. PICK x : x \in BytesOf(f) /\ x \in a .. b - 1
      BY <2>2
    <3>2. QED
      BY <3>1, <1>5
  <2>3. QED
    BY <2>1, <2>2
<1>8. QED
  BY <1>1, <1>3, <1>6, <1>7

\* The inductive invariant: the lists hold regions of at least one frame;
\* `reserved' is sorted, which for_each_free's single pass relies on; `memory'
\* regions share no frame and lie in RAM; and exactly the frames that hold a
\* byte to be kept, or were allocated, are reserved.
BootInv ==
    /\ memory \in Seq(Regions) /\ reserved \in Seq(Regions) /\ allocs \in Seq(Regions)
    /\ Sorted(reserved) /\ Disjoint(memory)
    /\ \A f \in AllFrames(memory) : BytesOf(f) \subseteq ram
    /\ \A f \in Int : f \in AllFrames(reserved) <=>
                         BytesOf(f) \cap kept # {} \/ f \in AllFrames(allocs)

\* The frames of a list of regions are natural numbers.
LEMMA FramesAreNat ==
    ASSUME NEW s \in Seq(Regions), NEW f, f \in AllFrames(s)
    PROVE  f \in Nat
<1>1. PICK i \in 1 .. Len(s) : f \in FramesOf(s[i])
  BY FrameOfList
<1>2. s[i] \in Regions
  BY ElementOfSeq
<1>3. QED
  BY <1>1, <1>2, RegionFacts

\* Nothing is registered at first.
LEMMA InitBootInv == Init => BootInv
<1> SUFFICES ASSUME Init PROVE BootInv
  OBVIOUS
<1>1. /\ memory = <<>> /\ reserved = <<>> /\ allocs = <<>> /\ ram = {} /\ kept = {}
  BY DEF Init
<1>2. <<>> \in Seq(Regions) /\ Len(<<>>) = 0
  OBVIOUS
<1>3. \A f : f \notin AllFrames(<<>>)
  BY <1>2, FrameOfList
<1>4. Sorted(<<>>) /\ Disjoint(<<>>)
  BY <1>2 DEF Sorted, Disjoint
<1>5. QED
  BY <1>1, <1>2, <1>3, <1>4, Zenon DEF BootInv

\* A panic keeps the invariant: it changes nothing but panicked.
LEMMA PanicKeeps ==
    ASSUME BootInv, Panic
    PROVE  BootInv' /\ panicked'
<1>1. /\ memory' = memory /\ reserved' = reserved /\ ram' = ram /\ kept' = kept
      /\ allocs' = allocs /\ panicked'
  BY Zenon DEF Panic
<1>2. QED
  BY <1>1, Zenon DEF BootInv, AllFrames, Sorted, Disjoint

\* add_memory_bytes keeps the invariant, and adds the frames that lie wholly in
\* the range.
LEMMA AddMemoryKeeps ==
    ASSUME BootInv, NEW a \in Nat, NEW b \in Nat, AddMemoryBytes(a, b)
    PROVE  /\ BootInv'
           /\ panicked' \/ \A f \in Int : f \in AllFrames(memory)' <=>
                  f \in AllFrames(memory) \/ BytesOf(f) \subseteq a .. b - 1
<1>1. PICK lo, hi : lo = DivCeil(a, PageSize) /\ hi = b \div PageSize
  OBVIOUS
<1>2. lo \in Nat /\ hi \in Nat
  <2>1. PageSize \in Nat /\ PageSize >= 1
    BY BootMemAssumption
  <2>2. QED
    BY <1>1, <2>1, FloorCeil
<1>3. \A f \in Int : lo <= f /\ f < hi <=> BytesOf(f) \subseteq a .. b - 1
  BY <1>1, RoundedInward
<1>4. \/ Panic
      \/ /\ memory' = IF hi > lo THEN Append(memory, Region(lo, hi - lo)) ELSE memory
         /\ ram' = ram \cup (a .. b - 1) /\ ram \cap (a .. b - 1) = {}
         /\ UNCHANGED <<reserved, panicked, kept, allocs>>
  BY <1>1 DEF AddMemoryBytes
<1>5. CASE Panic
  BY <1>5, PanicKeeps, Zenon
<1>6. CASE /\ memory' = IF hi > lo THEN Append(memory, Region(lo, hi - lo)) ELSE memory
           /\ ram' = ram \cup (a .. b - 1) /\ ram \cap (a .. b - 1) = {}
           /\ UNCHANGED <<reserved, panicked, kept, allocs>>
  <2>0. memory \in Seq(Regions) /\ Disjoint(memory)
    BY DEF BootInv
  <2>1. /\ memory' \in Seq(Regions) /\ Disjoint(memory')
        /\ \A f : f \in AllFrames(memory') <=>
                     f \in AllFrames(memory) \/ (f \in Int /\ lo <= f /\ f < hi)
    <3>1. CASE hi > lo
      <4>1. PICK r : r = Region(lo, hi - lo)
        OBVIOUS
      <4>2. r \in Regions /\ \A f : f \in FramesOf(r) <=> f \in Int /\ lo <= f /\ f < hi
        BY <3>1, <4>1, <1>2, RegionBetween, Zenon
      <4>3. AllFrames(memory) \cap FramesOf(r) = {}
        <5> SUFFICES ASSUME NEW f, f \in AllFrames(memory), f \in FramesOf(r) PROVE FALSE
          OBVIOUS
        <5>1. f \in Int /\ BytesOf(f) \subseteq a .. b - 1
          BY <4>2, <1>3
        <5>2. BytesOf(f) \subseteq ram
          BY DEF BootInv
        <5>3. f * PageSize \in BytesOf(f)
          BY <5>1, ByteFacts
        <5>4. QED
          BY <5>1, <5>2, <5>3, <1>6
      <4>4. memory' = Append(memory, r)
        BY <1>6, <3>1, <4>1
      <4>5. /\ Append(memory, r) \in Seq(Regions) /\ Disjoint(Append(memory, r))
            /\ AllFrames(Append(memory, r)) = AllFrames(memory) \cup FramesOf(r)
        BY <2>0, <4>2, <4>3, AppendRegion, Zenon
      <4>6. AllFrames(memory') = AllFrames(memory) \cup FramesOf(r)
        BY <4>4, <4>5, Zenon
      <4>7. memory' \in Seq(Regions) /\ Disjoint(memory')
        BY <4>4, <4>5, Zenon
      <4>8. QED
        BY <4>2, <4>6, <4>7
    <3>2. CASE ~(hi > lo)
      <4>1. memory' = memory
        BY <1>6, <3>2
      <4>2. \A f : ~(f \in Int /\ lo <= f /\ f < hi)
        BY <3>2, <1>2
      <4>3. QED
        BY <2>0, <4>1, <4>2
    <3>3. QED
      BY <3>1, <3>2
  <2>2. ASSUME NEW f \in AllFrames(memory') PROVE BytesOf(f) \subseteq ram'
    <3>1. CASE f \in AllFrames(memory)
      <4>1. BytesOf(f) \subseteq ram
        BY <3>1 DEF BootInv
      <4>2. QED
        BY <4>1, <1>6
    <3>2. CASE f \in Int /\ lo <= f /\ f < hi
      <4>1. BytesOf(f) \subseteq a .. b - 1
        BY <3>2, <1>3
      <4>2. QED
        BY <4>1, <1>6
    <3>3. QED
      BY <3>1, <3>2, <2>1
  <2>3. AllFrames(memory)' = AllFrames(memory')
    BY DEF AllFrames
  <2>4. BootInv'
    <3>1. /\ memory' \in Seq(Regions) /\ Disjoint(memory)'
      BY <2>1, Zenon DEF Disjoint
    <3>2. reserved' = reserved /\ kept' = kept /\ allocs' = allocs
      BY <1>6
    <3>3. reserved' \in Seq(Regions) /\ allocs' \in Seq(Regions) /\ Sorted(reserved)'
      BY <3>2, Zenon DEF BootInv, Sorted
    <3>4. \A f \in Int : f \in AllFrames(reserved)' <=>
                         BytesOf(f) \cap kept' # {} \/ f \in AllFrames(allocs)'
      BY <3>2, Zenon DEF BootInv, AllFrames
    <3>5. \A f \in AllFrames(memory)' : BytesOf(f) \subseteq ram'
      BY <2>2, <2>3
    <3>6. QED
      BY <3>1, <3>3, <3>4, <3>5, Zenon DEF BootInv
  <2>5. ASSUME NEW f \in Int
        PROVE  f \in AllFrames(memory)' <=> f \in AllFrames(memory) \/ BytesOf(f) \subseteq a .. b - 1
    BY <2>1, <2>3, <1>3
  <2>6. QED
    BY <2>4, <2>5
<1>7. QED
  BY <1>4, <1>5, <1>6, Zenon

\* reserve, whatever region it is given.
LEMMA ReserveKeeps ==
    ASSUME BootInv, NEW r \in Regions, reserved' = Insert(reserved, r)
    PROVE  /\ reserved' \in Seq(Regions) /\ Sorted(reserved')
           /\ \A f \in Int : f \in AllFrames(reserved') <=> \/ BytesOf(f) \cap kept # {}
                                                          \/ f \in AllFrames(allocs)
                                                          \/ f \in FramesOf(r)
<1>1. reserved \in Seq(Regions) /\ Sorted(reserved)
  BY DEF BootInv
<1>2. /\ reserved' \in Seq(Regions) /\ Sorted(reserved')
      /\ AllFrames(reserved') = AllFrames(reserved) \cup FramesOf(r)
  BY <1>1, InsertReserves, Zenon
<1>3. \A f : f \in AllFrames(reserved') <=> f \in AllFrames(reserved) \/ f \in FramesOf(r)
  BY <1>2
<1>4. \A f \in Int : f \in AllFrames(reserved) <=>
                         BytesOf(f) \cap kept # {} \/ f \in AllFrames(allocs)
  BY DEF BootInv
<1>5. QED
  BY <1>2, <1>3, <1>4, Zenon

\* reserve_bytes keeps the invariant.
LEMMA ReserveBytesKeeps ==
    ASSUME BootInv, NEW a \in Nat, NEW b \in Nat, a < b, ReserveBytes(a, b)
    PROVE  BootInv'
<1>1. PICK lo, hi : lo = a \div PageSize /\ hi = DivCeil(b, PageSize)
  OBVIOUS
<1>2. /\ lo \in Nat /\ hi \in Nat
      /\ \A f \in Int : lo <= f /\ f < hi <=> BytesOf(f) \cap (a .. b - 1) # {}
  <2>1. PageSize \in Nat /\ PageSize >= 1
    BY BootMemAssumption
  <2>2. lo \in Nat /\ hi \in Nat
    BY <1>1, <2>1, FloorCeil
  <2>3. QED
    BY <1>1, <2>2, RoundedOutward
<1>3. lo < hi
  <2>1. PICK s \in Nat : s = PageSize /\ s >= 1
    BY BootMemAssumption
  <2>2. a < (lo + 1) * s
    BY <1>1, <1>2, <2>1, FloorCeil
  <2>3. lo * s <= a
    <3>1. lo - 1 \in Int /\ ~(lo <= lo - 1) /\ (lo - 1) + 1 = lo
      BY <1>2
    <3>2. \A f \in Int : a \div s <= f <=> a < (f + 1) * s
      BY <2>1, FloorCeil, Zenon
    <3>3. ~(a < ((lo - 1) + 1) * s)
      BY <3>1, <3>2, <1>1, <2>1
    <3>4. ~(a < lo * s)
      BY <3>1, <3>3
    <3>5. QED
      BY <3>4, <1>2, <2>1
  <2>4. ~(b <= lo * s)
    BY <2>3, <1>2, <2>1
  <2>5. ~(hi <= lo)
    <3>1. \A f \in Int : DivCeil(b, s) <= f <=> b <= f * s
      BY <2>1, FloorCeil
    <3>2. hi <= lo <=> b <= lo * s
      BY <3>1, <1>1, <1>2, <2>1
    <3>3. QED
      BY <3>2, <2>4
  <2>6. QED
    BY <2>5, <1>2
<1>4. \/ Panic
      \/ /\ reserved' = Insert(reserved, Region(lo, hi - lo))
         /\ kept' = kept \cup (a .. b - 1)
         /\ UNCHANGED <<memory, panicked, ram, allocs>>
  BY <1>1 DEF ReserveBytes
<1>5. CASE Panic
  BY <1>5, PanicKeeps, Zenon
<1>6. CASE /\ reserved' = Insert(reserved, Region(lo, hi - lo))
           /\ kept' = kept \cup (a .. b - 1)
           /\ UNCHANGED <<memory, panicked, ram, allocs>>
  <2>1. PICK r : r = Region(lo, hi - lo)
    OBVIOUS
  <2>2. r \in Regions /\ \A f : f \in FramesOf(r) <=> f \in Int /\ lo <= f /\ f < hi
    BY <2>1, <1>2, <1>3, RegionBetween, Zenon
  <2>3. reserved' = Insert(reserved, r)
    BY <1>6, <2>1
  <2>4. /\ reserved' \in Seq(Regions) /\ Sorted(reserved')
        /\ \A f \in Int : f \in AllFrames(reserved') <=> \/ BytesOf(f) \cap kept # {}
                                                       \/ f \in AllFrames(allocs)
                                                       \/ f \in FramesOf(r)
    BY <2>2, <2>3, ReserveKeeps
  <2>5. \A f \in Int : BytesOf(f) \cap kept' # {} <=>
                         BytesOf(f) \cap kept # {} \/ f \in FramesOf(r)
    <3> TAKE f \in Int
    <3>1. f \in FramesOf(r) <=> BytesOf(f) \cap (a .. b - 1) # {}
      BY <2>2, <1>2
    <3>2. BytesOf(f) \cap kept' = (BytesOf(f) \cap kept) \cup (BytesOf(f) \cap (a .. b - 1))
      BY <1>6, Zenon
    <3>3. QED
      BY <3>1, <3>2
  <2>6. memory' = memory /\ ram' = ram /\ allocs' = allocs
    BY <1>6
  <2>7. \A f \in Int : f \in AllFrames(reserved') <=>
                         BytesOf(f) \cap kept' # {} \/ f \in AllFrames(allocs)
    BY <2>4, <2>5, Zenon
  <2>8. \A f \in Int : f \in AllFrames(reserved)' <=>
                         BytesOf(f) \cap kept' # {} \/ f \in AllFrames(allocs)'
    BY <2>6, <2>7, Zenon DEF AllFrames
  <2>9. /\ memory' \in Seq(Regions) /\ allocs' \in Seq(Regions) /\ Disjoint(memory)'
        /\ \A f \in AllFrames(memory)' : BytesOf(f) \subseteq ram'
    BY <2>6, Zenon DEF BootInv, Disjoint, AllFrames
  <2>10. Sorted(reserved)'
    BY <2>4 DEF Sorted
  <2>11. QED
    BY <2>4, <2>8, <2>9, <2>10, Zenon DEF BootInv
<1>7. QED
  BY <1>4, <1>5, <1>6

\* alloc keeps the invariant, and takes frames that were free.
LEMMA AllocKeeps ==
    ASSUME BootInv, NEW frames \in Nat \ {0}, NEW align \in Nat \ {0}, Alloc(frames, align)
    PROVE  /\ BootInv'
           /\ \/ UNCHANGED vars /\ Best(memory, reserved, frames, align) = None
              \/ Panic
              \/ /\ \E r \in Regions : /\ r.frames = frames /\ FramesOf(r) \subseteq FreeFrames
                                       /\ allocs' = Append(allocs, r)
                 /\ UNCHANGED <<memory, panicked, ram, kept>>
<1>1. PICK base : base = Best(memory, reserved, frames, align)
  OBVIOUS
<1>2. \/ UNCHANGED vars /\ base = None
      \/ Panic
      \/ /\ base # None
         /\ reserved' = Insert(reserved, Region(base, frames))
         /\ allocs' = Append(allocs, Region(base, frames))
         /\ UNCHANGED <<memory, panicked, ram, kept>>
  BY <1>1 DEF Alloc
<1>3. CASE UNCHANGED vars /\ base = None
  BY <1>1, <1>3, ZenonT(60) DEF vars, BootInv, AllFrames, Sorted, Disjoint
<1>4. CASE Panic
  BY <1>4, PanicKeeps, Zenon
<1>5. CASE /\ base # None
           /\ reserved' = Insert(reserved, Region(base, frames))
           /\ allocs' = Append(allocs, Region(base, frames))
           /\ UNCHANGED <<memory, panicked, ram, kept>>
  <2>1. memory \in Seq(Regions) /\ reserved \in Seq(Regions) /\ Sorted(reserved) /\ Disjoint(memory)
    BY DEF BootInv
  <2>2. base \in Fits(memory, reserved, frames, align)
    BY <2>1, <1>1, <1>5, BestIsHighest, SMTT(60)
  <2>3. base \in FreeFrames /\ base .. base + frames - 1 \subseteq FreeFrames
    BY <2>2, Zenon DEF Fits, FreeFrames
  <2>4. base \in Nat
    BY <2>1, <2>3, FramesAreNat, Zenon DEF FreeFrames
  <2>5. PICK r : r = Region(base, frames)
    OBVIOUS
  <2>6. r \in Regions /\ r.frames = frames /\ FramesOf(r) = base .. base + frames - 1
    BY <2>4, <2>5 DEF Region, Regions, FramesOf, End
  <2>7. /\ reserved' \in Seq(Regions) /\ Sorted(reserved')
        /\ \A f \in Int : f \in AllFrames(reserved') <=> \/ BytesOf(f) \cap kept # {}
                                                       \/ f \in AllFrames(allocs)
                                                       \/ f \in FramesOf(r)
    BY <2>5, <2>6, <1>5, ReserveKeeps, Zenon
  <2>8. allocs' \in Seq(Regions) /\ AllFrames(allocs') = AllFrames(allocs) \cup FramesOf(r)
    <3>1. allocs \in Seq(Regions)
      BY DEF BootInv
    <3>2. allocs' = Append(allocs, r)
      BY <1>5, <2>5
    <3>3. Append(allocs, r) \in Seq(Regions) /\ AllFrames(Append(allocs, r)) = AllFrames(allocs) \cup FramesOf(r)
      BY <3>1, <2>6, AppendRegion, Zenon
    <3>4. QED
      BY <3>2, <3>3, Zenon
  <2>9. memory' = memory /\ ram' = ram /\ kept' = kept
    BY <1>5
  <2>10. \A f \in Int : f \in AllFrames(reserved') <=>
                         BytesOf(f) \cap kept # {} \/ f \in AllFrames(allocs')
    BY <2>7, <2>8
  <2>11. \A f \in Int : f \in AllFrames(reserved)' <=>
                         BytesOf(f) \cap kept' # {} \/ f \in AllFrames(allocs)'
    BY <2>9, <2>10, Zenon DEF AllFrames
  <2>12. /\ memory' \in Seq(Regions) /\ Disjoint(memory)'
         /\ \A f \in AllFrames(memory)' : BytesOf(f) \subseteq ram'
    BY <2>9, Zenon DEF BootInv, Disjoint, AllFrames
  <2>13. Sorted(reserved)'
    BY <2>7, Zenon DEF Sorted
  <2>14. BootInv'
    BY <2>7, <2>8, <2>11, <2>12, <2>13, Zenon DEF BootInv
  <2>15. QED
    BY <2>3, <2>5, <2>6, <2>14, <1>5, Zenon
<1>6. QED
  BY <1>2, <1>3, <1>4, <1>5, Zenon

\* Every step keeps the invariant.
LEMMA NextBootInv == BootInv /\ [Next]_vars => BootInv'
<1> SUFFICES ASSUME BootInv, [Next]_vars PROVE BootInv'
  OBVIOUS
<1>1. ASSUME NEW a \in MemoryArgs, AddMemoryBytes(a[1], a[2]) PROVE BootInv'
  <2>1. a[1] \in Nat /\ a[2] \in Nat
    BY BootMemAssumption
  <2>2. QED
    BY <1>1, <2>1, AddMemoryKeeps
<1>2. ASSUME NEW a \in ReserveArgs, ReserveBytes(a[1], a[2]) PROVE BootInv'
  <2>1. a[1] \in Nat /\ a[2] \in Nat /\ a[1] < a[2]
    BY BootMemAssumption
  <2>2. QED
    BY <1>2, <2>1, ReserveBytesKeeps
<1>3. ASSUME NEW a \in AllocArgs, Alloc(a[1], a[2]) PROVE BootInv'
  <2>1. a[1] \in Nat \ {0} /\ a[2] \in Nat \ {0}
    BY BootMemAssumption
  <2>2. QED
    BY <1>3, <2>1, AllocKeeps
<1>4. CASE UNCHANGED vars
  BY <1>4, ZenonT(60) DEF vars, BootInv, AllFrames, Sorted, Disjoint
<1>5. QED
  BY <1>1, <1>2, <1>3, <1>4 DEF Next

\* What the invariant gives: the gaps are exact.
LEMMA GivesHolesExact == BootInv => HolesExact
<1> SUFFICES ASSUME BootInv PROVE HolesExact
  OBVIOUS
<1>1. PICK h : h = Holes(memory, reserved)
  OBVIOUS
<1>2. IsHoles(h, memory, Len(memory), reserved)
  BY <1>1, HolesAreExact DEF BootInv
<1>3. \A f : f \in AllFrames(memory) <=> \E i \in 1 .. Len(memory) : f \in FramesOf(memory[i])
  BY FrameOfList, Zenon
<1>4. \A f : f \in AllFrames(h) <=> f \in FreeFrames
  BY <1>2, <1>3, Zenon DEF IsHoles, FreeFrames
<1>5. \A i \in 1 .. Len(h) : h[i].frames >= 1
  <2> TAKE i \in 1 .. Len(h)
  <2>1. h[i] \in Regions
    BY <1>2, ElementOfSeq, Zenon DEF IsHoles
  <2>2. QED
    BY <2>1, RegionFacts, Zenon
<1>6. AllFrames(h) = FreeFrames
  BY <1>4
<1>7. \A i, j \in 1 .. Len(h) : i # j => FramesOf(h[i]) \cap FramesOf(h[j]) = {}
  BY <1>2, Zenon DEF IsHoles, Disjoint
<1>8. QED
  BY <1>1, <1>5, <1>6, <1>7, Zenon DEF HolesExact

\* ... free frames are usable ...
LEMMA GivesFreeIsUsable == BootInv => FreeIsUsable
<1> SUFFICES ASSUME BootInv, NEW f \in FreeFrames PROVE BytesOf(f) \subseteq ram \ kept
  BY DEF FreeIsUsable
<1>1. f \in AllFrames(memory) /\ f \notin AllFrames(reserved)
  BY DEF FreeFrames
<1>2. f \in Int
  <2>1. f \in Nat
    BY <1>1, FramesAreNat DEF BootInv
  <2>2. QED
    BY <2>1
<1>3. BytesOf(f) \subseteq ram /\ BytesOf(f) \cap kept = {}
  BY <1>1, <1>2 DEF BootInv
<1>4. QED
  BY <1>3

\* ... and alloc takes the highest fit.
LEMMA GivesAllocHighest == BootInv => AllocHighest
<1> SUFFICES ASSUME BootInv, NEW a \in AllocArgs
             PROVE  LET fits == Fits(memory, reserved, a[1], a[2])
                    IN  Best(memory, reserved, a[1], a[2]) = IF fits = {} THEN None ELSE Max(fits)
  BY Zenon DEF AllocHighest, Fits, FreeFrames
<1>1. a[1] \in Nat \ {0} /\ a[2] \in Nat \ {0}
  BY BootMemAssumption
<1>2. QED
  BY <1>1, BestIsHighest, Zenon DEF BootInv

\* The inductive invariant holds of the boot allocator.
THEOREM BootInvariance == Spec => []BootInv
<1>1. QED
  BY InitBootInv, NextBootInv, PTL DEF Spec

\* In whatever order bootmem.rs is called, and however the reserved regions
\* overlap: the one pass of for_each_free yields every free frame, once.
THEOREM HolesStayExact == Spec => []HolesExact
<1>1. QED
  BY BootInvariance, GivesHolesExact, PTL

\* What it yields is whole pages of RAM that hold no byte to be kept.
THEOREM FreeStaysUsable == Spec => []FreeIsUsable
<1>1. QED
  BY BootInvariance, GivesFreeIsUsable, PTL

\* alloc returns the highest aligned run free within one memory region.
THEOREM AllocIsHighest == Spec => []AllocHighest
<1>1. QED
  BY BootInvariance, GivesAllocHighest, PTL

-----------------------------------------------------------------------------
(* Handoff.                                                                *)

\* What the memory lists of the device tree say, for one of its regions.
LEMMA ListFacts ==
    ASSUME NEW l \in MemoryLists
    PROVE  /\ Len(l) \in Nat
           /\ \A i \in 1 .. Len(l) : l[i][1] \in Nat /\ l[i][2] \in Nat
           /\ Len(l) = 0 \/ \E i \in 1 .. Len(l) : Bytes(Image) \subseteq Bytes(l[i])
<1>1. l \in Seq(Nat \X Nat)
  BY HandoffAssumption, Zenon
<1>2. Len(l) \in Nat /\ \A i \in 1 .. Len(l) : l[i] \in Nat \X Nat
  BY <1>1, ElementOfSeq
<1>3. Len(l) = 0 \/ \E i \in 1 .. Len(l) : Bytes(Image) \subseteq Bytes(l[i])
  BY HandoffAssumption, Zenon
<1>4. QED
  BY <1>2, <1>3, Zenon

\* The image, .boot.bss and the device tree are byte ranges that are not empty.
LEMMA RangeFacts ==
    ASSUME NEW a \in {Image, BootBss} \cup Dtbs
    PROVE  a[1] \in Nat /\ a[2] \in Nat /\ a[1] < a[2]
BY HandoffAssumption, Zenon

\* .boot.bss takes whole frames: those that share a byte with it lie in it.
LEMMA BssFrames ==
    \E c, d \in Nat :
        /\ c < d /\ c = BootBss[1] \div PageSize
        /\ (BootBss[2] - BootBss[1]) \div PageSize = d - c
        /\ \A f \in Int : c <= f /\ f < d <=> BytesOf(f) \subseteq Bytes(BootBss)
        /\ \A f \in Int : c <= f /\ f < d <=> Holds(f, BootBss)
<1>1. PICK s \in Nat : s = PageSize /\ s >= 1
  BY BootMemAssumption
<1>2. PICK a, b \in Nat : a = BootBss[1] /\ b = BootBss[2] /\ a < b /\ a % s = 0 /\ b % s = 0
  BY <1>1, RangeFacts, HandoffAssumption, Zenon
<1>3. ASSUME NEW x \in Nat, x % s = 0
      PROVE  x \div s \in Nat /\ x = s * (x \div s) /\ DivCeil(x, s) = x \div s
  <2>0. x \in Int
    OBVIOUS
  <2>1. PICK c \in Int : c = x \div s /\ x = s * c + 0
    BY <2>0, <1>1, <1>3, DivMod
  <2>2. PICK e : e = DivCeil(x, s)
    OBVIOUS
  <2>3. e \in Nat /\ c \in Nat /\ \A f \in Int : e <= f <=> x <= f * s
    BY <2>1, <2>2, <1>1, FloorCeil, Zenon
  <2>4. e <= c
    <3>1. x <= c * s
      BY <2>1
    <3>2. QED
      BY <3>1, <2>1, <2>3
  <2>5. ~(e <= c - 1)
    <3>0. c * s = x /\ c - 1 \in Int
      <4>1. c * s = s * c /\ c - 1 \in Int
        OBVIOUS
      <4>2. PICK w \in Int : w = s * c
        OBVIOUS
      <4>3. x = w
        BY <4>2, <2>1
      <4>4. QED
        BY <4>1, <4>2, <4>3
    <3>1. (c - 1) * s = x - s
      <4>1. (c - 1) * s = c * s - s
        BY <1>1, <2>1
      <4>2. QED
        BY <3>0, <4>1
    <3>2. ~(x <= (c - 1) * s)
      BY <3>1, <1>1
    <3>3. QED
      BY <3>0, <3>2, <2>3
  <2>6. e = c
    BY <2>3, <2>4, <2>5
  <2>7. QED
    BY <2>1, <2>2, <2>3, <2>6
<1>4. PICK c, d \in Nat : c = a \div s /\ d = b \div s
  BY <1>2, <1>3
<1>5. a = s * c /\ b = s * d /\ DivCeil(a, s) = c /\ DivCeil(b, s) = d
  BY <1>2, <1>3, <1>4, Zenon
<1>6. c < d
  <2> SUFFICES ASSUME d <= c PROVE FALSE
    BY <1>4
  <2>1. s * d <= s * c
    OBVIOUS
  <2>2. QED
    BY <2>1, <1>2, <1>5
<1>7. (b - a) \div s = d - c
  <2>1. b - a = s * (d - c) /\ d - c \in Int
    BY <1>4, <1>5, SMTT(60)
  <2>2. QED
    BY <2>1, <1>1, Multiple
<1>8. \A f \in Int : c <= f /\ f < d <=> BytesOf(f) \subseteq a .. b - 1
  BY <1>1, <1>4, <1>5, RoundedInward, ZenonT(60)
<1>9. \A f \in Int : c <= f /\ f < d <=> BytesOf(f) \cap (a .. b - 1) # {}
  <2> TAKE f \in Int
  <2>1. a \div s <= f /\ f < DivCeil(b, s) <=> BytesOf(f) \cap (a .. b - 1) # {}
    BY <1>1, <1>2, RoundedOutward, Zenon
  <2>2. QED
    BY <2>1, <1>4, <1>5, Zenon
<1>10. Bytes(BootBss) = a .. b - 1
  BY <1>2 DEF Bytes
<1>11. QED
  BY <1>1, <1>2, <1>4, <1>6, <1>7, <1>8, <1>9, <1>10, ZenonT(60) DEF Holds

\* ram_span covers all memory.
LEMMA SpanFacts ==
    ASSUME memory \in Seq(Regions), memory # <<>>
    PROVE  /\ Lowest \in Nat /\ Highest \in Nat /\ Lowest < Highest
           /\ \A f \in AllFrames(memory) : Lowest <= f /\ f < Highest
<1> DEFINE lows == {memory[j].base : j \in 1 .. Len(memory)}
           highs == {End(memory[j]) : j \in 1 .. Len(memory)}
<1>1. 1 \in 1 .. Len(memory)
  OBVIOUS
<1>2. \A j \in 1 .. Len(memory) :
         /\ memory[j].base \in Nat /\ End(memory[j]) \in Nat /\ memory[j].base < End(memory[j])
         /\ \A f : f \in FramesOf(memory[j]) <=> f \in Int /\ memory[j].base <= f /\ f < End(memory[j])
  <2>1. \A j \in 1 .. Len(memory) : memory[j] \in Regions
    BY ElementOfSeq
  <2>2. QED
    BY <2>1, RegionFacts, Zenon
<1>3. lows \subseteq Nat /\ lows # {} /\ highs \subseteq Nat /\ highs # {}
  BY <1>1, <1>2, Zenon
<1>4. Lowest \in lows /\ \A x \in lows : Lowest <= x
  <2> HIDE DEF lows
  <2>1. Min(lows) \in lows /\ \A x \in lows : Min(lows) <= x
    BY <1>3, MinOf, Zenon
  <2>2. QED
    BY <2>1, Zenon DEF Lowest, lows
<1>5. Highest \in highs /\ \A x \in highs : x <= Highest
  <2>1. PICK b \in Nat : \A i \in 1 .. Len(memory) : End(memory[i]) <= b
    BY ListBound
  <2>2. \A x \in highs : x <= b
    BY <2>1
  <2>3. highs \subseteq Int /\ b \in Int
    BY <1>3
  <2> HIDE DEF highs
  <2>4. Max(highs) \in highs /\ \A x \in highs : x <= Max(highs)
    BY <1>3, <2>2, <2>3, MaxOf, Zenon
  <2>5. QED
    BY <2>4, Zenon DEF Highest, highs
<1>6. Lowest \in Nat /\ Highest \in Nat
  BY <1>3, <1>4, <1>5, Zenon
<1>7. \A j \in 1 .. Len(memory) : Lowest <= memory[j].base /\ End(memory[j]) <= Highest
  BY <1>4, <1>5
<1>8. Lowest < Highest
  BY <1>1, <1>2, <1>6, <1>7
<1>9. ASSUME NEW f \in AllFrames(memory) PROVE Lowest <= f /\ f < Highest
  <2>1. PICK j \in 1 .. Len(memory) : f \in FramesOf(memory[j])
    BY FrameOfList
  <2>2. f \in Int /\ memory[j].base <= f /\ f < End(memory[j])
    BY <2>1, <1>2, Zenon
  <2>3. QED
    BY <2>2, <1>2, <1>6, <1>7
<1>10. QED
  BY <1>6, <1>8, <1>9

\* The mem-map is sized to hold one entry per frame.
LEMMA MemmapFacts ==
    ASSUME NEW nr \in Nat, nr >= 1
    PROVE  MemmapFrames(nr) \in Nat \ {0} /\ MemmapFrames(nr) * PageSize >= nr * InfoSize
<1>1. PICK s \in Nat : s = PageSize /\ s >= 1
  BY BootMemAssumption
<1>2. PICK a \in Nat : a = nr * InfoSize /\ a >= 1
  <2>1. InfoSize \in Nat /\ InfoSize >= 1
    BY HandoffAssumption
  <2>2. nr * InfoSize \in Nat /\ nr * InfoSize >= 1
    BY <2>1
  <2>3. QED
    BY <2>2
<1>3. PICK e : e = DivCeil(a, s)
  OBVIOUS
<1>4. e \in Nat /\ \A f \in Int : e <= f <=> a <= f * s
  BY <1>1, <1>3, FloorCeil
<1>5. a <= e * s
  BY <1>4
<1>6. e # 0
  BY <1>1, <1>2, <1>5
<1>7. e = MemmapFrames(nr)
  BY <1>1, <1>2, <1>3 DEF MemmapFrames
<1>8. QED
  BY <1>1, <1>2, <1>4, <1>5, <1>6, <1>7

\* The phases after the mem-map has been placed.
Placed == phase \in {"donate", "buddy", "done"}

\* The bytes reserved so far.
KeptInv ==
    ~panicked =>
        /\ phase = "memory" => kept = {}
        /\ phase = "dtb" => kept = Bytes(Image)
        /\ phase \notin {"memory", "dtb"} => kept = Bytes(Image) \cup Bytes(dtb)

\* `memory' is the whole pages of the regions added so far.
RamInv ==
    ~panicked =>
        \A f \in Int : f \in AllFrames(memory) <=>
            \E j \in 1 .. Len(regions) : /\ phase = "memory" => j < k
                                         /\ BytesOf(f) \subseteq Bytes(regions[j])

\* The mem-map spans the memory and was the one allocation, from free frames.
MemmapInv ==
    /\ ~Placed => allocs = <<>> /\ donated = <<>>
    /\ Placed /\ ~panicked =>
        /\ memory # <<>> /\ base_pfn = Lowest /\ nr_frames = Highest - Lowest
        /\ Len(allocs) = 1 /\ allocs[1].frames = MemmapFrames(nr_frames)
        /\ \A f \in FramesOf(allocs[1]) : f \in AllFrames(memory) /\ BytesOf(f) \cap kept = {}

\* The first n donations are the first n holes.
Given(n) ==
    /\ n <= Len(Holes(memory, reserved)) /\ n <= Len(donated)
    /\ \A j \in 1 .. n : LET h == Holes(memory, reserved)[j]
                         IN  donated[j] = <<PfnOf(h.base), h.frames>>

\* What free_range has been given.
DonatedInv ==
    /\ phase = "donate" /\ panicked => donated = <<>>
    /\ phase = "donate" /\ ~panicked => Len(donated) = k - 1 /\ Given(k - 1)
    /\ phase = "buddy" => ~panicked /\ Len(donated) = Len(Holes(memory, reserved)) /\ Given(Len(donated))
    /\ phase = "done" =>
        /\ ~panicked /\ Len(donated) = Len(Holes(memory, reserved)) + 1 /\ Given(Len(donated) - 1)
        /\ donated[Len(donated)] = <<PfnOf(BootBss[1] \div PageSize),
                                     (BootBss[2] - BootBss[1]) \div PageSize>>

\* The inductive invariant of the hand-off.
HandoffInv ==
    /\ BootInv
    /\ regions \in MemoryLists /\ dtb \in Dtbs /\ k \in Nat \ {0} /\ donated \in Seq(Int \X Int)
    /\ phase \in {"memory", "dtb", "span", "donate", "buddy", "done"}
    /\ phase = "memory" => k <= Len(regions) + 1
    /\ KeptInv /\ RamInv /\ MemmapInv /\ DonatedInv

\* kmain starts with nothing registered and nothing given.
LEMMA HInitInv == HInit => HandoffInv
<1> SUFFICES ASSUME HInit PROVE HandoffInv
  OBVIOUS
<1>1. BootInv
  BY InitBootInv DEF HInit
<1>2. /\ regions \in MemoryLists /\ dtb \in Dtbs /\ phase = "memory" /\ k = 1 /\ donated = <<>>
      /\ memory = <<>> /\ allocs = <<>> /\ kept = {}
  BY DEF HInit, Init
<1>3. \A f : f \notin AllFrames(memory)
  BY <1>2, FrameOfList
<1>4. Len(regions) \in Nat
  BY <1>2, ListFacts
<1>5. RamInv
  BY <1>2, <1>3, <1>4 DEF RamInv
<1>6. KeptInv /\ MemmapInv /\ DonatedInv
  BY <1>2, Zenon DEF KeptInv, MemmapInv, DonatedInv, Placed
<1>7. QED
  BY <1>1, <1>2, <1>4, <1>5, <1>6 DEF HandoffInv

\* Each region of the device tree is added.
LEMMA AddRegionInv == HandoffInv /\ AddRegion => HandoffInv'
<1> SUFFICES ASSUME HandoffInv, AddRegion PROVE HandoffInv'
  OBVIOUS
<1>1. /\ phase = "memory" /\ phase' = phase /\ k <= Len(regions) /\ k' = k + 1
      /\ regions' = regions /\ dtb' = dtb /\ donated' = donated
      /\ AddMemoryBytes(regions[k][1], regions[k][2])
  BY Zenon DEF AddRegion
<1>2. /\ BootInv /\ regions \in MemoryLists /\ dtb \in Dtbs /\ k \in Nat \ {0}
      /\ donated \in Seq(Int \X Int)
  BY DEF HandoffInv
<1>3. PICK a, b : a = regions[k][1] /\ b = regions[k][2]
  BY Zenon
<1>4. Len(regions) \in Nat /\ a \in Nat /\ b \in Nat
  BY <1>1, <1>2, <1>3, ListFacts, SMTT(60)
<1>5. /\ BootInv'
      /\ panicked' \/ \A f \in Int : f \in AllFrames(memory)' <=>
             f \in AllFrames(memory) \/ BytesOf(f) \subseteq a .. b - 1
  BY <1>1, <1>2, <1>3, <1>4, AddMemoryKeeps, Zenon
<1>6. kept' = kept /\ allocs' = allocs /\ ~panicked
  BY <1>1, Zenon DEF AddMemoryBytes, Panic
<1>7. RamInv'
  <2> SUFFICES ASSUME ~panicked', NEW f \in Int
               PROVE  f \in AllFrames(memory)' <=>
                        \E j \in 1 .. Len(regions) : j < k + 1 /\ BytesOf(f) \subseteq Bytes(regions[j])
    BY <1>1, Zenon DEF RamInv
  <2>1. f \in AllFrames(memory) <=>
           \E j \in 1 .. Len(regions) : j < k /\ BytesOf(f) \subseteq Bytes(regions[j])
    BY <1>1, <1>6, Zenon DEF HandoffInv, RamInv
  <2>2. Bytes(regions[k]) = a .. b - 1
    BY <1>3 DEF Bytes
  <2>3. f \in AllFrames(memory)' <=> f \in AllFrames(memory) \/ BytesOf(f) \subseteq Bytes(regions[k])
    BY <2>2, <1>5
  <2>4. k \in 1 .. Len(regions) /\ \A j \in 1 .. Len(regions) : j < k + 1 <=> j < k \/ j = k
    BY <1>1, <1>2, <1>4
  <2>5. QED
    BY <2>1, <2>3, <2>4, Zenon
<1>8. KeptInv' /\ MemmapInv' /\ DonatedInv'
  <2>1. KeptInv /\ MemmapInv
    BY DEF HandoffInv
  <2>2. kept = {} /\ allocs = <<>> /\ donated = <<>>
    BY <2>1, <1>1, <1>6, Zenon DEF KeptInv, MemmapInv, Placed
  <2>3. QED
    BY <2>2, <1>1, <1>6, Zenon DEF KeptInv, MemmapInv, DonatedInv, Placed
<1>9. k' \in Nat \ {0} /\ k' <= Len(regions)' + 1
  BY <1>1, <1>2, <1>4
<1>10. QED
  BY <1>1, <1>2, <1>5, <1>7, <1>8, <1>9, Zenon DEF HandoffInv

\* The image is reserved.
LEMMA ReserveImageInv == HandoffInv /\ ReserveImage => HandoffInv'
<1> SUFFICES ASSUME HandoffInv, ReserveImage PROVE HandoffInv'
  OBVIOUS
<1>1. /\ phase = "memory" /\ phase' = "dtb" /\ k > Len(regions) /\ k' = k
      /\ regions' = regions /\ dtb' = dtb /\ donated' = donated
      /\ ReserveBytes(Image[1], Image[2])
  BY DEF ReserveImage
<1>2. /\ BootInv /\ regions \in MemoryLists /\ dtb \in Dtbs /\ k \in Nat \ {0}
      /\ donated \in Seq(Int \X Int)
  BY DEF HandoffInv
<1>3. BootInv'
  BY <1>1, <1>2, RangeFacts, ReserveBytesKeeps, Zenon
<1>4. memory' = memory /\ allocs' = allocs /\ ~panicked /\ (~panicked' => kept' = kept \cup Bytes(Image))
  BY <1>1, Zenon DEF ReserveBytes, Panic, Bytes
<1>5. kept = {} /\ allocs = <<>> /\ donated = <<>>
  BY <1>1, <1>4, Zenon DEF HandoffInv, KeptInv, MemmapInv, Placed
<1>6. RamInv'
  <2>1. Len(regions) \in Nat /\ \A j \in 1 .. Len(regions) : j < k
    BY <1>1, <1>2, ListFacts
  <2>2. \A f \in Int : f \in AllFrames(memory) <=>
            \E j \in 1 .. Len(regions) : j < k /\ BytesOf(f) \subseteq Bytes(regions[j])
    BY <1>1, <1>4, Zenon DEF HandoffInv, RamInv
  <2>3. \A f \in Int : f \in AllFrames(memory) <=>
            \E j \in 1 .. Len(regions) : BytesOf(f) \subseteq Bytes(regions[j])
    BY <2>1, <2>2, Zenon
  <2>4. AllFrames(memory)' = AllFrames(memory)
    BY <1>4
  <2>5. QED
    BY <2>3, <2>4, <1>1, Zenon DEF RamInv
<1>7. KeptInv' /\ MemmapInv' /\ DonatedInv'
  BY <1>1, <1>4, <1>5, Zenon DEF KeptInv, MemmapInv, DonatedInv, Placed
<1>8. QED
  BY <1>1, <1>2, <1>3, <1>6, <1>7, Zenon DEF HandoffInv

\* The device tree is reserved.
LEMMA ReserveDtbInv == HandoffInv /\ ReserveDtb => HandoffInv'
<1> SUFFICES ASSUME HandoffInv, ReserveDtb PROVE HandoffInv'
  OBVIOUS
<1>1. /\ phase = "dtb" /\ phase' = "span" /\ k' = k
      /\ regions' = regions /\ dtb' = dtb /\ donated' = donated
      /\ ReserveBytes(dtb[1], dtb[2])
  BY DEF ReserveDtb
<1>2. /\ BootInv /\ regions \in MemoryLists /\ dtb \in Dtbs /\ k \in Nat \ {0}
      /\ donated \in Seq(Int \X Int)
  BY DEF HandoffInv
<1>3. BootInv'
  BY <1>1, <1>2, RangeFacts, ReserveBytesKeeps
<1>4. memory' = memory /\ allocs' = allocs /\ ~panicked /\ (~panicked' => kept' = kept \cup Bytes(dtb))
  BY <1>1, Zenon DEF ReserveBytes, Panic, Bytes
<1>5. kept = Bytes(Image) /\ allocs = <<>> /\ donated = <<>>
  BY <1>1, <1>4, Zenon DEF HandoffInv, KeptInv, MemmapInv, Placed
<1>6. RamInv'
  <2>1. \A f \in Int : f \in AllFrames(memory) <=>
            \E j \in 1 .. Len(regions) : BytesOf(f) \subseteq Bytes(regions[j])
    BY <1>1, <1>4, Zenon DEF HandoffInv, RamInv
  <2>2. AllFrames(memory)' = AllFrames(memory)
    BY <1>4
  <2>3. QED
    BY <2>1, <2>2, <1>1 DEF RamInv
<1>7. KeptInv' /\ MemmapInv' /\ DonatedInv'
  BY <1>1, <1>4, <1>5, Zenon DEF KeptInv, MemmapInv, DonatedInv, Placed
<1>8. QED
  BY <1>1, <1>2, <1>3, <1>6, <1>7, Zenon DEF HandoffInv

\* A step that changes neither the lists nor the history keeps bootmem's
\* invariant.
LEMMA SameLists ==
    ASSUME BootInv, UNCHANGED <<memory, reserved, ram, kept, allocs>>
    PROVE  BootInv'
BY ZenonT(60) DEF BootInv, AllFrames, Sorted, Disjoint

\* The mem-map is placed, or kmain panics.
LEMMA PlaceMemmapInv == HandoffInv /\ PlaceMemmap => HandoffInv'
<1> SUFFICES ASSUME HandoffInv, PlaceMemmap PROVE HandoffInv'
  OBVIOUS
<1>1. phase = "span" /\ ~panicked
  BY DEF PlaceMemmap
<1>2. /\ BootInv /\ regions \in MemoryLists /\ dtb \in Dtbs /\ k \in Nat \ {0}
      /\ donated \in Seq(Int \X Int) /\ allocs = <<>> /\ donated = <<>>
      /\ kept = Bytes(Image) \cup Bytes(dtb)
  BY <1>1, Zenon DEF HandoffInv, MemmapInv, KeptInv, Placed
<1>3. \A f \in Int : f \in AllFrames(memory) <=>
            \E j \in 1 .. Len(regions) : BytesOf(f) \subseteq Bytes(regions[j])
  BY <1>1 DEF HandoffInv, RamInv
<1>4. CASE Panic /\ UNCHANGED hvars
  <2>1. /\ UNCHANGED <<memory, reserved, ram, kept, allocs>> /\ panicked'
        /\ UNCHANGED <<regions, dtb, phase, k, donated>>
    BY <1>4 DEF Panic, hvars
  <2>2. BootInv'
    BY <2>1, <1>2, SameLists, Zenon
  <2>3. KeptInv' /\ RamInv' /\ MemmapInv' /\ DonatedInv'
    BY <2>1, <1>1, <1>2, Zenon DEF KeptInv, RamInv, MemmapInv, DonatedInv, Placed
  <2>4. QED
    BY <2>1, <2>2, <2>3, <1>1, <1>2, Zenon DEF HandoffInv
<1>5. CASE /\ memory # <<>>
           /\ Best(memory, reserved, MemmapFrames(Highest - Lowest), 1) # None
           /\ Alloc(MemmapFrames(Highest - Lowest), 1)
           /\ base_pfn' = Lowest /\ nr_frames' = Highest - Lowest
           /\ phase' = "donate" /\ k' = 1
           /\ UNCHANGED <<regions, dtb, donated>>
  <2>1. PICK nr : nr = Highest - Lowest
    OBVIOUS
  <2>2. nr \in Nat /\ nr >= 1
    BY <2>1, <1>2, <1>5, SpanFacts DEF BootInv
  <2>3. PICK frames \in Nat \ {0} : frames = MemmapFrames(nr)
    BY <2>2, MemmapFacts
  <2>4. Alloc(frames, 1) /\ Best(memory, reserved, frames, 1) # None
    BY <2>1, <2>3, <1>5
  <2>5. /\ BootInv'
        /\ \/ UNCHANGED vars /\ Best(memory, reserved, frames, 1) = None
           \/ Panic
           \/ /\ \E r \in Regions : /\ r.frames = frames /\ FramesOf(r) \subseteq FreeFrames
                                    /\ allocs' = Append(allocs, r)
              /\ UNCHANGED <<memory, panicked, ram, kept>>
    BY <2>4, <1>2, AllocKeeps
  <2>6. /\ phase' = "donate" /\ k' = 1 /\ regions' = regions /\ dtb' = dtb /\ donated' = donated
        /\ base_pfn' = Lowest /\ nr_frames' = nr
    BY <2>1, <1>5, Zenon
  <2>7. CASE Panic
    <3>1. panicked'
      BY <2>7 DEF Panic
    <3>2. KeptInv' /\ RamInv' /\ MemmapInv' /\ DonatedInv'
      BY <3>1, <2>6, <1>2, Zenon DEF KeptInv, RamInv, MemmapInv, DonatedInv, Placed
    <3>3. QED
      BY <3>2, <2>5, <2>6, <1>2 DEF HandoffInv
  <2>8. CASE /\ \E r \in Regions : /\ r.frames = frames /\ FramesOf(r) \subseteq FreeFrames
                                   /\ allocs' = Append(allocs, r)
             /\ UNCHANGED <<memory, panicked, ram, kept>>
    <3>1. PICK r \in Regions : /\ r.frames = frames /\ FramesOf(r) \subseteq FreeFrames
                               /\ allocs' = Append(allocs, r)
      BY <2>8
    <3>2. allocs' = <<r>> /\ Len(allocs') = 1 /\ allocs'[1] = r
      BY <3>1, <1>2
    <3>3. memory' = memory /\ kept' = kept /\ panicked' = panicked
      BY <2>8
    <3>4. ASSUME NEW f \in FramesOf(r) PROVE f \in AllFrames(memory) /\ BytesOf(f) \cap kept = {}
      <4>1. f \in AllFrames(memory) /\ f \notin AllFrames(reserved)
        BY <3>1, Zenon DEF FreeFrames
      <4>2. f \in Int
        BY RegionFacts, Zenon
      <4>3. QED
        BY <4>1, <4>2, <1>2, Zenon DEF BootInv
    <3>5. MemmapInv'
      <4>1. Lowest' = Lowest /\ Highest' = Highest /\ AllFrames(memory)' = AllFrames(memory)
        BY <3>3, Zenon DEF Lowest, Highest
      <4>2. MemmapFrames(nr_frames)' = MemmapFrames(nr)
        BY <2>6
      <4>3. allocs'[1].frames = MemmapFrames(nr)
        BY <3>1, <3>2, <2>3
      <4>4. \A f \in FramesOf(allocs'[1]) : f \in AllFrames(memory) /\ BytesOf(f) \cap kept = {}
        BY <3>2, <3>4
      <4>5. QED
        BY <4>1, <4>2, <4>3, <4>4, <3>2, <3>3, <2>1, <2>6, <1>5, Zenon DEF MemmapInv, Placed
    <3>6. KeptInv'
      BY <3>3, <2>6, <1>2, Zenon DEF KeptInv
    <3>7. RamInv'
      <4>1. AllFrames(memory)' = AllFrames(memory)
        BY <3>3
      <4>2. QED
        BY <4>1, <2>6, <1>3, Zenon DEF RamInv
    <3>8. DonatedInv'
      <4>1. Len(donated') = 0 /\ k' - 1 = 0 /\ 1 .. 0 = {}
        BY <2>6, <1>2
      <4>2. Len(Holes(memory, reserved))' \in Nat
        <5>1. IsHoles(Holes(memory, reserved)', memory', Len(memory'), reserved')
          BY <2>5, HolesAreExact, Zenon DEF BootInv
        <5>2. QED
          BY <5>1, SMTT(60) DEF IsHoles
      <4>3. Given(0)'
        BY <4>1, <4>2 DEF Given
      <4>4. QED
        BY <4>1, <4>3, <2>6, <3>3, <1>1, <1>2, Zenon DEF DonatedInv
    <3>9. QED
      BY <3>5, <3>6, <3>7, <3>8, <2>5, <2>6, <1>2, SMTT(60) DEF HandoffInv
  <2>9. QED
    BY <2>4, <2>5, <2>7, <2>8, Zenon
<1>6. QED
  BY <1>4, <1>5, Zenon DEF PlaceMemmap

\* A step that leaves bootmem and what it was called for alone.
LEMMA SameBoot ==
    ASSUME HandoffInv, UNCHANGED <<vars, regions, dtb, base_pfn, nr_frames>>,
           phase' \in {"donate", "buddy", "done"}, phase \in {"donate", "buddy", "done"}
    PROVE  /\ BootInv' /\ KeptInv' /\ RamInv' /\ MemmapInv'
           /\ Holes(memory, reserved)' = Holes(memory, reserved)
           /\ regions' \in MemoryLists /\ dtb' \in Dtbs /\ panicked' = panicked
           /\ \A x : PfnOf(x)' = PfnOf(x)
<1>1. /\ memory' = memory /\ reserved' = reserved /\ panicked' = panicked /\ ram' = ram
      /\ kept' = kept /\ allocs' = allocs /\ regions' = regions /\ dtb' = dtb
      /\ base_pfn' = base_pfn /\ nr_frames' = nr_frames
  BY Zenon DEF vars
<1>2. BootInv'
  BY <1>1, SameLists, Zenon DEF HandoffInv
<1>3. KeptInv'
  BY <1>1, Zenon DEF HandoffInv, KeptInv
<1>4. AllFrames(memory)' = AllFrames(memory) /\ Holes(memory, reserved)' = Holes(memory, reserved)
  BY <1>1
<1>5. RamInv'
  BY <1>1, <1>4, Zenon DEF HandoffInv, RamInv
<1>6. MemmapInv'
  <2>1. Lowest' = Lowest /\ Highest' = Highest /\ MemmapFrames(nr_frames)' = MemmapFrames(nr_frames)
    BY <1>1, Zenon DEF Lowest, Highest
  <2>2. FramesOf(allocs[1])' = FramesOf(allocs[1])
    BY <1>1, Zenon
  <2>3. QED
    BY <2>1, <2>2, <1>1, <1>4, Zenon DEF HandoffInv, MemmapInv, Placed
<1>7. \A x : PfnOf(x)' = PfnOf(x)
  BY <1>1 DEF PfnOf
<1>8. QED
  BY <1>1, <1>2, <1>3, <1>4, <1>5, <1>6, <1>7, Zenon DEF HandoffInv

\* The facts about the holes that donating them needs.
LEMMA HoleFacts ==
    ASSUME BootInv
    PROVE  /\ Len(Holes(memory, reserved)) \in Nat
           /\ \A j \in 1 .. Len(Holes(memory, reserved)) : Holes(memory, reserved)[j] \in Regions
<1>1. Holes(memory, reserved) \in Seq(Regions)
  BY HolesAreExact, Zenon DEF BootInv, IsHoles
<1>2. QED
  BY <1>1, ElementOfSeq

\* A hole is donated.
LEMMA DonateHoleInv == HandoffInv /\ DonateHole => HandoffInv'
<1> SUFFICES ASSUME HandoffInv, DonateHole PROVE HandoffInv'
  OBVIOUS
<1>1. PICK h : h = Holes(memory, reserved)
  OBVIOUS
<1>2. /\ phase = "donate" /\ phase' = phase /\ ~panicked /\ k <= Len(h) /\ k' = k + 1
      /\ donated' = Append(donated, <<PfnOf(h[k].base), h[k].frames>>)
      /\ UNCHANGED <<vars, regions, dtb, base_pfn, nr_frames>>
  BY <1>1 DEF DonateHole
<1>3. /\ BootInv' /\ KeptInv' /\ RamInv' /\ MemmapInv' /\ Holes(memory, reserved)' = h
      /\ regions' \in MemoryLists /\ dtb' \in Dtbs /\ panicked' = panicked
      /\ \A x : PfnOf(x)' = PfnOf(x)
  BY <1>1, <1>2, SameBoot, Zenon
<1>4. /\ k \in Nat \ {0} /\ donated \in Seq(Int \X Int) /\ Len(donated) = k - 1 /\ Given(k - 1)
      /\ BootInv
  BY <1>2, Zenon DEF HandoffInv, DonatedInv
<1>5. k \in 1 .. Len(h) /\ Len(h) \in Nat
  BY <1>1, <1>2, <1>4, HoleFacts
<1>6. base_pfn \in Int
  BY <1>2, SpanFacts DEF HandoffInv, BootInv, MemmapInv, Placed
<1>7. PICK d : d = <<PfnOf(h[k].base), h[k].frames>>
  BY Zenon
<1>8. d \in Int \X Int
  <2>1. h[k] \in Regions
    BY <1>1, <1>4, <1>5, HoleFacts, Zenon
  <2>2. h[k].base \in Nat /\ h[k].frames \in Nat
    BY <2>1, RegionFacts, Zenon
  <2>3. QED
    BY <2>2, <1>6, <1>7 DEF PfnOf
<1>9. /\ donated' \in Seq(Int \X Int) /\ Len(donated') = k
      /\ \A j \in 1 .. k - 1 : donated'[j] = donated[j]
      /\ donated'[k] = d
  <2>1. donated' = Append(donated, d)
    BY <1>2, <1>7
  <2>2. QED
    BY <2>1, <1>4, <1>8, AppendProperties, SMTT(60)
<1>10. PICK n : n = k
  OBVIOUS
<1>11. Given(n)'
  <2>1. \A j \in 1 .. n - 1 : donated[j] = <<PfnOf(h[j].base), h[j].frames>>
    BY <1>1, <1>4, <1>10, Zenon DEF Given
  <2>2. ASSUME NEW j \in 1 .. n PROVE donated'[j] = <<PfnOf(h[j].base), h[j].frames>>
    <3>1. CASE j = n
      BY <3>1, <1>7, <1>9, <1>10, Zenon
    <3>2. CASE j # n
      <4>1. j \in 1 .. n - 1
        BY <3>2, <1>4, <1>10
      <4>2. donated'[j] = donated[j]
        BY <4>1, <1>9, <1>10, Zenon
      <4>3. QED
        BY <4>1, <4>2, <2>1, Zenon
    <3>3. QED
      BY <3>1, <3>2, Zenon
  <2>3. base_pfn' = base_pfn /\ n <= Len(h) /\ n <= Len(donated')
    BY <1>2, <1>5, <1>9, <1>10
  <2>4. QED
    BY <2>2, <2>3, <1>3, Zenon DEF Given, PfnOf
<1>12. DonatedInv'
  <2>1. k' - 1 = n /\ Len(donated') = n /\ phase' = "donate" /\ ~panicked'
    BY <1>2, <1>3, <1>4, <1>9, <1>10, SMTT(60)
  <2>2. Given(k - 1)'
    BY <2>1, <1>11
  <2>3. QED
    BY <2>1, <2>2, Zenon DEF DonatedInv
<1>13. QED
  BY <1>2, <1>3, <1>4, <1>9, <1>12, SMTT(60) DEF HandoffInv

\* The allocator goes into service.
LEMMA PublishInv == HandoffInv /\ Publish => HandoffInv'
<1> SUFFICES ASSUME HandoffInv, Publish PROVE HandoffInv'
  OBVIOUS
<1>1. PICK h : h = Holes(memory, reserved)
  OBVIOUS
<1>2. /\ phase = "donate" /\ phase' = "buddy" /\ ~panicked /\ k > Len(h) /\ k' = k
      /\ donated' = donated /\ UNCHANGED <<vars, regions, dtb, base_pfn, nr_frames>>
  BY <1>1, Zenon DEF Publish
<1>3. /\ BootInv' /\ KeptInv' /\ RamInv' /\ MemmapInv' /\ Holes(memory, reserved)' = h
      /\ regions' \in MemoryLists /\ dtb' \in Dtbs /\ panicked' = panicked
  BY <1>1, <1>2, SameBoot, Zenon
<1>4. /\ k \in Nat \ {0} /\ donated \in Seq(Int \X Int) /\ Len(donated) = k - 1 /\ Given(k - 1)
      /\ BootInv
  BY <1>2, Zenon DEF HandoffInv, DonatedInv
<1>5. PICK n : n = k - 1
  OBVIOUS
<1>6. n = Len(h) /\ Len(donated) = n
  <2>1. n <= Len(h) /\ Len(h) \in Nat
    BY <1>1, <1>4, <1>5, HoleFacts, Zenon DEF Given
  <2>2. QED
    BY <2>1, <1>2, <1>4, <1>5
<1>7. Given(n)'
  <2>1. Given(n)
    BY <1>4, <1>5, Zenon
  <2>2. base_pfn' = base_pfn
    BY <1>2
  <2>3. QED
    BY <2>1, <2>2, <1>1, <1>2, <1>3, Zenon DEF Given, PfnOf
<1>8. DonatedInv'
  <2>1. Len(donated') = n /\ Len(Holes(memory, reserved))' = n
    BY <1>2, <1>3, <1>6, Zenon
  <2>2. Given(Len(donated))'
    BY <2>1, <1>7
  <2>3. QED
    BY <2>1, <2>2, <1>2, <1>3, Zenon DEF DonatedInv
<1>9. QED
  BY <1>2, <1>3, <1>4, <1>8, Zenon DEF HandoffInv

\* The trampoline's .boot.bss is given too.
LEMMA ReclaimInv == HandoffInv /\ ReclaimTrampoline => HandoffInv'
<1> SUFFICES ASSUME HandoffInv, ReclaimTrampoline PROVE HandoffInv'
  OBVIOUS
<1>1. PICK h : h = Holes(memory, reserved)
  OBVIOUS
<1>2. PICK d : d = <<PfnOf(BootBss[1] \div PageSize), (BootBss[2] - BootBss[1]) \div PageSize>>
  BY Zenon
<1>3. /\ phase = "buddy" /\ phase' = "done" /\ k' = k /\ donated' = Append(donated, d)
      /\ UNCHANGED <<vars, regions, dtb, base_pfn, nr_frames>>
  BY <1>2, Zenon DEF ReclaimTrampoline
<1>4. /\ BootInv' /\ KeptInv' /\ RamInv' /\ MemmapInv' /\ Holes(memory, reserved)' = h
      /\ regions' \in MemoryLists /\ dtb' \in Dtbs /\ panicked' = panicked
  BY <1>1, <1>3, SameBoot, Zenon
<1>5. /\ k \in Nat \ {0} /\ donated \in Seq(Int \X Int) /\ ~panicked
      /\ Len(donated) = Len(h) /\ Given(Len(donated)) /\ BootInv
  BY <1>1, <1>3, Zenon DEF HandoffInv, DonatedInv
<1>6. base_pfn \in Int
  BY <1>3, <1>5, SpanFacts, SMTT(60) DEF HandoffInv, BootInv, MemmapInv, Placed
<1>7. d \in Int \X Int
  <2>1. PICK a, b \in Nat : /\ a < b /\ a = BootBss[1] \div PageSize
                           /\ (BootBss[2] - BootBss[1]) \div PageSize = b - a
    BY BssFrames, Zenon
  <2>2. PfnOf(BootBss[1] \div PageSize) \in Int /\ (BootBss[2] - BootBss[1]) \div PageSize \in Int
    BY <2>1, <1>6 DEF PfnOf
  <2>3. QED
    BY <2>2, <1>2, Zenon
<1>8. PICK n \in Nat : n = Len(h)
  BY <1>1, <1>5, HoleFacts, Zenon
<1>9. /\ donated' \in Seq(Int \X Int) /\ Len(donated') = n + 1
      /\ \A j \in 1 .. n : donated'[j] = donated[j]
      /\ donated'[n + 1] = d
  BY <1>3, <1>5, <1>7, <1>8, AppendProperties, SMTT(60)
<1>10. base_pfn' = base_pfn
  BY <1>3
<1>11. Given(n)'
  <2>1. Given(n)
    BY <1>5, <1>8
  <2>2. n <= Len(Holes(memory, reserved))' /\ n <= Len(donated')
    BY <1>4, <1>8, <1>9, SMTT(60)
  <2>3. QED
    BY <2>1, <2>2, <1>1, <1>4, <1>9, <1>10, Zenon DEF Given, PfnOf
<1>12. DonatedInv'
  <2>1. Len(donated') = n + 1 /\ Len(donated') - 1 = n /\ Len(Holes(memory, reserved))' = n
    BY <1>4, <1>8, <1>9, SMTT(60)
  <2>2. Given(Len(donated) - 1)'
    BY <2>1, <1>11
  <2>3. donated'[Len(donated')] = <<PfnOf(BootBss[1] \div PageSize)', (BootBss[2] - BootBss[1]) \div PageSize>>
    BY <2>1, <1>2, <1>9, <1>10, Zenon DEF PfnOf
  <2>4. QED
    BY <2>1, <2>2, <2>3, <1>3, <1>4, <1>5, Zenon DEF DonatedInv
<1>13. QED
  BY <1>3, <1>4, <1>5, <1>9, <1>12, Zenon DEF HandoffInv

\* Every step keeps the invariant.
LEMMA HNextInv == HandoffInv /\ [HNext]_<<vars, hvars>> => HandoffInv'
<1> SUFFICES ASSUME HandoffInv, [HNext]_<<vars, hvars>> PROVE HandoffInv'
  OBVIOUS
<1>1. CASE UNCHANGED <<vars, hvars>>
  <2>1. /\ memory' = memory /\ reserved' = reserved /\ panicked' = panicked /\ ram' = ram
        /\ kept' = kept /\ allocs' = allocs /\ regions' = regions /\ dtb' = dtb /\ phase' = phase
        /\ k' = k /\ base_pfn' = base_pfn /\ nr_frames' = nr_frames /\ donated' = donated
    BY <1>1, Zenon DEF vars, hvars
  <2>2. BootInv'
    BY <2>1, SameLists, Zenon DEF HandoffInv
  <2>3. KeptInv' /\ RamInv'
    BY <2>1, Zenon DEF HandoffInv, KeptInv, RamInv, AllFrames
  <2>4. MemmapInv'
    BY <2>1, Zenon DEF HandoffInv, MemmapInv, Placed, Lowest, Highest
  <2>5. DonatedInv'
    BY <2>1, Zenon DEF HandoffInv, DonatedInv, Given, PfnOf
  <2>6. QED
    BY <2>1, <2>2, <2>3, <2>4, <2>5, Zenon DEF HandoffInv
<1>2. CASE HNext
  BY <1>2, AddRegionInv, ReserveImageInv, ReserveDtbInv, PlaceMemmapInv, DonateHoleInv,
     PublishInv, ReclaimInv DEF HNext
<1>3. QED
  BY <1>1, <1>2

\* Once the mem-map is placed: which frames are memory, and which are free.
LEMMA PlacedFacts ==
    ASSUME HandoffInv, Placed, ~panicked
    PROVE  /\ base_pfn \in Nat /\ nr_frames \in Nat /\ nr_frames >= 1
           /\ allocs[1] \in Regions
           /\ \A f : f \in AllFrames(memory) => f \in Nat /\ base_pfn <= f /\ f < base_pfn + nr_frames
           /\ \A f : f \in RamFrames <=> f \in AllFrames(memory)
           /\ \A f : f \in FreeFrames <=> /\ f \in AllFrames(memory) /\ f \notin FramesOf(allocs[1])
                                          /\ ~ Holds(f, Image) /\ ~ Holds(f, dtb)
           /\ \A f \in Int : BytesOf(f) \subseteq Bytes(Image) => f \in AllFrames(memory)
<1>1. /\ BootInv /\ regions \in MemoryLists
      /\ memory # <<>> /\ base_pfn = Lowest /\ nr_frames = Highest - Lowest
      /\ Len(allocs) = 1 /\ kept = Bytes(Image) \cup Bytes(dtb)
  BY Zenon DEF HandoffInv, MemmapInv, KeptInv, Placed
<1>2. memory \in Seq(Regions) /\ allocs \in Seq(Regions)
  BY <1>1, Zenon DEF BootInv
<1>3. /\ Lowest \in Nat /\ Highest \in Nat /\ Lowest < Highest
      /\ \A f \in AllFrames(memory) : Lowest <= f /\ f < Highest
  BY <1>1, <1>2, SpanFacts
<1>4. base_pfn \in Nat /\ nr_frames \in Nat /\ nr_frames >= 1 /\ base_pfn + nr_frames = Highest
  BY <1>1, <1>3
<1>5. \A f : f \in AllFrames(memory) => f \in Nat /\ base_pfn <= f /\ f < base_pfn + nr_frames
  BY <1>1, <1>2, <1>3, <1>4, FramesAreNat, Zenon
<1>6. \A f \in Int : f \in AllFrames(memory) <=>
            \E j \in 1 .. Len(regions) : BytesOf(f) \subseteq Bytes(regions[j])
  BY Zenon DEF HandoffInv, RamInv, Placed
<1>7. ASSUME NEW f PROVE f \in RamFrames <=> f \in AllFrames(memory)
  <2>1. ASSUME f \in RamFrames PROVE f \in AllFrames(memory)
    <3>1. f \in 0 .. base_pfn + nr_frames
      BY <2>1 DEF RamFrames
    <3>2. f \in Int
      BY <3>1, <1>4
    <3>3. QED
      BY <2>1, <3>2, <1>6 DEF RamFrames
  <2>2. ASSUME f \in AllFrames(memory) PROVE f \in RamFrames
    <3>1. f \in Int /\ f \in 0 .. base_pfn + nr_frames
      BY <2>2, <1>4, <1>5
    <3>2. QED
      BY <2>2, <3>1, <1>6 DEF RamFrames
  <2>3. QED
    BY <2>1, <2>2
<1>8. ASSUME NEW f
      PROVE  f \in FreeFrames <=> /\ f \in AllFrames(memory) /\ f \notin FramesOf(allocs[1])
                                  /\ ~ Holds(f, Image) /\ ~ Holds(f, dtb)
  <2>1. f \in AllFrames(allocs) <=> f \in FramesOf(allocs[1])
    <3>1. f \in AllFrames(allocs) <=> \E i \in 1 .. 1 : f \in FramesOf(allocs[i])
      BY <1>1, FrameOfList
    <3>2. \A i : i \in 1 .. 1 <=> i = 1
      OBVIOUS
    <3>3. QED
      BY <3>1, <3>2, Zenon
  <2>2. BytesOf(f) \cap kept # {} <=> Holds(f, Image) \/ Holds(f, dtb)
    BY <1>1 DEF Holds
  <2>3. f \in Int => (f \in AllFrames(reserved) <=> BytesOf(f) \cap kept # {} \/ f \in AllFrames(allocs))
    BY <1>1, Zenon DEF BootInv
  <2>4. f \in AllFrames(memory) => f \in Int
    BY <1>5
  <2>5. f \in FreeFrames <=> f \in AllFrames(memory) /\ f \notin AllFrames(reserved)
    BY DEF FreeFrames
  <2>6. QED
    BY <2>1, <2>2, <2>3, <2>4, <2>5, Zenon
<1>9. ASSUME NEW f \in Int, BytesOf(f) \subseteq Bytes(Image) PROVE f \in AllFrames(memory)
  <2>1. Len(regions) # 0
    <3>1. PICK x : x = memory[1]
      OBVIOUS
    <3>2. 1 \in 1 .. Len(memory) /\ x \in Regions
      BY <3>1, <1>1, <1>2, ElementOfSeq
    <3>3. x.base \in FramesOf(x) /\ x.base \in Int
      BY <3>2, RegionFacts
    <3>4. x.base \in AllFrames(memory)
      BY <3>1, <3>2, <3>3, FrameOfList, Zenon
    <3>5. \E j \in 1 .. Len(regions) : BytesOf(x.base) \subseteq Bytes(regions[j])
      BY <3>3, <3>4, <1>6, Zenon
    <3>6. QED
      BY <3>5
  <2>2. PICK i \in 1 .. Len(regions) : Bytes(Image) \subseteq Bytes(regions[i])
    BY <2>1, <1>1, ListFacts, Zenon
  <2>3. BytesOf(f) \subseteq Bytes(regions[i])
    BY <1>9, <2>2
  <2>4. QED
    BY <2>3, <1>6, Zenon
<1>10. allocs[1] \in Regions
  <2>1. 1 \in 1 .. Len(allocs)
    BY <1>1
  <2>2. QED
    BY <2>1, <1>2, ElementOfSeq
<1>11. QED
  BY <1>4, <1>5, <1>7, <1>8, <1>9, <1>10, Zenon

\* A donated hole, in the frame numbers of the machine.
LEMMA DonatedHole ==
    ASSUME HandoffInv, Placed, ~panicked, NEW n \in Nat, Given(n), NEW j \in 1 .. n
    PROVE  LET h == Holes(memory, reserved)[j]
           IN  /\ h \in Regions /\ Absolute(donated[j]) = FramesOf(h)
               /\ donated[j][1] = h.base - base_pfn /\ donated[j][2] = h.frames
<1>1. PICK h : h = Holes(memory, reserved)[j]
  OBVIOUS
<1>2. donated[j] = <<PfnOf(h.base), h.frames>> /\ j \in 1 .. Len(Holes(memory, reserved))
  <2>1. n <= Len(Holes(memory, reserved)) /\ Len(Holes(memory, reserved)) \in Nat
    BY HoleFacts, Zenon DEF Given, HandoffInv
  <2>2. QED
    BY <2>1, <1>1, SMTT(60) DEF Given
<1>3. h \in Regions
  BY <1>1, <1>2, HoleFacts, Zenon DEF HandoffInv
<1>4. donated[j][1] = h.base - base_pfn /\ donated[j][2] = h.frames
  BY <1>2 DEF PfnOf
<1>5. PICK b \in Nat, c \in Nat, p \in Nat : b = h.base /\ c = h.frames /\ p = base_pfn
  BY <1>3, RegionFacts, PlacedFacts, Zenon
<1>6. Absolute(donated[j]) = b .. b + c - 1
  <2>1. Absolute(donated[j]) = p + (b - p) .. p + (b - p) + c - 1
    BY <1>4, <1>5, Zenon DEF Absolute
  <2>2. p + (b - p) = b
    OBVIOUS
  <2>3. QED
    BY <2>1, <2>2, Zenon
<1>7. FramesOf(h) = b .. b + c - 1
  BY <1>5, SMTT(60) DEF FramesOf, End
<1>8. QED
  BY <1>1, <1>3, <1>4, <1>6, <1>7, Zenon

\* What is free, as the holes give it.
LEMMA HolesFree ==
    ASSUME HandoffInv
    PROVE  LET h == Holes(memory, reserved)
           IN  /\ \A f : f \in FreeFrames <=> \E i \in 1 .. Len(h) : f \in FramesOf(h[i])
               /\ \A i, j \in 1 .. Len(h) : i # j => FramesOf(h[i]) \cap FramesOf(h[j]) = {}
<1>1. HolesExact
  BY GivesHolesExact DEF HandoffInv
<1>2. PICK h : h = Holes(memory, reserved)
  OBVIOUS
<1>3. /\ AllFrames(h) = FreeFrames
      /\ \A i, j \in 1 .. Len(h) : i # j => FramesOf(h[i]) \cap FramesOf(h[j]) = {}
  BY <1>1, <1>2, Zenon DEF HolesExact
<1>4. \A f : f \in FreeFrames <=> \E i \in 1 .. Len(h) : f \in FramesOf(h[i])
  BY <1>3, FrameOfList, Zenon
<1>5. QED
  BY <1>2, <1>3, <1>4, Zenon

\* reclaim_trampoline's donation: the frames of .boot.bss, none of them free.
LEMMA DonatedBss ==
    ASSUME HandoffInv, phase = "done"
    PROVE  LET d == donated[Len(donated)]
           IN  /\ d[1] >= 0 /\ d[1] + d[2] <= nr_frames
               /\ \A f : f \in Absolute(d) <=> f \in AllFrames(memory) /\ Holds(f, BootBss)
               /\ \A f \in Absolute(d) : f \notin FreeFrames /\ Holds(f, Image) /\ ~ Holds(f, dtb)
                                         /\ f \notin FramesOf(allocs[1])
<1>1. /\ Placed /\ ~panicked /\ dtb \in Dtbs
      /\ donated[Len(donated)] = <<PfnOf(BootBss[1] \div PageSize),
                                   (BootBss[2] - BootBss[1]) \div PageSize>>
  BY Zenon DEF HandoffInv, DonatedInv, Placed
<1>2. PICK a, b \in Nat :
        /\ a < b /\ a = BootBss[1] \div PageSize
        /\ (BootBss[2] - BootBss[1]) \div PageSize = b - a
        /\ \A f \in Int : a <= f /\ f < b <=> BytesOf(f) \subseteq Bytes(BootBss)
        /\ \A f \in Int : a <= f /\ f < b <=> Holds(f, BootBss)
  BY BssFrames, Zenon
<1>3. PICK p \in Nat : p = base_pfn
  BY <1>1, PlacedFacts, Zenon
<1>4. PICK d : d = donated[Len(donated)] /\ d[1] = a - p /\ d[2] = b - a
  <2>1. donated[Len(donated)] = <<a - p, b - a>>
    <3>1. PfnOf(BootBss[1] \div PageSize) = a - p
      BY <1>2, <1>3, Zenon DEF PfnOf
    <3>2. QED
      BY <3>1, <1>1, <1>2, Zenon
  <2>2. \A x, y : <<x, y>>[1] = x /\ <<x, y>>[2] = y
    OBVIOUS
  <2>3. QED
    BY <2>1, <2>2, Zenon
<1>5. Absolute(d) = a .. b - 1
  <2>1. Absolute(d) = p + (a - p) .. p + (a - p) + (b - a) - 1
    BY <1>3, <1>4, Zenon DEF Absolute
  <2>2. p + (a - p) = a /\ p + (a - p) + (b - a) - 1 = b - 1
    OBVIOUS
  <2>3. QED
    BY <2>1, <2>2, Zenon
<1>6. \A f : f \in Absolute(d) <=> f \in Int /\ a <= f /\ f < b
  BY <1>5
<1>7. ASSUME NEW f \in Absolute(d)
      PROVE  /\ f \in AllFrames(memory) /\ Holds(f, Image) /\ ~ Holds(f, dtb)
             /\ Holds(f, BootBss)
  <2>1. f \in Int /\ BytesOf(f) \subseteq Bytes(BootBss) /\ Holds(f, BootBss)
    BY <1>2, <1>6, Zenon
  <2>2. Bytes(BootBss) \subseteq Bytes(Image) /\ Bytes(dtb) \cap Bytes(Image) = {}
    BY <1>1, HandoffAssumption, Zenon
  <2>3. BytesOf(f) \subseteq Bytes(Image)
    BY <2>1, <2>2, Zenon
  <2>4. f \in AllFrames(memory)
    BY <2>1, <2>3, <1>1, PlacedFacts, Zenon
  <2>5. f * PageSize \in BytesOf(f)
    BY <2>1, ByteFacts, Zenon
  <2>6. Holds(f, Image) /\ ~ Holds(f, dtb)
    BY <2>2, <2>3, <2>5, Zenon DEF Holds
  <2>7. QED
    BY <2>1, <2>4, <2>6, Zenon
<1>8. \A f : f \in Absolute(d) <=> f \in AllFrames(memory) /\ Holds(f, BootBss)
  <2>1. \A f : f \in AllFrames(memory) => f \in Int
    BY <1>1, PlacedFacts, SMTT(60)
  <2>2. ASSUME NEW f, f \in AllFrames(memory), Holds(f, BootBss) PROVE f \in Absolute(d)
    BY <2>1, <2>2, <1>2, <1>6, Zenon
  <2>3. QED
    BY <2>2, <1>7, Zenon
<1>9. a \in AllFrames(memory) /\ b - 1 \in AllFrames(memory)
  BY <1>2, <1>6, <1>7, SMTT(60)
<1>10. d[1] >= 0 /\ d[1] + d[2] <= nr_frames
  <2>1. PICK nr \in Nat : nr = nr_frames
    BY <1>1, PlacedFacts, Zenon
  <2>2. p <= a /\ b - 1 < p + nr
    BY <2>1, <1>1, <1>3, <1>9, PlacedFacts, Zenon
  <2>3. QED
    BY <2>1, <2>2, <1>2, <1>4, SMTT(60)
<1>11. ASSUME NEW f \in Absolute(d) PROVE f \notin FreeFrames /\ f \notin FramesOf(allocs[1])
  <2>1. f \notin FreeFrames
    BY <1>1, <1>7, PlacedFacts, Zenon
  <2>2. ASSUME f \in FramesOf(allocs[1]) PROVE FALSE
    <3>1. BytesOf(f) \cap kept = {} /\ kept = Bytes(Image) \cup Bytes(dtb)
      BY <1>1, <2>2, Zenon DEF HandoffInv, MemmapInv, KeptInv, Placed
    <3>2. QED
      BY <3>1, <1>7, Zenon DEF Holds
  <2>3. QED
    BY <2>1, <2>2, Zenon
<1>12. QED
  BY <1>4, <1>7, <1>8, <1>10, <1>11, Zenon

\* What the invariant gives: the donations are in range and apart.
LEMMA GivesContract == HandoffInv => DonationsMeetContract
<1> SUFFICES ASSUME HandoffInv PROVE DonationsMeetContract
  OBVIOUS
<1>1. CASE donated = <<>>
  <2>1. Len(donated) = 0
    BY <1>1
  <2>2. QED
    BY <2>1, SMTT(60) DEF DonationsMeetContract
<1>2. ASSUME Placed, ~panicked, NEW n \in Nat, Given(n), NEW j \in 1 .. n
      PROVE  /\ donated[j][1] >= 0 /\ donated[j][1] + donated[j][2] <= nr_frames
             /\ \A f \in Absolute(donated[j]) : f \in FreeFrames
             /\ \A i \in 1 .. n : i # j => Absolute(donated[i]) \cap Absolute(donated[j]) = {}
  <2>1. PICK h : h = Holes(memory, reserved)
    OBVIOUS
  <2>2. \A i \in 1 .. n : /\ i \in 1 .. Len(h) /\ h[i] \in Regions
                          /\ Absolute(donated[i]) = FramesOf(h[i])
                          /\ donated[i][1] = h[i].base - base_pfn /\ donated[i][2] = h[i].frames
    <3> TAKE i \in 1 .. n
    <3>1. n <= Len(h) /\ Len(h) \in Nat
      BY <1>2, <2>1, HoleFacts, Zenon DEF Given, HandoffInv
    <3>2. /\ h[i] \in Regions
          /\ Absolute(donated[i]) = FramesOf(h[i])
          /\ donated[i][1] = h[i].base - base_pfn /\ donated[i][2] = h[i].frames
      BY <1>2, <2>1, DonatedHole, Zenon
    <3>3. QED
      BY <3>1, <3>2, SMTT(60)
  <2>3. \A i \in 1 .. n : i # j => Absolute(donated[i]) \cap Absolute(donated[j]) = {}
    <3>1. \A i, m \in 1 .. Len(h) : i # m => FramesOf(h[i]) \cap FramesOf(h[m]) = {}
      BY <2>1, HolesFree, Zenon
    <3> TAKE i \in 1 .. n
    <3>2. /\ i \in 1 .. Len(h) /\ Absolute(donated[i]) = FramesOf(h[i])
          /\ j \in 1 .. Len(h) /\ Absolute(donated[j]) = FramesOf(h[j])
      BY <2>2, Zenon
    <3>3. QED
      BY <3>1, <3>2, Zenon
  <2>4. \A f \in FramesOf(h[j]) : f \in FreeFrames
    BY <1>2, <2>1, <2>2, HolesFree, Zenon
  <2>5. PICK b \in Nat, c \in Nat, p \in Nat, nr \in Nat :
           b = h[j].base /\ c = h[j].frames /\ p = base_pfn /\ nr = nr_frames /\ c >= 1
    BY <1>2, <2>2, RegionFacts, PlacedFacts, Zenon
  <2>6. b \in FramesOf(h[j]) /\ b + c - 1 \in FramesOf(h[j])
    BY <2>5, SMTT(60) DEF FramesOf, End
  <2>7. b \in AllFrames(memory) /\ b + c - 1 \in AllFrames(memory)
    BY <2>4, <2>6, Zenon DEF FreeFrames
  <2>8. p <= b /\ b + c - 1 < p + nr
    BY <2>7, <2>5, <1>2, PlacedFacts, Zenon
  <2>9. donated[j][1] = b - p /\ donated[j][2] = c
    BY <1>2, <2>2, <2>5, Zenon
  <2>10. donated[j][1] >= 0 /\ donated[j][1] + donated[j][2] <= nr_frames
    BY <2>5, <2>8, <2>9, SMTT(60)
  <2>11. \A f \in Absolute(donated[j]) : f \in FreeFrames
    BY <1>2, <2>2, <2>4, Zenon
  <2>12. QED
    BY <2>3, <2>10, <2>11, Zenon
<1>3. ASSUME Placed, ~panicked, NEW n \in Nat, Given(n), Len(donated) = n
      PROVE  DonationsMeetContract
  BY <1>2, <1>3, Zenon DEF DonationsMeetContract
<1>4. CASE phase = "donate" /\ ~panicked
  <2>1. PICK n : n = k - 1
    OBVIOUS
  <2>2. n \in Nat /\ Given(n) /\ Len(donated) = n /\ Placed
    BY <2>1, <1>4, SMTT(60) DEF HandoffInv, DonatedInv, Placed
  <2>3. QED
    BY <2>2, <1>3, <1>4
<1>5. CASE phase = "buddy"
  <2>1. PICK n : n = Len(donated)
    BY Zenon
  <2>2. n \in Nat
    BY <2>1 DEF HandoffInv
  <2>3. Given(n) /\ Placed /\ ~panicked
    BY <2>1, <1>5, Zenon DEF HandoffInv, DonatedInv, Placed
  <2>4. QED
    BY <2>1, <2>2, <2>3, <1>3
<1>6. CASE phase = "done"
  <2>1. PICK n : n = Len(Holes(memory, reserved))
    BY Zenon
  <2>2. n \in Nat
    BY <2>1, HoleFacts, Zenon DEF HandoffInv
  <2>3. Len(donated) = n + 1 /\ Len(donated) - 1 = n /\ Placed /\ ~panicked
    BY <2>1, <2>2, <1>6 DEF HandoffInv, DonatedInv, Placed
  <2>4. Given(n)
    BY <2>3, <1>6, Zenon DEF HandoffInv, DonatedInv
  <2>5. PICK d : d = donated[n + 1]
    OBVIOUS
  <2>6. /\ d[1] >= 0 /\ d[1] + d[2] <= nr_frames
        /\ \A f \in Absolute(d) : f \notin FreeFrames
    BY <2>3, <2>5, <1>6, DonatedBss, Zenon
  <2>7. \A j : j \in 1 .. Len(donated) <=> j \in 1 .. n \/ j = n + 1
    BY <2>2, <2>3
  <2>8. ASSUME NEW j \in 1 .. Len(donated)
        PROVE  donated[j][1] >= 0 /\ donated[j][1] + donated[j][2] <= nr_frames
    BY <2>2, <2>3, <2>4, <2>5, <2>6, <2>7, <1>2, Zenon
  <2>9. ASSUME NEW i \in 1 .. Len(donated), NEW j \in 1 .. Len(donated), i # j
        PROVE  Absolute(donated[i]) \cap Absolute(donated[j]) = {}
    <3>1. \A m \in 1 .. n : \A f \in Absolute(donated[m]) : f \in FreeFrames
      BY <2>2, <2>3, <2>4, <1>2, Zenon
    <3>2. CASE i \in 1 .. n /\ j \in 1 .. n
      BY <3>2, <2>2, <2>3, <2>4, <2>9, <1>2, Zenon
    <3>3. CASE i = n + 1 /\ j \in 1 .. n
      <4>1. \A f \in Absolute(donated[i]) : f \notin FreeFrames
        BY <3>3, <2>5, <2>6, Zenon
      <4>2. QED
        BY <4>1, <3>1, <3>3, Zenon
    <3>4. CASE j = n + 1 /\ i \in 1 .. n
      <4>1. \A f \in Absolute(donated[j]) : f \notin FreeFrames
        BY <3>4, <2>5, <2>6, Zenon
      <4>2. QED
        BY <4>1, <3>1, <3>4, Zenon
    <3>5. QED
      BY <3>2, <3>3, <3>4, <2>7, <2>9, Zenon
  <2>10. QED
    BY <2>8, <2>9, Zenon DEF DonationsMeetContract
<1>7. phase = "donate" /\ panicked => donated = <<>>
  BY Zenon DEF HandoffInv, DonatedInv
<1>8. ~Placed => donated = <<>>
  BY Zenon DEF HandoffInv, MemmapInv
<1>9. QED
  BY <1>1, <1>4, <1>5, <1>6, <1>7, <1>8 DEF Placed

\* ... every frame is accounted for ...
LEMMA GivesAccountedFor == HandoffInv => EveryFrameAccountedFor
<1> SUFFICES ASSUME HandoffInv, phase \in {"buddy", "done"}
             PROVE  Donated = {f \in RamFrames :
                                 /\ ~ Holds(f, dtb) /\ f \notin FramesOf(allocs[1])
                                 /\ Holds(f, Image) => phase = "done" /\ Holds(f, BootBss)}
  BY Zenon DEF EveryFrameAccountedFor
<1>1. Placed /\ ~panicked
  BY Zenon DEF HandoffInv, DonatedInv, Placed
<1>2. PICK h : h = Holes(memory, reserved)
  OBVIOUS
<1>3. PICK n \in Nat : n = Len(h)
  BY <1>2, HoleFacts, Zenon DEF HandoffInv
<1>4. /\ Given(n) /\ (phase = "buddy" => Len(donated) = n) /\ (phase = "done" => Len(donated) = n + 1)
  <2>1. CASE phase = "buddy"
    BY <2>1, <1>2, <1>3, Zenon DEF HandoffInv, DonatedInv
  <2>2. CASE phase = "done"
    <3>1. Len(donated) = n + 1 /\ Len(donated) - 1 = n
      BY <2>2, <1>2, <1>3, SMTT(60) DEF HandoffInv, DonatedInv
    <3>2. QED
      BY <2>2, <3>1, Zenon DEF HandoffInv, DonatedInv
  <2>3. QED
    BY <2>1, <2>2, Zenon
<1>5. \A f : f \in FreeFrames <=> \E j \in 1 .. n : f \in Absolute(donated[j])
  <2>1. \A f : f \in FreeFrames <=> \E j \in 1 .. n : f \in FramesOf(h[j])
    BY <1>2, <1>3, HolesFree, Zenon
  <2>2. \A j \in 1 .. n : Absolute(donated[j]) = FramesOf(h[j])
    BY <1>1, <1>2, <1>4, DonatedHole, Zenon
  <2>3. QED
    BY <2>1, <2>2, Zenon
<1>6. \A f : f \in Donated <=> \E j \in 1 .. Len(donated) : f \in Absolute(donated[j])
  BY Zenon DEF Donated
<1>7. \A f : f \in FreeFrames <=> /\ f \in RamFrames /\ f \notin FramesOf(allocs[1])
                                  /\ ~ Holds(f, Image) /\ ~ Holds(f, dtb)
  BY <1>1, PlacedFacts, Zenon
<1>8. CASE phase = "buddy"
  <2>1. \A f : f \in Donated <=> f \in FreeFrames
    BY <1>4, <1>5, <1>6, <1>8, Zenon
  <2>2. QED
    BY <2>1, <1>7, <1>8, Zenon
<1>9. CASE phase = "done"
  <2>1. PICK d : d = donated[n + 1]
    OBVIOUS
  <2>2. /\ \A f : f \in Absolute(d) <=> f \in AllFrames(memory) /\ Holds(f, BootBss)
        /\ \A f \in Absolute(d) : Holds(f, Image) /\ ~ Holds(f, dtb) /\ f \notin FramesOf(allocs[1])
    BY <2>1, <1>4, <1>9, DonatedBss, Zenon
  <2>3. \A f : f \in Donated <=> f \in FreeFrames \/ f \in Absolute(d)
    <3>1. \A j : j \in 1 .. Len(donated) <=> j \in 1 .. n \/ j = n + 1
      BY <1>3, <1>4, <1>9
    <3>2. QED
      BY <3>1, <2>1, <1>5, <1>6, Zenon
  <2>4. \A f : f \in RamFrames <=> f \in AllFrames(memory)
    BY <1>1, PlacedFacts, Zenon
  <2>5. ASSUME NEW f
        PROVE  f \in Donated <=> /\ f \in RamFrames /\ ~ Holds(f, dtb) /\ f \notin FramesOf(allocs[1])
                                 /\ Holds(f, Image) => Holds(f, BootBss)
    BY <2>2, <2>3, <2>4, <1>7, Zenon
  <2>6. QED
    BY <2>5, <1>9, Zenon
<1>10. QED
  BY <1>8, <1>9, Zenon

\* ... and the mem-map has room of its own.
LEMMA GivesMemmapFits == HandoffInv => MemmapFits
<1> SUFFICES ASSUME HandoffInv, Placed, ~panicked
             PROVE  /\ allocs[1].frames * PageSize >= nr_frames * InfoSize
                    /\ \A f \in FramesOf(allocs[1]) :
                          f \in RamFrames /\ ~ Holds(f, Image) /\ ~ Holds(f, dtb)
  BY Zenon DEF MemmapFits, Placed
<1>1. /\ allocs[1].frames = MemmapFrames(nr_frames) /\ kept = Bytes(Image) \cup Bytes(dtb)
      /\ \A f \in FramesOf(allocs[1]) : f \in AllFrames(memory) /\ BytesOf(f) \cap kept = {}
  BY Zenon DEF HandoffInv, MemmapInv, KeptInv, Placed
<1>2. nr_frames \in Nat /\ nr_frames >= 1 /\ \A f : f \in RamFrames <=> f \in AllFrames(memory)
  BY PlacedFacts, Zenon
<1>3. MemmapFrames(nr_frames) * PageSize >= nr_frames * InfoSize
  BY <1>2, MemmapFacts, Zenon
<1>4. \A f \in FramesOf(allocs[1]) : f \in RamFrames /\ ~ Holds(f, Image) /\ ~ Holds(f, dtb)
  BY <1>1, <1>2, Zenon DEF Holds
<1>5. QED
  BY <1>1, <1>3, <1>4, Zenon

\* The inductive invariant holds of the whole hand-off.
THEOREM HandoffInvariance == HSpec => []HandoffInv
<1>1. QED
  BY HInitInv, HNextInv, PTL DEF HSpec

\* For every device tree: each run init_buddy and reclaim_trampoline pass to
\* free_range lies in the mem-map, and no frame is passed twice.
THEOREM DonationsStayInContract == HSpec => []DonationsMeetContract
<1>1. QED
  BY HandoffInvariance, GivesContract, PTL

\* For every device tree: the allocator ends up with every whole page of RAM
\* that does not hold the image, the device tree or the mem-map, and then with
\* .boot.bss.
THEOREM EveryFrameIsAccountedFor == HSpec => []EveryFrameAccountedFor
<1>1. QED
  BY HandoffInvariance, GivesAccountedFor, PTL

\* For every device tree: the mem-map is large enough for the span of memory,
\* in RAM that holds neither the image nor the device tree.
THEOREM MemmapAlwaysFits == HSpec => []MemmapFits
<1>1. QED
  BY HandoffInvariance, GivesMemmapFits, PTL
=============================================================================
