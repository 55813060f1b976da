---------------------------- MODULE BuddyProofs ----------------------------
(***************************************************************************)
(* Proofs about Buddy, for every number of frames, every MAX_ORDER and     *)
(* every set of donated ranges.                                            *)
(***************************************************************************)
EXTENDS Buddy, FiniteSetTheorems, NatLemmas

USE BoundsAssumption, SizeAssumption

\* new() establishes the structural invariant.
LEMMA InitStructInv == Init => StructInv
BY DEF Init, StructInv, TypeOK, BlockInv, TailInv, ListInv, OpInv, Heads, Linked,
       InFlight, PageStates, Frames, Orders

\* A block of order o > 0 is two blocks of order o - 1 (1 << o).
LEMMA SizeFacts ==
    /\ \A o \in Orders : Size[o] \in Nat /\ Size[o] >= 1
    /\ \A o \in Orders : o > 0 => o - 1 \in Orders /\ Size[o] = 2 * Size[o - 1]
<1>1. \A o \in Orders : o \in 0 .. MaxOrder
  BY DEF Orders
<1>2. \A o \in Orders : o > 0 => o - 1 \in Orders /\ (o - 1) + 1 = o
  BY DEF Orders
<1>3. QED
  BY <1>1, <1>2

\* What BlockInv says of one block, and of two.
LEMMA BlockFacts ==
    ASSUME StructInv, NEW p \in Heads
    PROVE  /\ p \in Frames /\ p \in Nat
           /\ BlockOrder(p) \in Orders
           /\ Size[BlockOrder(p)] \in Nat /\ Size[BlockOrder(p)] >= 1
           /\ p + Size[BlockOrder(p)] <= NrFrames
           /\ \A f \in Frames : p < f /\ f < p + Size[BlockOrder(p)]
                                => state[f] = "Tail"
           /\ \A q \in Heads : p < q => p + Size[BlockOrder(p)] <= q
<1>1. p \in Frames /\ p \in Nat /\ \A q \in Heads : q \in Frames /\ q \in Nat
  BY DEF Heads, Frames
<1>2. /\ BlockOrder(p) \in Orders
      /\ p + Size[BlockOrder(p)] <= NrFrames
      /\ \A f \in Frames : p < f /\ f < p + Size[BlockOrder(p)]
                           => state[f] = "Tail"
  BY DEF StructInv, BlockInv
<1>3. Size[BlockOrder(p)] \in Nat /\ Size[BlockOrder(p)] >= 1
  BY <1>2, SizeFacts
<1>4. \A q \in Heads : state[q] # "Tail"
  BY DEF Heads
<1>5. ASSUME NEW q \in Heads, p < q PROVE p + Size[BlockOrder(p)] <= q
  <2>1. q \in Frames /\ state[q] # "Tail"
    BY <1>1, <1>4
  <2>2. ~(q < p + Size[BlockOrder(p)])
    BY <1>2, <1>5, <2>1
  <2>3. p \in Int /\ q \in Int /\ Size[BlockOrder(p)] \in Int
    BY <1>1, <1>3
  <2>4. QED
    BY <2>2, <2>3
<1>6. QED
  BY <1>1, <1>2, <1>3, <1>5

\* push_front puts a block that is on no list at the front of list o.
LEMMA PushListInv ==
    ASSUME StructInv, NEW o \in Orders, NEW b \in Frames, b \notin Linked,
           NEW cleared, cleared \cap (Linked \cup {b}) = {},
           Linked' = Linked \cup {b}, order'[b] = o,
           \A p \in Linked : order'[p] = order[p],
           PushFront(o, b, cleared)
    PROVE  ListInv'
<1>1. \A p \in Linked : p \in Frames /\ order[p] \in Orders
  BY BlockFacts DEF Linked, Heads, BlockOrder
<1>2. ASSUME NEW p \in Linked'
      PROVE  /\ next'[p] # None => /\ next'[p] \in Linked'
                                   /\ order'[next'[p]] = order'[p]
                                   /\ prev'[next'[p]] = p
             /\ prev'[p] # None => /\ prev'[p] \in Linked'
                                   /\ order'[prev'[p]] = order'[p]
                                   /\ next'[prev'[p]] = p
             /\ prev'[p] = None => free_area'[order'[p]] = p
  BY <1>1 DEF StructInv, TypeOK, ListInv, PushFront
<1>3. ASSUME NEW j \in Orders, free_area'[j] # None
      PROVE  /\ free_area'[j] \in Linked'
             /\ order'[free_area'[j]] = j
             /\ prev'[free_area'[j]] = None
  BY <1>1, <1>3 DEF StructInv, TypeOK, ListInv, PushFront
<1>4. QED
  BY <1>2, <1>3 DEF ListInv

\* unlink takes block b off list o and repairs its neighbours.
LEMMA UnlinkListInv ==
    ASSUME StructInv, NEW o \in Orders, NEW b \in Linked, order[b] = o,
           NEW cleared, cleared \cap (Linked \ {b}) = {},
           Linked' = Linked \ {b}, order' = order,
           Unlink(o, b, cleared)
    PROVE  ListInv'
<1>1. \A p \in Linked : p \in Frames /\ order[p] \in Orders
  BY BlockFacts DEF Linked, Heads, BlockOrder
<1>2. ASSUME NEW p \in Linked'
      PROVE  /\ next'[p] # None => /\ next'[p] \in Linked'
                                   /\ order'[next'[p]] = order'[p]
                                   /\ prev'[next'[p]] = p
             /\ prev'[p] # None => /\ prev'[p] \in Linked'
                                   /\ order'[prev'[p]] = order'[p]
                                   /\ next'[prev'[p]] = p
             /\ prev'[p] = None => free_area'[order'[p]] = p
  BY <1>1 DEF StructInv, TypeOK, ListInv, Unlink
<1>3. ASSUME NEW j \in Orders, free_area'[j] # None
      PROVE  /\ free_area'[j] \in Linked'
             /\ order'[free_area'[j]] = j
             /\ prev'[free_area'[j]] = None
  BY <1>1, <1>3 DEF StructInv, TypeOK, ListInv, Unlink
<1>4. QED
  BY <1>2, <1>3 DEF ListInv

\* AllocPop: unlinking the head of a list takes exactly that block off it.
LEMMA AllocPopStructInv ==
    ASSUME StructInv, NEW want \in Orders, AllocPop(want)
    PROVE  StructInv'
<1>1. PICK j \in want .. MaxOrder - 1 :
        /\ pc = "idle" /\ free_area[j] # None
        /\ Unlink(j, free_area[j], {})
        /\ pc' = "split" /\ cur' = free_area[j] /\ k' = j /\ goal' = want
        /\ UNCHANGED <<state, order, free_frames>>
  BY DEF AllocPop
<1> DEFINE h == free_area[j]
<1>2. /\ j \in Orders
      /\ h \in Frames /\ state[h] = "Free" /\ order[h] = j /\ prev[h] = None
      /\ Linked' = Linked \ {h} /\ Heads' = Heads
      /\ h \in Linked
  BY <1>1 DEF StructInv, TypeOK, ListInv, Linked, Heads, InFlight, Orders
<1>3. \A p \in Heads : BlockOrder(p)' = BlockOrder(p)
  BY <1>1, <1>2 DEF BlockOrder, InFlight, Heads
<1>4. TypeOK'
  <2>1. /\ next' \in [Frames -> Frames \cup {None}]
        /\ prev' \in [Frames -> Frames \cup {None}]
        /\ free_area' \in [Orders -> Frames \cup {None}]
    BY <1>1, <1>2, Zenon DEF StructInv, TypeOK, Unlink
  <2>2. cur' \in 0 .. NrFrames /\ k' \in Orders /\ goal' \in Orders
    BY <1>1, <1>2 DEF Frames
  <2>3. QED
    BY <1>1, <2>1, <2>2, Zenon DEF StructInv, TypeOK
<1>5. BlockInv' /\ TailInv'
  BY <1>1, <1>2, <1>3, Zenon DEF StructInv, BlockInv, TailInv
<1>6. OpInv'
  BY <1>1, <1>2 DEF OpInv, InFlight, Heads
<1>7. ListInv'
  BY <1>1, <1>2, UnlinkListInv, Zenon
<1>8. QED
  BY <1>4, <1>5, <1>6, <1>7 DEF StructInv

\* AllocSplit: the block in hand keeps its lower half; the upper half, so far
\* Tails, becomes a block of its own at the front of its list.
LEMMA AllocSplitStructInv ==
    ASSUME StructInv, AllocSplit
    PROVE  StructInv'
<1>0. PICK b : b = cur + Size[k - 1]
  OBVIOUS
<1>1. /\ pc = "split" /\ k > goal /\ pc' = pc /\ cur' = cur /\ goal' = goal
      /\ k' = k - 1 /\ free_frames' = free_frames
      /\ state' = [state EXCEPT ![b] = "Free"]
      /\ order' = [order EXCEPT ![b] = k - 1]
      /\ PushFront(k - 1, b, {})
  BY <1>0 DEF AllocSplit
<1>2. /\ k \in Orders /\ k - 1 \in Orders /\ goal \in Orders
      /\ cur \in Heads /\ cur \in Frames /\ BlockOrder(cur) = k
      /\ Size[k] = 2 * Size[k - 1] /\ Size[k - 1] \in Nat /\ Size[k - 1] >= 1
  <2>1. k \in Orders /\ goal \in Orders /\ k > 0
    BY <1>1 DEF StructInv, TypeOK, OpInv, Orders
  <2>2. cur \in Heads /\ cur \in Frames /\ BlockOrder(cur) = k
    BY <1>1 DEF StructInv, OpInv, InFlight, Heads, BlockOrder
  <2>3. QED
    BY <2>1, <2>2, SizeFacts
<1>3. /\ b \in Frames /\ cur < b /\ b + Size[k - 1] = cur + Size[k]
      /\ b + Size[k - 1] <= NrFrames /\ b < cur + Size[k]
      /\ state[b] = "Tail"
      /\ \A f \in Frames : cur < f /\ f < cur + Size[k] => state[f] = "Tail"
  <2>1. /\ cur + Size[k] <= NrFrames
        /\ \A f \in Frames : cur < f /\ f < cur + Size[k] => state[f] = "Tail"
    BY <1>2, BlockFacts, Zenon
  <2>2. /\ b \in Frames /\ cur < b /\ b + Size[k - 1] = cur + Size[k]
        /\ b < cur + Size[k]
    BY <2>1, <1>0, <1>2, SMTT(60) DEF Frames
  <2>3. QED
    BY <2>1, <2>2
<1>4. /\ Heads' = Heads \cup {b} /\ Linked' = Linked \cup {b}
      /\ b \notin Heads /\ b \notin Linked
  BY <1>1, <1>3 DEF Heads, Linked, InFlight, StructInv, TypeOK
<1>5. /\ \A p \in Heads : p # cur => BlockOrder(p)' = BlockOrder(p)
      /\ \A p \in Heads : p = cur => BlockOrder(p)' = k - 1
      /\ BlockOrder(b)' = k - 1
  BY <1>1, <1>2, <1>3, <1>4, Zenon DEF BlockOrder, InFlight, Heads, StructInv, TypeOK
<1>6. TypeOK'
  <2>1. /\ next' \in [Frames -> Frames \cup {None}]
        /\ prev' \in [Frames -> Frames \cup {None}]
        /\ free_area' \in [Orders -> Frames \cup {None}]
    BY <1>1, <1>2, <1>3, Zenon DEF StructInv, TypeOK, PushFront
  <2>2. /\ state' \in [Frames -> PageStates]
        /\ order' \in [Frames -> Orders \cup {None}]
    BY <1>1, <1>2, <1>3, Zenon DEF StructInv, TypeOK, PageStates
  <2>3. QED
    BY <1>1, <1>2, <2>1, <2>2, Zenon DEF StructInv, TypeOK
<1>7. BlockInv'
  <2> SUFFICES ASSUME NEW p \in Heads'
               PROVE  /\ BlockOrder(p)' \in Orders
                      /\ p + Size[BlockOrder(p)'] <= NrFrames
                      /\ \A f \in Frames :
                            p < f /\ f < p + Size[BlockOrder(p)'] => state'[f] = "Tail"
    BY DEF BlockInv
  <2>1. CASE p = cur
    <3>1. BlockOrder(p)' = k - 1
      BY <2>1, <1>2, <1>5
    <3>2. ASSUME NEW f \in Frames, cur < f, f < b PROVE state'[f] = "Tail"
      <4>1. f \in Int /\ b \in Int /\ cur \in Int /\ Size[k] \in Int
        BY <1>2, <1>3 DEF Frames
      <4>2. f # b /\ f < cur + Size[k]
        BY <3>2, <4>1, <1>3
      <4>3. state[f] = "Tail"
        BY <3>2, <4>2, <1>3
      <4>4. state \in [Frames -> PageStates]
        BY DEF StructInv, TypeOK
      <4>5. QED
        BY <4>2, <4>3, <4>4, <1>1
    <3>3. QED
      BY <2>1, <3>1, <3>2, <1>0, <1>2, <1>3 DEF Frames
  <2>2. CASE p = b
    BY <2>2, <1>1, <1>2, <1>3, <1>5, SMTT(60) DEF StructInv, TypeOK, BlockInv, Frames
  <2>3. CASE p # cur /\ p # b
    <3>1. p \in Heads /\ p \in Frames /\ BlockOrder(p)' = BlockOrder(p)
      BY <2>3, <1>4, <1>5 DEF Heads
    <3>2. ~(p < b /\ b < p + Size[BlockOrder(p)])
      \* b lies in cur's block, so it lies in no other.
      <4>1. /\ p < cur => p + Size[BlockOrder(p)] <= cur
            /\ cur < p => cur + Size[k] <= p
            /\ Size[BlockOrder(p)] \in Nat /\ p \in Nat
        BY <3>1, <1>2, BlockFacts, Zenon
      <4>2. p \in Int /\ b \in Int /\ cur \in Int /\ Size[k] \in Int
            /\ Size[BlockOrder(p)] \in Int
        BY <4>1, <1>2, <1>3, SMTT(60) DEF Frames
      <4>3. CASE p < cur
        BY <4>1, <4>2, <4>3, <1>3
      <4>4. CASE cur < p
        BY <4>1, <4>2, <4>4, <1>3
      <4>5. QED
        BY <4>2, <4>3, <4>4, <2>3
    <3>3. QED
      BY <3>1, <3>2, <1>1 DEF StructInv, TypeOK, BlockInv
  <2>4. QED
    BY <2>1, <2>2, <2>3
<1>8. TailInv'
  <2> SUFFICES ASSUME NEW f \in Frames, state'[f] = "Tail"
               PROVE  \E p \in Heads' : p < f /\ f < p + Size[BlockOrder(p)']
    BY DEF TailInv
  <2>1. state[f] = "Tail" /\ f # b
    BY <1>1, <1>3 DEF StructInv, TypeOK
  <2>2. PICK p \in Heads : p < f /\ f < p + Size[BlockOrder(p)]
    BY <2>1 DEF StructInv, TailInv
  <2>3. CASE p # cur
    BY <2>2, <2>3, <1>4, <1>5
  <2>4. CASE p = cur
    <3>1. CASE f < b
      BY <3>1, <2>2, <2>4, <1>0, <1>2, <1>4, <1>5
    <3>2. CASE b < f
      BY <3>2, <2>2, <2>4, <1>2, <1>3, <1>4, <1>5
    <3>3. QED
      BY <2>1, <3>1, <3>2, <1>3 DEF Frames
  <2>5. QED
    BY <2>3, <2>4
<1>9. ListInv'
  <2>1. order'[b] = k - 1 /\ \A p \in Linked : order'[p] = order[p]
    BY <1>1, <1>3, <1>4, Zenon DEF StructInv, TypeOK, Linked
  <2>2. QED
    BY <2>1, <1>1, <1>2, <1>3, <1>4, PushListInv
<1>10. OpInv'
  BY <1>1, <1>2, <1>4 DEF OpInv, InFlight, Orders
<1>11. QED
  BY <1>6, <1>7, <1>8, <1>9, <1>10 DEF StructInv

\* AllocDone: the block in hand is recorded as Allocated.
LEMMA AllocDoneStructInv ==
    ASSUME StructInv, AllocDone, free_frames' \in Nat
    PROVE  StructInv'
<1>1. /\ pc = "split" /\ k = goal /\ pc' = "idle" /\ cur' = 0 /\ k' = 0
      /\ goal' = 0 /\ free_area' = free_area
      /\ state' = [state EXCEPT ![cur] = "Allocated"]
      /\ order' = [order EXCEPT ![cur] = goal]
      /\ next' = [next EXCEPT ![cur] = None]
      /\ prev' = [prev EXCEPT ![cur] = None]
  BY DEF AllocDone, Idle
<1>2. cur \in Heads /\ cur \in Frames /\ k \in Orders /\ goal \in Orders
  BY <1>1, Zenon DEF StructInv, TypeOK, OpInv, InFlight, Heads
<1>3. Heads' = Heads /\ Linked' = Linked /\ cur \notin Linked
  BY <1>1, <1>2, Zenon DEF Heads, Linked, InFlight, StructInv, TypeOK
<1>4. \A p \in Heads : BlockOrder(p)' = BlockOrder(p)
  BY <1>1, <1>2 DEF BlockOrder, InFlight, Heads, StructInv, TypeOK
<1>5. TypeOK'
  <2>1. /\ state' \in [Frames -> PageStates]
        /\ order' \in [Frames -> Orders \cup {None}]
        /\ next' \in [Frames -> Frames \cup {None}]
        /\ prev' \in [Frames -> Frames \cup {None}]
    BY <1>1, <1>2, Zenon DEF StructInv, TypeOK, PageStates
  <2>2. 0 \in Orders /\ 0 \in 0 .. NrFrames
    BY DEF Orders
  <2>3. QED
    BY <1>1, <2>1, <2>2, Zenon DEF StructInv, TypeOK
<1>6. BlockInv' /\ TailInv'
  BY <1>1, <1>2, <1>3, <1>4, SMTT(60) DEF StructInv, TypeOK, BlockInv, TailInv, Heads
<1>7. ListInv'
  BY <1>1, <1>2, <1>3, SMTT(60) DEF StructInv, TypeOK, ListInv, Linked
<1>8. OpInv'
  BY <1>1 DEF OpInv, InFlight
<1>9. QED
  BY <1>5, <1>6, <1>7, <1>8 DEF StructInv

\* FreeBegin: the caller's block becomes the block in hand.
LEMMA FreeBeginStructInv ==
    ASSUME StructInv, NEW p \in Frames, FreeBegin(p)
    PROVE  StructInv'
<1>1. /\ pc = "idle" /\ state[p] = "Allocated" /\ pc' = "merge" /\ cur' = p
      /\ k' = order[p] /\ goal' = 0 /\ free_frames' = free_frames + Size[order[p]]
      /\ UNCHANGED <<state, order, next, prev, free_area>>
  BY DEF FreeBegin
<1>2. p \in Heads /\ order[p] \in Orders /\ Size[order[p]] \in Nat
  <2>1. p \in Heads /\ BlockOrder(p) = order[p]
    BY <1>1 DEF Heads, BlockOrder, InFlight
  <2>2. QED
    BY <2>1, BlockFacts, Zenon
<1>3. Heads' = Heads /\ Linked' = Linked
  BY <1>1 DEF Heads, Linked, InFlight
<1>4. \A q \in Heads : BlockOrder(q)' = BlockOrder(q)
  BY <1>1 DEF BlockOrder, InFlight
<1>5. TypeOK'
  <2>1. cur' \in 0 .. NrFrames /\ goal' \in 0 .. NrFrames
    BY <1>1 DEF Frames
  <2>2. free_frames' \in Nat
    BY <1>1, <1>2, SMTT(60) DEF StructInv, TypeOK
  <2>3. QED
    BY <1>1, <1>2, <2>1, <2>2, Zenon DEF StructInv, TypeOK
<1>6. BlockInv' /\ TailInv'
  BY <1>1, <1>3, <1>4, Zenon DEF StructInv, BlockInv, TailInv
<1>7. ListInv'
  BY <1>1, <1>3, Zenon DEF StructInv, ListInv
<1>8. OpInv'
  BY <1>1, <1>2, <1>3 DEF OpInv
<1>9. QED
  BY <1>5, <1>6, <1>7, <1>8 DEF StructInv

\* FreeDone: the block in hand becomes a free block of order k.
LEMMA FreeDoneStructInv ==
    ASSUME StructInv, FreeDone
    PROVE  StructInv'
<1>0. PICK b : b = cur
  OBVIOUS
<1>1. /\ pc = "merge" /\ pc' = "idle" /\ cur' = 0 /\ k' = 0 /\ goal' = 0
      /\ state' = [state EXCEPT ![b] = "Free"]
      /\ order' = [order EXCEPT ![b] = k]
      /\ PushFront(k, b, {}) /\ free_frames' = free_frames
  BY <1>0 DEF FreeDone, Idle
<1>2. b \in Heads /\ b \in Frames /\ k \in Orders
  BY <1>0, <1>1 DEF StructInv, TypeOK, OpInv, InFlight, Heads
<1>3. /\ Heads' = Heads /\ Linked' = Linked \cup {b} /\ b \notin Linked
      /\ order'[b] = k /\ \A p \in Linked : order'[p] = order[p]
  BY <1>0, <1>1, <1>2 DEF Heads, Linked, InFlight, StructInv, TypeOK
<1>4. \A q \in Heads : BlockOrder(q)' = BlockOrder(q)
  BY <1>0, <1>1, <1>2 DEF BlockOrder, InFlight, Heads, StructInv, TypeOK
<1>5. TypeOK'
  <2>1. /\ state' \in [Frames -> PageStates]
        /\ order' \in [Frames -> Orders \cup {None}]
    BY <1>1, <1>2 DEF StructInv, TypeOK, PageStates
  <2>2. /\ next' \in [Frames -> Frames \cup {None}]
        /\ prev' \in [Frames -> Frames \cup {None}]
        /\ free_area' \in [Orders -> Frames \cup {None}]
    BY <1>1, <1>2 DEF StructInv, TypeOK, PushFront
  <2>3. 0 \in Orders /\ 0 \in 0 .. NrFrames
    BY DEF Orders
  <2>4. QED
    BY <1>1, <2>1, <2>2, <2>3 DEF StructInv, TypeOK
<1>6. BlockInv' /\ TailInv'
  BY <1>1, <1>2, <1>3, <1>4, SMTT(60) DEF StructInv, TypeOK, BlockInv, TailInv, Heads
<1>7. ListInv'
  BY <1>1, <1>2, <1>3, PushListInv, Zenon
<1>8. OpInv'
  BY <1>1 DEF OpInv, InFlight
<1>9. QED
  BY <1>5, <1>6, <1>7, <1>8 DEF StructInv

\* The buddy is one block below or one block above.
LEMMA BuddyAdjacent ==
    ASSUME NEW p \in Frames, NEW o \in Orders
    PROVE  BuddyPfn(p, o) = p + Size[o] \/ BuddyPfn(p, o) = p - Size[o]
BY DEF BuddyPfn

\* FreeMerge: the block in hand and its buddy, h and t in address order,
\* become one block of twice the size; t's head becomes a Tail.
LEMMA FreeMergeFacts ==
    ASSUME StructInv, FreeMerge
    PROVE  \E b \in Linked, h \in Heads, t \in Heads :
             /\ b \in {h, t} /\ cur \in {h, t} /\ b # cur /\ order[b] = k
             /\ t = h + Size[k]
             /\ k \in Orders /\ k + 1 \in Orders /\ Size[k + 1] = 2 * Size[k]
             /\ BlockOrder(h) = k /\ BlockOrder(t) = k
             /\ pc = "merge" /\ Unlink(k, b, {t})
             /\ state' = [state EXCEPT ![t] = "Tail"]
             /\ cur' = h /\ k' = k + 1
             /\ UNCHANGED <<order, free_frames, pc, goal>>
<1> DEFINE b == BuddyPfn(cur, k)
           h == IF cur < b THEN cur ELSE b
           t == IF cur < b THEN b ELSE cur
<1>1. /\ pc = "merge" /\ k < MaxOrder - 1 /\ b \in Frames /\ state[b] = "Free"
      /\ order[b] = k /\ Unlink(k, b, {t})
      /\ state' = [state EXCEPT ![t] = "Tail"]
      /\ cur' = h /\ k' = k + 1
      /\ UNCHANGED <<order, free_frames, pc, goal>>
  BY DEF FreeMerge, Mergeable
<1>2. cur \in Heads /\ cur \in Frames /\ BlockOrder(cur) = k /\ k \in Orders
  BY <1>1, Zenon DEF StructInv, TypeOK, OpInv, InFlight, Heads, BlockOrder
<1>3. k + 1 \in Orders /\ Size[k + 1] = 2 * Size[k] /\ Size[k] \in Nat /\ Size[k] >= 1
  BY <1>1, <1>2, SizeFacts DEF Orders
<1>4. b = cur + Size[k] \/ b = cur - Size[k]
  BY <1>2, BuddyAdjacent
<1>5. b # cur /\ t = h + Size[k]
  BY <1>2, <1>3, <1>4 DEF Frames
<1>6. b \in Linked /\ b \in Heads /\ BlockOrder(b) = k
  BY <1>1, <1>5, Zenon DEF Linked, Heads, BlockOrder
<1>7. h \in Heads /\ t \in Heads /\ b \in {h, t} /\ cur \in {h, t}
      /\ BlockOrder(h) = k /\ BlockOrder(t) = k
  BY <1>2, <1>6
<1>8. QED
  BY <1>1, <1>2, <1>3, <1>5, <1>6, <1>7, Zenon

\* free: a turn of the coalescing loop.
LEMMA FreeMergeStructInv ==
    ASSUME StructInv, FreeMerge
    PROVE  StructInv'
<1>1. PICK b \in Linked, h \in Heads, t \in Heads :
             /\ b \in {h, t} /\ cur \in {h, t} /\ b # cur /\ order[b] = k
             /\ t = h + Size[k]
             /\ k \in Orders /\ k + 1 \in Orders /\ Size[k + 1] = 2 * Size[k]
             /\ BlockOrder(h) = k /\ BlockOrder(t) = k
             /\ pc = "merge" /\ Unlink(k, b, {t})
             /\ state' = [state EXCEPT ![t] = "Tail"]
             /\ cur' = h /\ k' = k + 1
             /\ UNCHANGED <<order, free_frames, pc, goal>>
  BY FreeMergeFacts, Zenon
<1>2. /\ h \in Frames /\ t \in Frames /\ h \in Nat /\ t \in Nat
      /\ Size[k] \in Nat /\ Size[k] >= 1 /\ h < t
      /\ t + Size[k] <= NrFrames /\ h + Size[k + 1] = t + Size[k]
      /\ \A f \in Frames : h < f /\ f < t + Size[k] /\ f # t => state[f] = "Tail"
  <2>1. /\ h \in Frames /\ t \in Frames /\ h \in Nat /\ t \in Nat
        /\ Size[k] \in Nat /\ Size[k] >= 1 /\ t + Size[k] <= NrFrames
        /\ \A f \in Frames : h < f /\ f < h + Size[k] => state[f] = "Tail"
        /\ \A f \in Frames : t < f /\ f < t + Size[k] => state[f] = "Tail"
    BY <1>1, BlockFacts, Zenon
  <2>2. h < t /\ h + Size[k + 1] = t + Size[k]
    <3>1. t = h + Size[k] /\ Size[k + 1] = 2 * Size[k]
      BY <1>1, Zenon
    <3>2. QED
      BY <2>1, <3>1, SMTT(60)
  <2>3. ASSUME NEW f \in Frames, h < f, f < t + Size[k], f # t
        PROVE  state[f] = "Tail"
    <3>1. f < t \/ t < f
      BY <2>1, <2>3 DEF Frames
    <3>2. QED
      BY <1>1, <2>1, <2>3, <3>1, Zenon
  <2>4. QED
    BY <2>1, <2>2, <2>3, Zenon
<1>3. /\ Heads' = Heads \ {t} /\ Linked' = Linked \ {b} /\ h \in Heads'
  <2>1. /\ pc = "merge" /\ pc' = "merge" /\ cur' = h
        /\ state' = [state EXCEPT ![t] = "Tail"] /\ state \in [Frames -> PageStates]
        /\ state[h] \in {"Free", "Allocated"}
        /\ h # t /\ h \in Frames /\ t \in Frames
        /\ (b = h /\ cur = t) \/ (b = t /\ cur = h)
    <3>1. h # t
      BY <1>2
    <3>2. state \in [Frames -> PageStates] /\ state[h] \in {"Free", "Allocated"}
      BY DEF Heads, StructInv, TypeOK
    <3>3. pc = "merge" /\ pc' = "merge" /\ cur' = h
          /\ state' = [state EXCEPT ![t] = "Tail"]
      BY <1>1
    <3>4. (b = h /\ cur = t) \/ (b = t /\ cur = h)
      BY <1>1
    <3>5. h \in Frames /\ t \in Frames
      BY <1>2
    <3>6. QED
      BY <3>1, <3>2, <3>3, <3>4, <3>5
  <2>2. Heads' = Heads \ {t} /\ h \in Heads'
    BY <2>1 DEF Heads
  <2>3. Linked' = Linked \ {b}
    BY <2>1, Zenon DEF Linked, InFlight
  <2>4. QED
    BY <2>2, <2>3
<1>4. /\ \A q \in Heads' : q # h => BlockOrder(q)' = BlockOrder(q)
      /\ BlockOrder(h)' = k + 1
  <2>1. pc = "merge" /\ pc' = "merge" /\ order' = order /\ cur' = h /\ k' = k + 1
    BY <1>1
  <2>2. \A q \in Heads' : q # h => q # cur
    BY <1>1, <1>3, Zenon
  <2>3. QED
    BY <2>1, <2>2 DEF BlockOrder, InFlight
<1>5. TypeOK'
  <2>1. /\ next' \in [Frames -> Frames \cup {None}]
        /\ prev' \in [Frames -> Frames \cup {None}]
        /\ free_area' \in [Orders -> Frames \cup {None}]
    BY <1>1, Zenon DEF StructInv, TypeOK, Unlink, Linked
  <2>2. state' \in [Frames -> PageStates] /\ cur' \in 0 .. NrFrames
    BY <1>1, <1>2 DEF StructInv, TypeOK, PageStates, Frames
  <2>3. QED
    BY <1>1, <2>1, <2>2, Zenon DEF StructInv, TypeOK
<1>6. BlockInv'
  <2> SUFFICES ASSUME NEW p \in Heads'
               PROVE  /\ BlockOrder(p)' \in Orders
                      /\ p + Size[BlockOrder(p)'] <= NrFrames
                      /\ \A f \in Frames :
                            p < f /\ f < p + Size[BlockOrder(p)'] => state'[f] = "Tail"
    BY DEF BlockInv
  <2>1. CASE p = h
    BY <2>1, <1>1, <1>2, <1>4, Zenon DEF StructInv, TypeOK
  <2>2. CASE p # h
    <3>1. p \in Heads /\ BlockOrder(p)' = BlockOrder(p)
      BY <2>2, <1>3, <1>4
    <3>2. ASSUME NEW f \in Frames, state[f] = "Tail" PROVE state'[f] = "Tail"
      <4>1. state \in [Frames -> PageStates]
        BY DEF StructInv, TypeOK
      <4>2. state' = [state EXCEPT ![t] = "Tail"]
        BY <1>1
      <4>3. QED
        BY <3>2, <4>1, <4>2
    <3>3. QED
      BY <3>1, <3>2 DEF StructInv, BlockInv
  <2>3. QED
    BY <2>1, <2>2
<1>7. TailInv'
  <2> SUFFICES ASSUME NEW f \in Frames, state'[f] = "Tail"
               PROVE  \E p \in Heads' : p < f /\ f < p + Size[BlockOrder(p)']
    BY DEF TailInv
  <2>1. CASE h < f /\ f < t + Size[k]
    BY <2>1, <1>2, <1>3, <1>4, Zenon
  <2>2. CASE ~(h < f /\ f < t + Size[k])
    <3>1. f # t /\ state[f] = "Tail"
      <4>1. f # t
        BY <2>2, <1>2
      <4>2. QED
        BY <4>1, <1>1, <1>2, Zenon DEF StructInv, TypeOK
    <3>2. PICK p \in Heads : p < f /\ f < p + Size[BlockOrder(p)]
      BY <3>1 DEF StructInv, TailInv
    <3>3. p # h /\ p # t
      <4>1. f \in Int /\ BlockOrder(h) = k /\ BlockOrder(t) = k /\ h + Size[k] = t
        BY <1>1 DEF Frames
      <4>2. h \in Int /\ t \in Int /\ Size[k] \in Int /\ Size[k] >= 1
        BY <1>2
      <4>3. p # h
        BY <2>2, <3>2, <4>1, <4>2, SMTT(60)
      <4>4. p # t
        BY <2>2, <3>2, <4>1, <4>2, SMTT(60)
      <4>5. QED
        BY <4>3, <4>4
    <3>4. QED
      BY <3>2, <3>3, <1>3, <1>4
  <2>3. QED
    BY <2>1, <2>2
<1>8. ListInv'
  <2>1. {t} \cap (Linked \ {b}) = {}
    BY <1>1 DEF Linked, InFlight
  <2>2. QED
    BY <2>1, <1>1, <1>3, UnlinkListInv, Zenon
<1>9. OpInv'
  BY <1>1, <1>3 DEF OpInv, InFlight
<1>10. QED
  BY <1>5, <1>6, <1>7, <1>8, <1>9 DEF StructInv

\* free_range: before the first turn nothing has changed.
LEMMA RangeBeginStructInv ==
    ASSUME StructInv, NEW d \in Donations, RangeBegin(d[1], d[2])
    PROVE  StructInv'
<1>1. /\ pc = "idle" /\ pc' = "carve" /\ cur' = d[1] /\ k' = 0
      /\ goal' = d[1] + d[2]
      /\ \A f \in d[1] .. d[1] + d[2] - 1 : state[f] = "Reserved"
      /\ UNCHANGED <<state, order, next, prev, free_area, free_frames>>
  BY DEF RangeBegin
<1>2. d[1] \in Frames /\ d[2] \in Nat /\ d[1] + d[2] <= NrFrames
  BY DonationsAssumption
<1>3. /\ Heads' = Heads /\ Linked' = Linked
      /\ \A p \in Heads : BlockOrder(p)' = BlockOrder(p)
  BY <1>1 DEF Heads, Linked, InFlight, BlockOrder
<1>4. TypeOK'
  <2>1. cur' \in 0 .. NrFrames /\ goal' \in 0 .. NrFrames /\ k' \in Orders
    BY <1>1, <1>2, SMTT(60) DEF Frames, Orders
  <2>2. QED
    BY <1>1, <2>1, Zenon DEF StructInv, TypeOK
<1>5. BlockInv' /\ TailInv'
  BY <1>1, <1>3 DEF StructInv, BlockInv, TailInv
<1>6. ListInv'
  BY <1>1, <1>3, Zenon DEF StructInv, ListInv
<1>7. OpInv'
  BY <1>1, <1>2, SMTT(60) DEF OpInv, InFlight, Frames
<1>8. QED
  BY <1>4, <1>5, <1>6, <1>7 DEF StructInv

\* RangeCarve: the next frames of the range, so far Reserved and hence in no
\* block, become one free block.
LEMMA RangeCarveFacts ==
    ASSUME StructInv, RangeCarve
    PROVE  \E o \in Orders, b \in Frames :
             /\ b = cur /\ pc = "carve" /\ Size[o] \in Nat /\ Size[o] >= 1
             /\ goal \in Nat /\ goal <= NrFrames /\ b + Size[o] <= goal
             /\ \A f \in Frames : b <= f /\ f < goal => state[f] = "Reserved"
             /\ state' = [f \in Frames |-> IF f = b THEN "Free"
                                           ELSE IF f \in Run(b, o) THEN "Tail"
                                           ELSE state[f]]
             /\ order' = [order EXCEPT ![b] = o]
             /\ PushFront(o, b, Run(b, o) \ {b})
             /\ free_frames' = free_frames + Size[o]
             /\ cur' = b + Size[o]
             /\ UNCHANGED <<pc, k, goal>>
<1>1. PICK o \in Orders :
        /\ pc = "carve" /\ cur < goal
        /\ Size[o] <= goal - cur
        /\ state' = [f \in Frames |-> IF f = cur THEN "Free"
                                      ELSE IF f \in Run(cur, o) THEN "Tail"
                                      ELSE state[f]]
        /\ order' = [order EXCEPT ![cur] = o]
        /\ PushFront(o, cur, Run(cur, o) \ {cur})
        /\ free_frames' = free_frames + Size[o]
        /\ cur' = cur + Size[o]
        /\ UNCHANGED <<pc, k, goal>>
  BY Zenon DEF RangeCarve, IsMaxOrderAt
<1>2. /\ cur \in 0 .. NrFrames /\ goal \in Nat /\ goal <= NrFrames
      /\ \A f \in Frames : cur <= f /\ f < goal => state[f] = "Reserved"
  BY <1>1 DEF StructInv, TypeOK, OpInv, Orders
<1>3. Size[o] \in Nat /\ Size[o] >= 1
  BY SizeFacts
<1>4. cur \in Frames /\ cur + Size[o] <= goal
  <2>1. cur < goal /\ Size[o] <= goal - cur
    BY <1>1
  <2>2. cur \in Nat /\ NrFrames \in Nat
    BY <1>2, BoundsAssumption
  <2>3. cur + Size[o] <= goal /\ cur < NrFrames
    BY <1>2, <1>3, <2>1, <2>2
  <2>4. QED
    BY <2>2, <2>3 DEF Frames
<1>5. QED
  BY <1>1, <1>2, <1>3, <1>4, Zenon

\* free_range: a turn of the carving loop.
LEMMA RangeCarveStructInv ==
    ASSUME StructInv, RangeCarve
    PROVE  StructInv'
<1>1. PICK o \in Orders, b \in Frames :
             /\ b = cur /\ pc = "carve" /\ Size[o] \in Nat /\ Size[o] >= 1
             /\ goal \in Nat /\ goal <= NrFrames /\ b + Size[o] <= goal
             /\ \A f \in Frames : b <= f /\ f < goal => state[f] = "Reserved"
             /\ state' = [f \in Frames |-> IF f = b THEN "Free"
                                           ELSE IF f \in Run(b, o) THEN "Tail"
                                           ELSE state[f]]
             /\ order' = [order EXCEPT ![b] = o]
             /\ PushFront(o, b, Run(b, o) \ {b})
             /\ free_frames' = free_frames + Size[o]
             /\ cur' = b + Size[o]
             /\ UNCHANGED <<pc, k, goal>>
  BY RangeCarveFacts, Zenon
<1>i. b \in Int /\ Size[o] \in Int /\ Size[o] >= 1 /\ goal \in Int /\ NrFrames \in Int
  BY <1>1, BoundsAssumption DEF Frames
<1>2. \A f \in Frames : f \in Int /\ (f \in Run(b, o) <=> b <= f /\ f < b + Size[o])
  BY <1>i, SMTT(60) DEF Run, Frames
<1>3. \A f \in Frames : f \in Run(b, o) => state[f] = "Reserved"
  BY <1>1, <1>2, SMTT(60)
<1>4. b \in Run(b, o) /\ state[b] = "Reserved" /\ b \notin Heads /\ b \notin Linked
  <2>1. b \in Run(b, o)
    BY <1>i, <1>2
  <2>2. state[b] = "Reserved"
    BY <2>1, <1>3
  <2>3. QED
    BY <2>1, <2>2 DEF Heads, Linked
<1>5. /\ Heads' = Heads \cup {b} /\ Linked' = Linked \cup {b}
      /\ \A f \in Frames : state[f] = "Tail" => state'[f] = "Tail"
  BY <1>1, <1>3, <1>4, Zenon DEF Heads, Linked, InFlight
<1>6. /\ \A p \in Heads : BlockOrder(p)' = BlockOrder(p)
      /\ BlockOrder(b)' = o
  BY <1>1, <1>4, Zenon DEF BlockOrder, InFlight, Heads, StructInv, TypeOK
<1>7. TypeOK'
  <2>1. /\ next' \in [Frames -> Frames \cup {None}]
        /\ prev' \in [Frames -> Frames \cup {None}]
        /\ free_area' \in [Orders -> Frames \cup {None}]
    BY <1>1, Zenon DEF StructInv, TypeOK, PushFront
  <2>2. /\ state' \in [Frames -> PageStates]
        /\ order' \in [Frames -> Orders \cup {None}]
    BY <1>1, Zenon DEF StructInv, TypeOK, PageStates
  <2>3. cur' \in 0 .. NrFrames /\ free_frames' \in Nat
    <3>1. /\ cur' = b + Size[o] /\ b + Size[o] <= NrFrames /\ Size[o] \in Nat
          /\ free_frames' = free_frames + Size[o]
      BY <1>1
    <3>2. b \in Nat /\ NrFrames \in Nat
      BY BoundsAssumption DEF Frames
    <3>3. free_frames \in Nat
      BY DEF StructInv, TypeOK
    <3>4. QED
      BY <3>1, <3>2, <3>3, SMTT(60)
  <2>4. QED
    BY <1>1, <2>1, <2>2, <2>3, Zenon DEF StructInv, TypeOK
<1>8. BlockInv'
  <2>1. ASSUME NEW p \in Heads
        PROVE  /\ BlockOrder(p)' \in Orders
               /\ p + Size[BlockOrder(p)'] <= NrFrames
               /\ \A f \in Frames :
                     p < f /\ f < p + Size[BlockOrder(p)'] => state'[f] = "Tail"
    BY <1>5, <1>6, BlockFacts, Zenon
  <2>2. /\ b + Size[o] <= NrFrames
        /\ \A f \in Frames : b < f /\ f < b + Size[o] => state'[f] = "Tail"
    <3>1. b + Size[o] <= NrFrames
      <4>1. b + Size[o] <= goal /\ goal <= NrFrames
        BY <1>1, Zenon
      <4>2. QED
        BY <4>1, <1>i, SMTT(60)
    <3>2. ASSUME NEW f \in Frames, b < f, f < b + Size[o] PROVE state'[f] = "Tail"
      <4>1. f # b /\ f \in Run(b, o)
        BY <3>2, <1>i, <1>2
      <4>2. QED
        BY <4>1, <1>1, Zenon
    <3>3. QED
      BY <3>1, <3>2
  <2>3. QED
    BY <2>1, <2>2, <1>5, <1>6, Zenon DEF BlockInv
<1>9. TailInv'
  <2> SUFFICES ASSUME NEW f \in Frames, state'[f] = "Tail"
               PROVE  \E p \in Heads' : p < f /\ f < p + Size[BlockOrder(p)']
    BY DEF TailInv
  <2>1. CASE f \in Run(b, o)
    <3>1. f # b
      BY <1>1
    <3>2. b < f /\ f < b + Size[o]
      BY <3>1, <2>1, <1>2 DEF Frames
    <3>3. QED
      BY <3>2, <1>5, <1>6
  <2>2. CASE f \notin Run(b, o)
    <3>1. state[f] = "Tail"
      BY <2>2, <1>1, <1>4, Zenon
    <3>2. PICK p \in Heads : p < f /\ f < p + Size[BlockOrder(p)]
      BY <3>1 DEF StructInv, TailInv
    <3>3. QED
      BY <3>2, <1>5, <1>6
  <2>3. QED
    BY <2>1, <2>2
<1>10. ListInv'
  <2>1. (Run(b, o) \ {b}) \cap (Linked \cup {b}) = {}
    BY <1>3 DEF Linked
  <2>2. order'[b] = o /\ \A p \in Linked : order'[p] = order[p]
    BY <1>1, <1>4, Zenon DEF StructInv, TypeOK, Linked
  <2>3. QED
    BY <2>1, <2>2, <1>1, <1>4, <1>5, PushListInv, Zenon
<1>11. OpInv'
  <2>1. ASSUME NEW f \in Frames, b + Size[o] <= f, f < goal
        PROVE  state'[f] = "Reserved"
    <3>1. f # b /\ f \notin Run(b, o) /\ b <= f
      BY <2>1, <1>i, <1>2, SMTT(60)
    <3>2. QED
      BY <2>1, <3>1, <1>1, Zenon
  <2>2. /\ pc' = "carve" /\ cur' = b + Size[o] /\ goal' = goal
        /\ cur' <= goal /\ goal <= NrFrames
    BY <1>1, Zenon
  <2>3. QED
    BY <2>1, <2>2 DEF OpInv, InFlight
<1>12. QED
  BY <1>7, <1>8, <1>9, <1>10, <1>11 DEF StructInv

\* free_range: the range is used up.
LEMMA RangeDoneStructInv ==
    ASSUME StructInv, RangeDone
    PROVE  StructInv'
<1>1. /\ pc = "carve" /\ pc' = "idle" /\ cur' = 0 /\ k' = 0 /\ goal' = 0
      /\ UNCHANGED <<state, order, next, prev, free_area, free_frames>>
  BY DEF RangeDone, Idle
<1>2. /\ Heads' = Heads /\ Linked' = Linked
      /\ \A p \in Heads : BlockOrder(p)' = BlockOrder(p)
  BY <1>1, Zenon DEF Heads, Linked, InFlight, BlockOrder
<1>3. 0 \in Orders /\ 0 \in 0 .. NrFrames
  BY DEF Orders
<1>4. TypeOK' /\ OpInv'
  BY <1>1, <1>3, Zenon DEF StructInv, TypeOK, OpInv, InFlight
<1>5. BlockInv' /\ TailInv'
  BY <1>1, <1>2, Zenon DEF StructInv, BlockInv, TailInv
<1>6. ListInv'
  BY <1>1, <1>2, Zenon DEF StructInv, ListInv
<1>7. QED
  BY <1>4, <1>5, <1>6 DEF StructInv

-----------------------------------------------------------------------------
(* What each step does to the free and the held frames, hence the frame    *)
(* accounting, the inductive invariant, and the refinement of FramePool.   *)

\* A block of order o is Size[o] consecutive frames, its head the first.
LEMMA RunFacts ==
    ASSUME NEW p \in Frames, NEW o \in Orders
    PROVE  /\ \A f \in Int : f \in Run(p, o) <=> p <= f /\ f < p + Size[o]
           /\ p \in Run(p, o)
           /\ IsFiniteSet(Run(p, o)) /\ Cardinality(Run(p, o)) = Size[o]
<1>1. p \in Int /\ Size[o] \in Nat /\ Size[o] >= 1
  BY SizeFacts DEF Frames
<1>2. p + Size[o] - 1 \in Int
  BY <1>1
<1>3. IsFiniteSet(Run(p, o)) /\ Cardinality(Run(p, o)) = Size[o]
  <2> DEFINE e == p + Size[o] - 1
  <2>1. e \in Int /\ ~(p > e) /\ e - p + 1 = Size[o]
    BY <1>1, SMTT(60)
  <2>2. /\ IsFiniteSet(p .. e)
        /\ Cardinality(p .. e) = IF p > e THEN 0 ELSE e - p + 1
    BY <1>1, <2>1, FS_Interval, Zenon
  <2>3. QED
    BY <2>1, <2>2, Zenon DEF Run
<1>4. QED
  BY <1>1, <1>3, SMTT(60) DEF Run

\* Two blocks share no frame.
LEMMA BlocksApart ==
    ASSUME StructInv, NEW p \in Heads, NEW q \in Heads, p # q,
           NEW f \in Frames, f \in Run(p, BlockOrder(p))
    PROVE  f \notin Run(q, BlockOrder(q))
<1>1. /\ p \in Frames /\ p \in Nat /\ BlockOrder(p) \in Orders
      /\ Size[BlockOrder(p)] \in Nat
      /\ p < q => p + Size[BlockOrder(p)] <= q
  BY BlockFacts, Zenon
<1>2. /\ q \in Frames /\ q \in Nat /\ BlockOrder(q) \in Orders
      /\ Size[BlockOrder(q)] \in Nat
      /\ q < p => q + Size[BlockOrder(q)] <= p
  BY BlockFacts, Zenon
<1>3. f \in Int
  BY DEF Frames
<1>4. p <= f /\ f < p + Size[BlockOrder(p)]
  BY <1>1, <1>3, RunFacts, Zenon
<1>5. f \in Run(q, BlockOrder(q)) => q <= f /\ f < q + Size[BlockOrder(q)]
  BY <1>2, <1>3, RunFacts, Zenon
<1>6. ~(q <= f /\ f < q + Size[BlockOrder(q)])
  <2> HIDE DEF BlockOrder
  <2>1. PICK m, n \in Nat : m = Size[BlockOrder(p)] /\ n = Size[BlockOrder(q)]
    BY <1>1, <1>2, Zenon
  <2>2. /\ p <= f /\ f < p + m
        /\ p < q => p + m <= q
        /\ q < p => q + n <= p
    BY <1>1, <1>2, <1>4, <2>1, Zenon
  <2>3. p < q \/ q < p
    BY <1>1, <1>2
  <2>4. ~(q <= f /\ f < q + n)
    BY <1>1, <1>2, <1>3, <2>2, <2>3
  <2>5. QED
    BY <2>1, <2>4
<1>7. QED
  BY <1>5, <1>6

\* No block reaches past the end of the mem-map.
LEMMA BlockInFrames ==
    ASSUME StructInv, NEW p \in Heads
    PROVE  Run(p, BlockOrder(p)) \subseteq Frames
<1>1. /\ p \in Nat /\ BlockOrder(p) \in Orders /\ Size[BlockOrder(p)] \in Nat
      /\ p + Size[BlockOrder(p)] <= NrFrames
  BY BlockFacts
<1>2. \A n \in Nat : p + n <= NrFrames => p .. p + n - 1 \subseteq 0 .. NrFrames - 1
  BY <1>1
<1>3. QED
  BY <1>1, <1>2, Zenon DEF Run, Frames

-----------------------------------------------------------------------------
(* Effects.                                                                *)

\* pop_front only takes a free block in hand.
LEMMA AllocPopEffect ==
    ASSUME StructInv, NEW want \in Orders, AllocPop(want)
    PROVE  FreeFrames' = FreeFrames /\ Held' = Held
<1>1. PICK j \in want .. MaxOrder - 1 :
        /\ pc = "idle" /\ free_area[j] # None
        /\ pc' = "split" /\ cur' = free_area[j] /\ k' = j
        /\ UNCHANGED <<state, order, free_frames>>
  BY DEF AllocPop
<1>2. j \in Orders /\ state[cur'] = "Free" /\ order[cur'] = j
  BY <1>1, SMTT(60) DEF StructInv, ListInv, Linked, Orders
<1>3. /\ Heads' = Heads /\ HeldHeads' = HeldHeads
      /\ \A p \in Heads : BlockOrder(p)' = BlockOrder(p)
  BY <1>1, <1>2, Zenon DEF Heads, HeldHeads, InFlight, BlockOrder
<1>4. QED
  BY <1>1, <1>3, Zenon DEF FreeFrames, Held

\* A split turns one free block into two, over the same frames.
LEMMA AllocSplitEffect ==
    ASSUME StructInv, AllocSplit
    PROVE  FreeFrames' = FreeFrames /\ Held' = Held
<1>0. PICK b : b = cur + Size[k - 1]
  OBVIOUS
<1>1. /\ pc = "split" /\ k > goal /\ pc' = pc /\ cur' = cur /\ k' = k - 1
      /\ state' = [state EXCEPT ![b] = "Free"]
      /\ order' = [order EXCEPT ![b] = k - 1]
  BY <1>0, Zenon DEF AllocSplit
<1>2. /\ k \in Orders /\ k - 1 \in Orders
      /\ Size[k] = 2 * Size[k - 1] /\ Size[k - 1] \in Nat /\ Size[k - 1] >= 1
  <2>1. k \in Orders /\ goal \in Orders
    BY <1>1 DEF StructInv, TypeOK, OpInv
  <2>2. k > 0
    BY <1>1, <2>1 DEF Orders
  <2>3. k - 1 \in Orders /\ Size[k] = 2 * Size[k - 1]
    BY <2>1, <2>2, SizeFacts, Zenon
  <2>4. Size[k - 1] \in Nat /\ Size[k - 1] >= 1
    BY <2>3, SizeFacts, Zenon
  <2>5. QED
    BY <2>1, <2>3, <2>4
<1>3. /\ cur \in Heads /\ cur \notin HeldHeads /\ BlockOrder(cur) = k
  BY <1>1 DEF StructInv, OpInv, InFlight, HeldHeads, BlockOrder
<1>4. /\ cur \in Frames /\ cur \in Nat /\ cur + Size[k] <= NrFrames
      /\ \A f \in Frames : cur < f /\ f < cur + Size[k] => state[f] = "Tail"
  BY <1>3, BlockFacts, Zenon
<1>5. b \in Frames /\ b \in Nat /\ state[b] = "Tail" /\ b + Size[k - 1] = cur + Size[k]
  <2>1. cur \in Nat /\ cur + Size[k] <= NrFrames
    BY <1>4
  <2>2. /\ b \in Nat /\ cur < b /\ b < cur + Size[k] /\ b + Size[k - 1] = cur + Size[k]
        /\ b \in Frames
    BY <1>0, <1>2, <2>1, SMTT(60) DEF Frames
  <2>3. QED
    BY <2>2, <1>4
<1>6. /\ Heads' = Heads \cup {b} /\ b \notin Heads /\ HeldHeads' = HeldHeads
      /\ b \notin HeldHeads
      /\ \A p \in HeldHeads : order'[p] = order[p]
  BY <1>1, <1>5, SMTT(60) DEF Heads, HeldHeads, InFlight, StructInv, TypeOK
<1>7. /\ \A p \in Heads : p # cur => BlockOrder(p)' = BlockOrder(p)
      /\ \A p \in Heads : p = cur => BlockOrder(p)' = k - 1
      /\ BlockOrder(b)' = k - 1
  BY <1>1, <1>2, <1>5, <1>6 DEF BlockOrder, InFlight, Heads, StructInv, TypeOK
<1>8. \A f \in Frames : f \in Run(cur, k) <=> f \in Run(cur, k - 1) \/ f \in Run(b, k - 1)
  <2>1. PICK s \in Nat : s = Size[k - 1] /\ Size[k] = 2 * s /\ b = cur + s
    BY <1>0, <1>2, Zenon
  <2>2. \A f \in Int : /\ f \in Run(cur, k) <=> cur <= f /\ f < cur + 2 * s
                       /\ f \in Run(cur, k - 1) <=> cur <= f /\ f < cur + s
                       /\ f \in Run(b, k - 1) <=> b <= f /\ f < b + s
    BY <1>2, <1>4, <1>5, <2>1, RunFacts, Zenon
  <2>3. \A f \in Frames : f \in Int
    BY DEF Frames
  <2>4. PICK c \in Nat : c = cur
    BY <1>4
  <2>5. ASSUME NEW f \in Int
        PROVE  cur <= f /\ f < cur + 2 * s <=>
                 (cur <= f /\ f < cur + s) \/ (b <= f /\ f < b + s)
    <3>1. c <= f /\ f < c + 2 * s <=>
            (c <= f /\ f < c + s) \/ (c + s <= f /\ f < (c + s) + s)
      OBVIOUS
    <3>2. QED
      BY <2>1, <2>4, <3>1
  <2>6. QED
    BY <2>2, <2>3, <2>5, Zenon
<1>9. FreeFrames' = FreeFrames
  <2>1. ASSUME NEW f \in Frames
        PROVE  f \in FreeFrames' <=> f \in FreeFrames
    BY <1>3, <1>6, <1>7, <1>8, Zenon DEF FreeFrames
  <2>2. QED
    BY <2>1 DEF FreeFrames
<1>10. QED
  BY <1>6, <1>9 DEF Held

\* AllocDone hands over exactly the block in hand, all of it free until now.
LEMMA AllocDoneEffect ==
    ASSUME StructInv, AllocDone
    PROVE  /\ cur \in Frames /\ goal \in Orders
           /\ Run(cur, goal) \subseteq FreeFrames
           /\ FreeFrames' = FreeFrames \ Run(cur, goal)
           /\ Held' = Held \cup {<<cur, goal>>}
<1>0. PICK b : b = cur
  OBVIOUS
<1>1. /\ pc = "split" /\ k = goal /\ pc' = "idle"
      /\ state' = [state EXCEPT ![b] = "Allocated"]
      /\ order' = [order EXCEPT ![b] = goal]
  BY <1>0 DEF AllocDone, Idle
<1>2. b \in Heads /\ b \notin HeldHeads /\ b \in Frames /\ k \in Orders
      /\ BlockOrder(b) = k
  BY <1>0, <1>1, Zenon DEF StructInv, TypeOK, OpInv, InFlight, Heads, HeldHeads, BlockOrder
<1>3. /\ Heads' = Heads /\ HeldHeads' = HeldHeads \cup {b}
      /\ \A p \in HeldHeads : order'[p] = order[p]
      /\ order'[b] = goal
      /\ \A p \in Heads : BlockOrder(p)' = BlockOrder(p)
  BY <1>0, <1>1, <1>2 DEF Heads, HeldHeads, InFlight, BlockOrder, StructInv, TypeOK
<1>4. Run(b, k) \subseteq FreeFrames
  BY <1>2, BlockInFrames DEF FreeFrames
<1>5. FreeFrames' = FreeFrames \ Run(b, k)
  <2>1. ASSUME NEW f \in Frames
        PROVE  f \in FreeFrames' <=> f \in FreeFrames /\ f \notin Run(b, k)
    BY <1>2, <1>3, BlocksApart DEF FreeFrames
  <2>2. QED
    BY <2>1 DEF FreeFrames
<1>6. Held' = Held \cup {<<b, goal>>}
  BY <1>3 DEF Held
<1>7. QED
  BY <1>0, <1>1, <1>2, <1>4, <1>5, <1>6

\* FreeBegin takes back exactly what the caller held.
LEMMA FreeBeginEffect ==
    ASSUME StructInv, NEW p \in Frames, FreeBegin(p)
    PROVE  /\ order[p] \in Orders /\ <<p, order[p]>> \in Held
           /\ Run(p, order[p]) \cap FreeFrames = {}
           /\ FreeFrames' = FreeFrames \cup Run(p, order[p])
           /\ Held' = Held \ {<<p, order[p]>>}
<1>1. /\ pc = "idle" /\ state[p] = "Allocated" /\ pc' = "merge" /\ cur' = p
      /\ k' = order[p] /\ state' = state /\ order' = order
  BY DEF FreeBegin
<1>2. p \in Heads /\ p \in HeldHeads /\ BlockOrder(p) = order[p]
  BY <1>1 DEF Heads, HeldHeads, BlockOrder, InFlight
<1>3. order[p] \in Orders /\ Run(p, order[p]) \subseteq Frames
  BY <1>2, BlockFacts, BlockInFrames
<1>4. /\ Heads' = Heads /\ HeldHeads' = HeldHeads \ {p}
      /\ \A q \in Heads : BlockOrder(q)' = BlockOrder(q)
  BY <1>1 DEF Heads, HeldHeads, InFlight, BlockOrder
<1>5. Run(p, order[p]) \cap FreeFrames = {}
  BY <1>2, BlocksApart DEF FreeFrames
<1>6. FreeFrames' = FreeFrames \cup Run(p, order[p])
  <2>1. ASSUME NEW f \in Frames
        PROVE  f \in FreeFrames' <=> f \in FreeFrames \/ f \in Run(p, order[p])
    BY <1>2, <1>4 DEF FreeFrames
  <2>2. QED
    BY <2>1, <1>3 DEF FreeFrames
<1>7. <<p, order[p]>> \in Held /\ Held' = Held \ {<<p, order[p]>>}
  BY <1>1, <1>2, <1>4 DEF Held
<1>8. QED
  BY <1>3, <1>5, <1>6, <1>7

\* A merge turns two free blocks into one, over the same frames.
LEMMA FreeMergeEffect ==
    ASSUME StructInv, FreeMerge
    PROVE  FreeFrames' = FreeFrames /\ Held' = Held
<1>1. PICK b \in Linked, h \in Heads, t \in Heads :
             /\ b \in {h, t} /\ cur \in {h, t} /\ b # cur
             /\ t = h + Size[k]
             /\ k \in Orders /\ k + 1 \in Orders /\ Size[k + 1] = 2 * Size[k]
             /\ BlockOrder(h) = k /\ BlockOrder(t) = k
             /\ pc = "merge"
             /\ state' = [state EXCEPT ![t] = "Tail"]
             /\ cur' = h /\ k' = k + 1
             /\ order' = order /\ pc' = pc
  BY FreeMergeFacts, Zenon
<1>2. /\ h \in Frames /\ t \in Frames /\ h \in Nat /\ Size[k] \in Nat /\ Size[k] >= 1
  BY <1>1, BlockFacts, Zenon
<1>3. h # t /\ \A f \in Frames : f \in Run(h, k + 1) <=> f \in Run(h, k) \/ f \in Run(t, k)
  <2>1. t = h + Size[k] /\ Size[k + 1] = 2 * Size[k]
    BY <1>1
  <2>2. QED
    BY <2>1, <1>2, SMTT(60) DEF Run, Frames
<1>4. /\ h \notin HeldHeads /\ t \notin HeldHeads
      /\ Heads' = Heads \ {t} /\ HeldHeads' = HeldHeads
  <2>1. /\ pc = "merge" /\ pc' = "merge" /\ cur' = h
        /\ state' = [state EXCEPT ![t] = "Tail"] /\ state \in [Frames -> PageStates]
        /\ state[b] = "Free"
        /\ (b = h /\ cur = t) \/ (b = t /\ cur = h)
    BY <1>1, SMTT(60) DEF Linked, StructInv, TypeOK
  <2>2. QED
    BY <2>1, <1>2, Zenon DEF Heads, HeldHeads, InFlight
<1>5. /\ \A q \in Heads' : q # h => BlockOrder(q)' = BlockOrder(q)
      /\ BlockOrder(h)' = k + 1
  BY <1>1, <1>4, Zenon DEF BlockOrder, InFlight
<1>6. FreeFrames' = FreeFrames
  <2>1. ASSUME NEW f \in Frames
        PROVE  f \in FreeFrames' <=> f \in FreeFrames
    <3>1. f \in FreeFrames' <=> \E p \in Heads' \ HeldHeads' : f \in Run(p, BlockOrder(p)')
      BY DEF FreeFrames
    <3>2. f \in FreeFrames <=> \E p \in Heads \ HeldHeads : f \in Run(p, BlockOrder(p))
      BY DEF FreeFrames
    <3>3. BlockOrder(h) = k /\ BlockOrder(t) = k
      BY <1>1, Zenon
    <3>4. QED
      BY <3>1, <3>2, <3>3, <1>3, <1>4, <1>5, Zenon
  <2>2. QED
    BY <2>1 DEF FreeFrames
<1>7. QED
  BY <1>1, <1>4, <1>6 DEF Held

\* The last step of free only puts the block in hand on a list.
LEMMA FreeDoneEffect ==
    ASSUME StructInv, FreeDone
    PROVE  FreeFrames' = FreeFrames /\ Held' = Held
<1>0. PICK b : b = cur
  OBVIOUS
<1>1. /\ pc = "merge" /\ pc' = "idle"
      /\ state' = [state EXCEPT ![b] = "Free"]
      /\ order' = [order EXCEPT ![b] = k]
  BY <1>0 DEF FreeDone, Idle
<1>2. b \in Heads /\ b \in Frames /\ b \notin HeldHeads
  BY <1>0, <1>1, Zenon DEF StructInv, OpInv, InFlight, Heads, HeldHeads
<1>3. /\ Heads' = Heads /\ HeldHeads' = HeldHeads
      /\ \A p \in HeldHeads : order'[p] = order[p]
      /\ \A q \in Heads : BlockOrder(q)' = BlockOrder(q)
  BY <1>0, <1>1, <1>2, Zenon DEF Heads, HeldHeads, InFlight, BlockOrder, StructInv, TypeOK
<1>4. QED
  BY <1>3, Zenon DEF FreeFrames, Held

\* RangeCarve adds frames that were neither free nor held.
LEMMA RangeCarveEffect ==
    ASSUME StructInv, RangeCarve
    PROVE  \E b \in Frames, o \in Orders :
             /\ Run(b, o) \subseteq Frames
             /\ Run(b, o) \cap FreeFrames = {}
             /\ \A h \in HeldHeads : Run(b, o) \cap Run(h, order[h]) = {}
             /\ FreeFrames' = FreeFrames \cup Run(b, o)
             /\ free_frames' = free_frames + Size[o]
             /\ Held' = Held
<1>1. PICK o \in Orders, b \in Frames :
             /\ b = cur /\ pc = "carve" /\ Size[o] \in Nat /\ Size[o] >= 1
             /\ goal \in Nat /\ goal <= NrFrames /\ b + Size[o] <= goal
             /\ \A f \in Frames : b <= f /\ f < goal => state[f] = "Reserved"
             /\ state' = [f \in Frames |-> IF f = b THEN "Free"
                                           ELSE IF f \in Run(b, o) THEN "Tail"
                                           ELSE state[f]]
             /\ order' = [order EXCEPT ![b] = o]
             /\ free_frames' = free_frames + Size[o]
             /\ pc' = pc
  BY RangeCarveFacts, Zenon
<1>2. /\ Run(b, o) \subseteq Frames /\ b \in Run(b, o)
      /\ \A f \in Run(b, o) : state[f] = "Reserved"
  <2>1. ASSUME NEW f \in Run(b, o)
        PROVE  f \in Frames /\ b <= f /\ f < goal
    <3>1. b \in Nat /\ Size[o] \in Nat /\ goal \in Nat /\ b + Size[o] <= goal
          /\ goal <= NrFrames
      BY <1>1 DEF Frames
    <3>2. QED
      BY <3>1, <2>1, SMTT(60) DEF Run, Frames
  <2>2. QED
    BY <2>1, <1>1, RunFacts, Zenon
<1>3. /\ Heads' = Heads \cup {b} /\ HeldHeads' = HeldHeads /\ b \notin Heads
      /\ \A p \in Heads : BlockOrder(p)' = BlockOrder(p)
      /\ \A p \in HeldHeads : order'[p] = order[p]
      /\ BlockOrder(b)' = o
  BY <1>1, <1>2, SMTT(60) DEF Heads, HeldHeads, InFlight, BlockOrder, StructInv, TypeOK
<1>4. \A p \in Heads : Run(b, o) \cap Run(p, BlockOrder(p)) = {}
  <2>1. ASSUME NEW p \in Heads, NEW f \in Run(b, o), f \in Run(p, BlockOrder(p))
        PROVE  FALSE
    <3>1. f \in Frames /\ f \in Int /\ state[f] = "Reserved" /\ f # p
      BY <2>1, <1>2 DEF Heads, Frames
    <3>2. /\ p \in Frames /\ p \in Int /\ BlockOrder(p) \in Orders
          /\ Size[BlockOrder(p)] \in Nat
          /\ p < f /\ f < p + Size[BlockOrder(p)] => state[f] = "Tail"
      BY <3>1, BlockFacts, SMTT(60)
    <3>3. p <= f /\ f < p + Size[BlockOrder(p)]
      BY <2>1, <3>1, <3>2, RunFacts, Zenon
    <3>4. QED
      BY <3>1, <3>2, <3>3
  <2>2. QED
    BY <2>1
<1>5. Run(b, o) \cap FreeFrames = {}
  BY <1>4 DEF FreeFrames
<1>6. \A h \in HeldHeads : Run(b, o) \cap Run(h, order[h]) = {}
  <2>1. \A h \in HeldHeads : h \in Heads /\ BlockOrder(h) = order[h]
    BY DEF HeldHeads, Heads, BlockOrder
  <2>2. QED
    BY <2>1, <1>4
<1>7. FreeFrames' = FreeFrames \cup Run(b, o)
  <2>1. ASSUME NEW f \in Frames
        PROVE  f \in FreeFrames' <=> f \in FreeFrames \/ f \in Run(b, o)
    <3>1. f \in FreeFrames' <=> \E p \in Heads' \ HeldHeads' : f \in Run(p, BlockOrder(p)')
      BY DEF FreeFrames
    <3>2. f \in FreeFrames <=> \E p \in Heads \ HeldHeads : f \in Run(p, BlockOrder(p))
      BY DEF FreeFrames
    <3>3. b \notin HeldHeads
      BY <1>3, Zenon DEF HeldHeads, Heads
    <3>4. QED
      BY <3>1, <3>2, <3>3, <1>3, Zenon
  <2>2. QED
    BY <2>1, <1>2, Zenon DEF FreeFrames
<1>8. Held' = Held
  BY <1>3, Zenon DEF Held
<1>9. QED
  BY <1>1, <1>2, <1>5, <1>6, <1>7, <1>8, Zenon

\* Entering and leaving free_range moves no frame.
LEMMA RangeBoundsEffect ==
    ASSUME StructInv, RangeDone \/ \E d \in Donations : RangeBegin(d[1], d[2])
    PROVE  FreeFrames' = FreeFrames /\ Held' = Held /\ free_frames' = free_frames
<1>1. /\ state' = state /\ order' = order /\ free_frames' = free_frames
      /\ ~InFlight /\ ~InFlight'
  BY DEF RangeDone, RangeBegin, Idle, InFlight
<1>2. /\ Heads' = Heads /\ HeldHeads' = HeldHeads
      /\ \A q \in Heads : BlockOrder(q)' = BlockOrder(q)
  BY <1>1, Zenon DEF Heads, HeldHeads, BlockOrder
<1>3. QED
  BY <1>1, <1>2, Zenon DEF FreeFrames, Held

-----------------------------------------------------------------------------
(* Accounting.                                                             *)

\* There are finitely many free frames.
LEMMA FreeFramesFinite == IsFiniteSet(FreeFrames) /\ Cardinality(FreeFrames) \in Nat
<1>1. IsFiniteSet(Frames)
  BY FS_Interval DEF Frames
<1>2. FreeFrames \in SUBSET Frames
  BY DEF FreeFrames
<1>3. QED
  BY <1>1, <1>2, FS_Subset, FS_CardinalityType

\* Adding a run of frames that were not free adds Size[o] to their number.
LEMMA GrowCount ==
    ASSUME NEW b \in Frames, NEW o \in Orders, Run(b, o) \cap FreeFrames = {}
    PROVE  Cardinality(FreeFrames \cup Run(b, o)) = Cardinality(FreeFrames) + Size[o]
<1>1. IsFiniteSet(Run(b, o)) /\ Cardinality(Run(b, o)) = Size[o] /\ Size[o] \in Nat
  BY RunFacts, SizeFacts, Zenon
<1>2. Cardinality(FreeFrames \cup Run(b, o))
        = Cardinality(FreeFrames) + Size[o] - Cardinality(FreeFrames \cap Run(b, o))
  BY <1>1, FreeFramesFinite, FS_Union, Zenon
<1>3. FreeFrames \cap Run(b, o) = {}
  OBVIOUS
<1>4. Cardinality(FreeFrames \cap Run(b, o)) = 0
  BY <1>3, FS_EmptySet, Zenon
<1>5. QED
  BY <1>1, <1>2, <1>4, FreeFramesFinite

\* Removing a run of free frames subtracts Size[o] from their number.
LEMMA ShrinkCount ==
    ASSUME NEW b \in Frames, NEW o \in Orders, Run(b, o) \subseteq FreeFrames
    PROVE  Cardinality(FreeFrames \ Run(b, o)) = Cardinality(FreeFrames) - Size[o]
<1>1. Cardinality(Run(b, o)) = Size[o]
  BY RunFacts, Zenon
<1>2. Cardinality(FreeFrames \ Run(b, o))
        = Cardinality(FreeFrames) - Cardinality(FreeFrames \cap Run(b, o))
  BY FreeFramesFinite, FS_Difference, Zenon
<1>3. FreeFrames \cap Run(b, o) = Run(b, o)
  BY Zenon
<1>4. QED
  BY <1>1, <1>2, <1>3, Zenon

\* What no step does to the free frames, it does not do to their number.
LEMMA SameCount ==
    ASSUME Accounting, FreeFrames' = FreeFrames, free_frames' = free_frames
    PROVE  Accounting'
BY DEF Accounting

\* alloc's `free_frames -= 1 << order' cannot underflow, because the block in
\* hand is part of what the counter counts.
LEMMA AllocDoneAccounting ==
    ASSUME StructInv, Accounting, AllocDone
    PROVE  Accounting' /\ free_frames' \in Nat
<1>1. free_frames' = free_frames - Size[goal]
  BY DEF AllocDone
<1>2. Cardinality(FreeFrames \ Run(cur, goal)) = Cardinality(FreeFrames) - Size[goal]
  BY AllocDoneEffect, ShrinkCount, Zenon
<1>3. Accounting'
  BY <1>1, <1>2, AllocDoneEffect, Zenon DEF Accounting
<1>4. IsFiniteSet(FreeFrames \ Run(cur, goal))
  BY FreeFramesFinite, FS_Difference, Zenon
<1>5. Cardinality(FreeFrames \ Run(cur, goal)) \in Nat
  BY <1>4, FS_CardinalityType
<1>6. QED
  BY <1>1, <1>2, <1>3, <1>5 DEF Accounting

\* free raises the counter by what it takes back.
LEMMA FreeBeginAccounting ==
    ASSUME StructInv, Accounting, NEW p \in Frames, FreeBegin(p)
    PROVE  Accounting'
<1>1. free_frames' = free_frames + Size[order[p]]
  BY DEF FreeBegin
<1>2. Cardinality(FreeFrames \cup Run(p, order[p]))
        = Cardinality(FreeFrames) + Size[order[p]]
  BY FreeBeginEffect, GrowCount, Zenon
<1>3. QED
  BY <1>1, <1>2, FreeBeginEffect, Zenon DEF Accounting

\* free_range raises the counter by the block it carves.
LEMMA RangeCarveAccounting ==
    ASSUME StructInv, Accounting, RangeCarve
    PROVE  Accounting'
<1>1. PICK b \in Frames, o \in Orders :
             /\ Run(b, o) \cap FreeFrames = {}
             /\ FreeFrames' = FreeFrames \cup Run(b, o)
             /\ free_frames' = free_frames + Size[o]
  BY RangeCarveEffect, Zenon
<1>2. Cardinality(FreeFrames \cup Run(b, o)) = Cardinality(FreeFrames) + Size[o]
  BY <1>1, GrowCount
<1>3. QED
  BY <1>1, <1>2 DEF Accounting

-----------------------------------------------------------------------------
(* The inductive invariant and what follows from it.                       *)

\* new() establishes the invariant.
LEMMA InitIInv == Init => IInv
<1>1. Init => FreeFrames = {}
  BY DEF Init, FreeFrames, Heads
<1>2. Cardinality({}) = 0
  BY FS_EmptySet
<1>3. QED
  BY <1>1, <1>2, InitStructInv, Zenon DEF Init, IInv, Accounting

\* Every step of alloc, free and free_range preserves the invariant.
LEMMA NextIInv == IInv /\ [Next]_vars => IInv'
<1> SUFFICES ASSUME IInv, [Next]_vars PROVE IInv'
  OBVIOUS
<1>0. StructInv /\ Accounting
  BY DEF IInv
<1>1. ASSUME NEW want \in Orders, AllocPop(want) PROVE IInv'
  BY <1>0, <1>1, AllocPopStructInv, AllocPopEffect, SameCount, Zenon DEF IInv, AllocPop
<1>2. CASE AllocSplit
  BY <1>0, <1>2, AllocSplitStructInv, AllocSplitEffect, SameCount, Zenon DEF IInv, AllocSplit
<1>3. CASE AllocDone
  BY <1>0, <1>3, AllocDoneStructInv, AllocDoneAccounting DEF IInv
<1>4. ASSUME NEW p \in Frames, FreeBegin(p) PROVE IInv'
  BY <1>0, <1>4, FreeBeginStructInv, FreeBeginAccounting DEF IInv
<1>5. CASE FreeMerge
  BY <1>0, <1>5, FreeMergeStructInv, FreeMergeEffect, SameCount, Zenon DEF IInv, FreeMerge
<1>6. CASE FreeDone
  BY <1>0, <1>6, FreeDoneStructInv, FreeDoneEffect, SameCount DEF IInv, FreeDone
<1>7. ASSUME NEW d \in Donations, RangeBegin(d[1], d[2]) PROVE IInv'
  <2>1. FreeFrames' = FreeFrames /\ free_frames' = free_frames
    BY <1>0, <1>7, RangeBoundsEffect
  <2>2. QED
    BY <1>0, <1>7, <2>1, RangeBeginStructInv, SameCount DEF IInv
<1>8. CASE RangeCarve
  BY <1>0, <1>8, RangeCarveStructInv, RangeCarveAccounting DEF IInv
<1>9. CASE RangeDone
  BY <1>0, <1>9, RangeDoneStructInv, RangeBoundsEffect, SameCount DEF IInv
<1>10. CASE UNCHANGED vars
  <2>1. UNCHANGED <<state, order, next, prev, free_area, free_frames, pc, cur, k, goal>>
    BY <1>10 DEF vars
  <2>2. UNCHANGED <<Heads, Linked, HeldHeads>> /\ \A p \in Frames : BlockOrder(p)' = BlockOrder(p)
    BY <2>1, Zenon DEF Heads, Linked, HeldHeads, BlockOrder, InFlight
  <2>3. \A p \in Heads : p \in Frames
    BY DEF Heads
  <2>4. TypeOK'
    BY <1>0, <2>1, Zenon DEF StructInv, TypeOK
  <2>5. BlockInv'
    BY <1>0, <2>1, <2>2, <2>3, Zenon DEF StructInv, BlockInv
  <2>6. TailInv'
    BY <1>0, <2>1, <2>2, <2>3, Zenon DEF StructInv, TailInv
  <2>7. ListInv'
    BY <1>0, <2>1, <2>2, Zenon DEF StructInv, ListInv
  <2>8. OpInv'
    BY <1>0, <2>1, <2>2, Zenon DEF StructInv, OpInv, InFlight
  <2>9. FreeFrames' = FreeFrames
    BY <2>2, <2>3 DEF FreeFrames
  <2>10. Accounting'
    BY <1>0, <2>1, <2>9, SameCount, Zenon
  <2>11. QED
    BY <2>4, <2>5, <2>6, <2>7, <2>8, <2>10 DEF IInv, StructInv
<1>11. QED
  BY <1>1, <1>2, <1>3, <1>4, <1>5, <1>6, <1>7, <1>8, <1>9, <1>10, SMTT(30)
     DEF Next, Step, AllocNone

\* The invariant of the allocator's data structures (blocks, tails, links, the
\* locals of the running loop and the counter) holds in every reachable state.
THEOREM Invariance == Spec => []IInv
<1>1. Init => IInv
  BY InitIInv
<1>2. IInv /\ [Next]_vars => IInv'
  BY NextIInv
<1>3. QED
  BY <1>1, <1>2, PTL DEF Spec

\* Every field of the mem-map and every local keeps its type; links never leave
\* the mem-map, and free_frames never goes negative.
THEOREM TypeCorrect == Spec => []TypeOK
<1>1. IInv => TypeOK
  BY DEF IInv, StructInv
<1>2. QED
  BY <1>1, Invariance, PTL

\* alloc, free and free_range never let two blocks share a frame, for any
\* number of frames, any MAX_ORDER and any sequence of calls.
THEOREM BlocksAreDisjoint == Spec => []BlocksDisjoint
<1>1. IInv => BlocksDisjoint
  <2> SUFFICES ASSUME IInv PROVE BlocksDisjoint
    OBVIOUS
  <2>1. StructInv
    BY DEF IInv
  <2>2. \A p \in Heads : Run(p, BlockOrder(p)) \subseteq Frames
    BY <2>1, BlockInFrames
  <2>3. ASSUME NEW p \in Heads, NEW q \in Heads, p # q
        PROVE  Run(p, BlockOrder(p)) \cap Run(q, BlockOrder(q)) = {}
    BY <2>1, <2>2, <2>3, BlocksApart, Zenon
  <2>4. QED
    BY <2>2, <2>3, Zenon DEF BlocksDisjoint
<1>2. QED
  BY <1>1, Invariance, PTL

\* Every Tail frame belongs to a block: coalescing and splitting lose nothing.
THEOREM NoFrameIsLost == Spec => []NoLostFrames
<1>1. IInv => NoLostFrames
  <2> SUFFICES ASSUME IInv, NEW f \in Frames, state[f] = "Tail"
               PROVE  \E p \in Heads : f \in Run(p, BlockOrder(p))
    BY DEF NoLostFrames
  <2>1. StructInv
    BY DEF IInv
  <2>2. PICK p \in Heads : p < f /\ f < p + Size[BlockOrder(p)]
    BY <2>1, Zenon DEF StructInv, TailInv
  <2>3. p \in Frames /\ BlockOrder(p) \in Orders /\ p \in Int /\ f \in Int
    BY <2>1, BlockFacts DEF Frames
  <2>4. f \in Run(p, BlockOrder(p))
    BY <2>2, <2>3, RunFacts
  <2>5. QED
    BY <2>4, Zenon
<1>2. QED
  BY <1>1, Invariance, PTL

\* The free_frames counter is exact in every state.
THEOREM AccountingIsExact == Spec => []Accounting
<1>1. IInv => Accounting
  BY DEF IInv
<1>2. QED
  BY <1>1, Invariance, PTL

-----------------------------------------------------------------------------
(* The refinement.                                                         *)

\* A run apart from every held block is apart from the held frames.
LEMMA HeldFramesFacts ==
    ASSUME NEW S, \A h \in HeldHeads : S \cap Run(h, order[h]) = {}
    PROVE  S \cap Pool!HeldFrames = {}
<1>1. Pool!HeldFrames = UNION {Run(h[1], h[2]) : h \in Held}
  BY DEF Pool!HeldFrames, Pool!Run, Run
<1>2. \A h \in Held : h[1] \in HeldHeads /\ h[2] = order[h[1]]
  BY DEF Held
<1>3. QED
  BY <1>1, <1>2

\* Each step of Buddy is a step of FramePool on the free and held frames, or
\* leaves them alone.
LEMMA StepRefines == IInv /\ [Next]_vars => [Pool!Next]_(Pool!vars)
<1> SUFFICES ASSUME IInv, [Next]_vars
             PROVE  Pool!Next \/ (FreeFrames' = FreeFrames /\ Held' = Held)
  BY DEF Pool!vars
<1>0. StructInv /\ Accounting
  BY DEF IInv
<1>1. ASSUME NEW want \in Orders, AllocPop(want)
      PROVE  FreeFrames' = FreeFrames /\ Held' = Held
  BY <1>0, <1>1, AllocPopEffect
<1>2. CASE AllocSplit
  BY <1>0, <1>2, AllocSplitEffect
<1>3. CASE AllocDone
  <2>1. cur \in Frames /\ goal \in Orders /\ Pool!Alloc(cur, goal)
    BY <1>0, <1>3, AllocDoneEffect, Zenon DEF Pool!Alloc, Pool!Run, Run
  <2>2. QED
    BY <2>1 DEF Pool!Next
<1>4. ASSUME NEW p \in Frames, FreeBegin(p) PROVE Pool!Next
  <2>1. order[p] \in Orders /\ Pool!Free(p, order[p])
    BY <1>0, <1>4, FreeBeginEffect, Zenon DEF Pool!Free, Pool!Run, Run
  <2>2. QED
    BY <2>1 DEF Pool!Next
<1>5. CASE FreeMerge
  BY <1>0, <1>5, FreeMergeEffect
<1>6. CASE FreeDone
  BY <1>0, <1>6, FreeDoneEffect
<1>7. CASE RangeDone \/ \E d \in Donations : RangeBegin(d[1], d[2])
  BY <1>0, <1>7, RangeBoundsEffect
<1>8. CASE RangeCarve
  <2>1. PICK b \in Frames, o \in Orders :
             /\ Run(b, o) \subseteq Frames
             /\ Run(b, o) \cap FreeFrames = {}
             /\ \A h \in HeldHeads : Run(b, o) \cap Run(h, order[h]) = {}
             /\ FreeFrames' = FreeFrames \cup Run(b, o)
             /\ Held' = Held
    BY <1>0, <1>8, RangeCarveEffect, Zenon
  <2>2. Run(b, o) \cap Pool!HeldFrames = {}
    BY <2>1, HeldFramesFacts
  <2>3. Run(b, o) = Pool!Run(b, o)
    BY DEF Run, Pool!Run
  <2>4. Pool!Donate(b, o)
    BY <2>1, <2>2, <2>3, Zenon DEF Pool!Donate
  <2>5. QED
    BY <2>4 DEF Pool!Next
<1>9. CASE UNCHANGED vars
  BY <1>9, Zenon DEF vars, FreeFrames, Held, HeldHeads, Heads, BlockOrder, InFlight
<1>10. QED
  BY <1>1, <1>2, <1>3, <1>4, <1>5, <1>6, <1>7, <1>8, <1>9, Zenon DEF Next, Step, AllocNone

\* Buddy implements FramePool: seen from outside, a run of frames is free or has
\* exactly one holder, and changes hands only by alloc, free and free_range.
THEOREM Refinement == Spec => ImplementsPool
<1>1. Init => Pool!Init
  BY Zenon DEF Init, Pool!Init, FreeFrames, Held, HeldHeads, Heads
<1>2. IInv /\ [Next]_vars => [Pool!Next]_(Pool!vars)
  BY StepRefines
<1>3. QED
  BY <1>1, <1>2, Invariance, PTL DEF Spec, Pool!Spec, ImplementsPool

-----------------------------------------------------------------------------
(* Every block is aligned to its size, the free lists hold exactly the     *)
(* free blocks, and, if the donated ranges do not touch, free memory is    *)
(* always coalesced, so that alloc fails only if there is no aligned run   *)
(* of free frames to serve it.                                             *)

-----------------------------------------------------------------------------
(* What each step does to the blocks.                                      *)

\* alloc pops block h off list j; no block changes.
LEMMA AllocPopBlocks ==
    ASSUME StructInv, NEW want \in Orders, AllocPop(want)
    PROVE  \E j \in Orders, h \in Linked :
             /\ order[h] = j /\ Unlink(j, h, {})
             /\ Linked' = Linked \ {h} /\ Heads' = Heads
             /\ \A p \in Heads : BlockOrder(p)' = BlockOrder(p)
             /\ UNCHANGED <<state, order>> /\ pc' = "split"
<1>1. PICK j \in want .. MaxOrder - 1 :
        /\ pc = "idle" /\ free_area[j] # None
        /\ Unlink(j, free_area[j], {})
        /\ pc' = "split" /\ cur' = free_area[j] /\ k' = j /\ goal' = want
        /\ UNCHANGED <<state, order, free_frames>>
  BY DEF AllocPop
<1>2. PICK h : h = free_area[j]
  OBVIOUS
<1>3. /\ j \in Orders /\ h \in Linked /\ order[h] = j
      /\ Linked' = Linked \ {h} /\ Heads' = Heads
  BY <1>1, <1>2, SMTT(60) DEF StructInv, TypeOK, ListInv, Linked, Heads, InFlight, Orders
<1>4. \A p \in Heads : BlockOrder(p)' = BlockOrder(p)
  BY <1>1, <1>2, <1>3, Zenon DEF BlockOrder, InFlight, Heads
<1>5. QED
  BY <1>1, <1>2, <1>3, <1>4, Zenon

\* alloc halves the block in hand; the upper half b becomes a free block.
LEMMA AllocSplitBlocks ==
    ASSUME StructInv, AllocSplit
    PROVE  \E b \in Frames :
             /\ k \in Orders /\ k - 1 \in Orders /\ Size[k] = 2 * Size[k - 1]
             /\ cur \in Heads /\ BlockOrder(cur) = k /\ b = cur + Size[k - 1]
             /\ b \notin Heads /\ b \notin Linked /\ cur \notin Linked
             /\ Heads' = Heads \cup {b} /\ Linked' = Linked \cup {b}
             /\ PushFront(k - 1, b, {}) /\ order'[b] = k - 1
             /\ \A p \in Linked : order'[p] = order[p]
             /\ \A p \in Heads : p # cur => BlockOrder(p)' = BlockOrder(p)
             /\ BlockOrder(cur)' = k - 1 /\ BlockOrder(b)' = k - 1
             /\ state' = [state EXCEPT ![b] = "Free"] /\ state[b] = "Tail"
             /\ pc' = "split"
<1>0. PICK b : b = cur + Size[k - 1]
  OBVIOUS
<1>1. /\ pc = "split" /\ k > goal /\ pc' = pc /\ cur' = cur /\ k' = k - 1
      /\ state' = [state EXCEPT ![b] = "Free"]
      /\ order' = [order EXCEPT ![b] = k - 1]
      /\ PushFront(k - 1, b, {})
  BY <1>0, Zenon DEF AllocSplit
<1>2. /\ k \in Orders /\ k - 1 \in Orders
      /\ Size[k] = 2 * Size[k - 1] /\ Size[k - 1] \in Nat /\ Size[k - 1] >= 1
  BY <1>1, SizeFacts, SMTT(60) DEF StructInv, TypeOK, OpInv, Orders
<1>3. cur \in Heads /\ cur \in Frames /\ BlockOrder(cur) = k /\ cur \notin Linked
  BY <1>1, Zenon DEF StructInv, OpInv, InFlight, Heads, Linked, BlockOrder
<1>4. /\ cur \in Nat /\ cur + Size[k] <= NrFrames
      /\ \A f \in Frames : cur < f /\ f < cur + Size[k] => state[f] = "Tail"
  BY <1>3, BlockFacts, Zenon
<1>5. b \in Frames /\ cur < b /\ b < cur + Size[k]
  BY <1>0, <1>2, <1>4, SMTT(60) DEF Frames
<1>6. state[b] = "Tail" /\ b \notin Heads /\ b \notin Linked
  BY <1>4, <1>5 DEF Heads, Linked
<1>7. /\ Heads' = Heads \cup {b} /\ Linked' = Linked \cup {b}
      /\ order'[b] = k - 1 /\ \A p \in Linked : order'[p] = order[p]
  BY <1>1, <1>5, <1>6, SMTT(60) DEF Heads, Linked, InFlight, StructInv, TypeOK
<1>8. /\ \A p \in Heads : p # cur => BlockOrder(p)' = BlockOrder(p)
      /\ BlockOrder(cur)' = k - 1 /\ BlockOrder(b)' = k - 1
  BY <1>1, <1>3, <1>5, <1>6, Zenon DEF BlockOrder, InFlight, Heads, StructInv, TypeOK
<1>9. QED
  BY <1>0, <1>1, <1>2, <1>3, <1>5, <1>6, <1>7, <1>8, Zenon

\* alloc hands its block out.
LEMMA AllocDoneBlocks ==
    ASSUME StructInv, AllocDone
    PROVE  /\ Heads' = Heads /\ Linked' = Linked
           /\ \A p \in Heads : BlockOrder(p)' = BlockOrder(p)
           /\ \A p \in Linked : order'[p] = order[p] /\ prev'[p] = prev[p]
           /\ \A f \in Frames : state'[f] = "Reserved" <=> state[f] = "Reserved"
           /\ pc' = "idle"
<1>0. PICK b : b = cur
  OBVIOUS
<1>1. /\ pc = "split" /\ k = goal /\ pc' = "idle"
      /\ state' = [state EXCEPT ![b] = "Allocated"]
      /\ order' = [order EXCEPT ![b] = goal]
      /\ prev' = [prev EXCEPT ![b] = None]
  BY <1>0 DEF AllocDone, Idle
<1>2. b \in Heads /\ b \in Frames /\ b \notin Linked
  BY <1>0, <1>1, Zenon DEF StructInv, OpInv, InFlight, Heads, Linked
<1>3. Heads' = Heads /\ Linked' = Linked
  BY <1>0, <1>1, <1>2, Zenon DEF Heads, Linked, InFlight, StructInv, TypeOK
<1>4. \A p \in Heads : BlockOrder(p)' = BlockOrder(p)
  BY <1>0, <1>1, <1>2, Zenon DEF BlockOrder, InFlight, Heads, StructInv, TypeOK
<1>5. \A p \in Linked : order'[p] = order[p] /\ prev'[p] = prev[p]
  BY <1>1, <1>2, Zenon DEF StructInv, TypeOK, Linked
<1>6. \A f \in Frames : state'[f] = "Reserved" <=> state[f] = "Reserved"
  BY <1>1, <1>2, Zenon DEF StructInv, TypeOK, Heads
<1>7. QED
  BY <1>1, <1>3, <1>4, <1>5, <1>6, Zenon

\* free takes the caller's block in hand.
LEMMA FreeBeginBlocks ==
    ASSUME StructInv, NEW p \in Frames, FreeBegin(p)
    PROVE  /\ Heads' = Heads /\ Linked' = Linked
           /\ \A q \in Heads : BlockOrder(q)' = BlockOrder(q)
           /\ UNCHANGED <<state, order, prev>> /\ pc' = "merge"
BY Zenon DEF FreeBegin, Heads, Linked, InFlight, BlockOrder

\* free makes its block a free block of order k, whose buddy is not free.
LEMMA FreeDoneBlocks ==
    ASSUME StructInv, FreeDone
    PROVE  \E b \in Heads :
             /\ b \in Frames /\ b = cur /\ BlockOrder(b) = k /\ k \in Orders /\ ~Mergeable
             /\ b \notin Linked /\ Heads' = Heads /\ Linked' = Linked \cup {b}
             /\ PushFront(k, b, {}) /\ order'[b] = k
             /\ \A p \in Linked : order'[p] = order[p]
             /\ \A p \in Heads : BlockOrder(p)' = BlockOrder(p)
             /\ state' = [state EXCEPT ![b] = "Free"]
             /\ pc' = "idle"
<1>0. PICK b : b = cur
  OBVIOUS
<1>1. /\ pc = "merge" /\ ~Mergeable /\ pc' = "idle"
      /\ state' = [state EXCEPT ![b] = "Free"]
      /\ order' = [order EXCEPT ![b] = k]
      /\ PushFront(k, b, {})
  BY <1>0 DEF FreeDone, Idle
<1>2. b \in Heads /\ b \in Frames /\ k \in Orders /\ BlockOrder(b) = k /\ b \notin Linked
  BY <1>0, <1>1, Zenon DEF StructInv, TypeOK, OpInv, InFlight, Heads, Linked, BlockOrder
<1>3. /\ Heads' = Heads /\ Linked' = Linked \cup {b}
      /\ order'[b] = k /\ \A p \in Linked : order'[p] = order[p]
  BY <1>0, <1>1, <1>2, SMTT(60) DEF Heads, Linked, InFlight, StructInv, TypeOK
<1>4. \A p \in Heads : BlockOrder(p)' = BlockOrder(p)
  BY <1>0, <1>1, <1>2, Zenon DEF BlockOrder, InFlight, Heads, StructInv, TypeOK
<1>5. QED
  BY <1>0, <1>1, <1>2, <1>3, <1>4, Zenon

\* free merges its block with its free buddy b: h and t, in address order,
\* become one block, and b leaves its list.
LEMMA FreeMergeBlocks ==
    ASSUME StructInv, FreeMerge
    PROVE  \E b \in Linked, h \in Heads, t \in Heads :
             /\ b = BuddyPfn(cur, k) /\ cur \in Heads /\ BlockOrder(cur) = k
             /\ h = IF cur < b THEN cur ELSE b
             /\ k \in Orders /\ k + 1 \in Orders /\ Size[k + 1] = 2 * Size[k]
             /\ order[b] = k /\ Unlink(k, b, {t})
             /\ Heads' = Heads \ {t} /\ Linked' = Linked \ {b} /\ t \notin Linked \ {b}
             /\ \A p \in Heads' : p # h => BlockOrder(p)' = BlockOrder(p)
             /\ BlockOrder(h)' = k + 1
             /\ order' = order /\ state' = [state EXCEPT ![t] = "Tail"]
             /\ pc' = "merge"
<1>0. PICK b, h, t : /\ b = BuddyPfn(cur, k)
                     /\ h = IF cur < b THEN cur ELSE b
                     /\ t = IF cur < b THEN b ELSE cur
  BY Zenon
<1>1. /\ pc = "merge" /\ k < MaxOrder - 1 /\ b \in Frames /\ state[b] = "Free"
      /\ order[b] = k /\ Unlink(k, b, {t})
      /\ state' = [state EXCEPT ![t] = "Tail"]
      /\ cur' = h /\ k' = k + 1 /\ order' = order /\ pc' = pc
  BY <1>0, Zenon DEF FreeMerge, Mergeable
<1>2. /\ cur \in Heads /\ cur \in Frames /\ BlockOrder(cur) = k /\ k \in Orders
      /\ cur \notin Linked
  BY <1>1, Zenon DEF StructInv, TypeOK, OpInv, InFlight, Heads, Linked, BlockOrder
<1>3. k + 1 \in Orders /\ Size[k + 1] = 2 * Size[k] /\ Size[k] \in Nat /\ Size[k] >= 1
  BY <1>1, <1>2, SizeFacts DEF Orders
<1>4. b # cur
  <2>1. b = cur + Size[k] \/ b = cur - Size[k]
    BY <1>0, <1>2, BuddyAdjacent, Zenon
  <2>2. QED
    BY <2>1, <1>2, <1>3, SMTT(60) DEF Frames
<1>5. b \in Linked /\ b \in Heads
  BY <1>1, <1>4 DEF Linked, Heads
<1>6. {h, t} = {cur, b} /\ h # t /\ h \in Heads /\ t \in Heads /\ t \in Frames
  BY <1>0, <1>1, <1>2, <1>4, <1>5, Zenon
<1>7. Heads' = Heads \ {t}
  BY <1>1, <1>6, Zenon DEF Heads, StructInv, TypeOK
<1>8. Linked' = Linked \ {b} /\ t \notin Linked \ {b}
  <2>1. \A p \in Frames : state'[p] = IF p = t THEN "Tail" ELSE state[p]
    BY <1>1, <1>6, Zenon DEF StructInv, TypeOK
  <2>2. Linked = {p \in Frames : state[p] = "Free" /\ p # cur}
    BY <1>1 DEF Linked, InFlight
  <2>3. Linked' = {p \in Frames : state'[p] = "Free" /\ p # h}
    BY <1>1, Zenon DEF Linked, InFlight
  <2>4. \A p \in Frames : p \notin {h, t} <=> p \notin {cur, b}
    BY <1>6, Zenon
  <2>5. Linked' = {p \in Frames : state[p] = "Free" /\ p \notin {h, t}}
    BY <2>1, <2>3
  <2>6. QED
    BY <2>2, <2>4, <2>5, <1>6
<1>9. (\A p \in Heads' : p # h => BlockOrder(p)' = BlockOrder(p)) /\ BlockOrder(h)' = k + 1
  <2>1. \A p \in Heads' : p # h => p # cur
    BY <1>6, <1>7, Zenon
  <2>2. QED
    BY <2>1, <1>1, Zenon DEF BlockOrder, InFlight
<1>10. QED
  BY <1>0, <1>1, <1>2, <1>3, <1>5, <1>6, <1>7, <1>8, <1>9, ZenonT(60)

\* free_range makes the next Size[o] frames of its range, Reserved so far, a
\* free block of the largest order the position and the rest of it allow.
LEMMA RangeCarveBlocks ==
    ASSUME StructInv, RangeCarve
    PROVE  \E o \in Orders, b \in Frames :
             /\ b = cur /\ pc = "carve" /\ cur < goal /\ goal <= NrFrames
             /\ b \notin Heads /\ b \notin Linked
             /\ IsMaxOrderAt(o, b, goal - b)
             /\ Heads' = Heads \cup {b} /\ Linked' = Linked \cup {b}
             /\ PushFront(o, b, Run(b, o) \ {b})
             /\ (Run(b, o) \ {b}) \cap (Linked \cup {b}) = {}
             /\ order'[b] = o /\ \A p \in Linked : order'[p] = order[p]
             /\ \A p \in Heads : BlockOrder(p)' = BlockOrder(p)
             /\ BlockOrder(b)' = o
             /\ state' = [f \in Frames |-> IF f = b THEN "Free"
                                           ELSE IF f \in Run(b, o) THEN "Tail"
                                           ELSE state[f]]
             /\ cur' = b + Size[o] /\ pc' = "carve" /\ goal' = goal
<1>1. PICK o \in Orders :
        /\ pc = "carve" /\ cur < goal /\ IsMaxOrderAt(o, cur, goal - cur)
        /\ state' = [f \in Frames |-> IF f = cur THEN "Free"
                                      ELSE IF f \in Run(cur, o) THEN "Tail"
                                      ELSE state[f]]
        /\ order' = [order EXCEPT ![cur] = o]
        /\ PushFront(o, cur, Run(cur, o) \ {cur})
        /\ cur' = cur + Size[o] /\ pc' = pc /\ goal' = goal
  BY Zenon DEF RangeCarve
<1>2. PICK b : b = cur
  OBVIOUS
<1>3. /\ b \in 0 .. NrFrames /\ goal \in Nat /\ goal <= NrFrames
      /\ \A f \in Frames : b <= f /\ f < goal => state[f] = "Reserved"
  BY <1>1, <1>2, SMTT(60) DEF StructInv, TypeOK, OpInv, Orders
<1>4. /\ b \in Frames /\ Size[o] \in Nat /\ Size[o] >= 1 /\ b + Size[o] <= goal
  <2>1. Size[o] <= goal - b /\ b < goal
    BY <1>1, <1>2, Zenon DEF IsMaxOrderAt
  <2>2. Size[o] \in Nat /\ Size[o] >= 1
    BY SizeFacts
  <2>3. QED
    BY <1>3, <2>1, <2>2 DEF Frames
<1>5. \A f \in Frames : f \in Run(b, o) => state[f] = "Reserved"
  BY <1>3, <1>4, SMTT(60) DEF Run, Frames
<1>6. b \in Run(b, o) /\ b \notin Heads /\ b \notin Linked
  <2>1. b \in Run(b, o)
    BY <1>4 DEF Run, Frames
  <2>2. QED
    BY <2>1, <1>4, <1>5, Zenon DEF Heads, Linked
<1>7. /\ Heads' = Heads \cup {b} /\ Linked' = Linked \cup {b}
      /\ (Run(b, o) \ {b}) \cap (Linked \cup {b}) = {}
  BY <1>1, <1>2, <1>4, <1>5, <1>6, Zenon DEF Heads, Linked, InFlight
<1>8. /\ order'[b] = o /\ \A p \in Linked : order'[p] = order[p]
      /\ \A p \in Heads : BlockOrder(p)' = BlockOrder(p)
      /\ BlockOrder(b)' = o
  BY <1>1, <1>2, <1>4, <1>6, Zenon DEF BlockOrder, InFlight, Heads, Linked, StructInv, TypeOK
<1>9. QED
  BY <1>1, <1>2, <1>3, <1>4, <1>6, <1>7, <1>8, Zenon

\* The first and the last step of free_range change no block.
LEMMA RangeBoundsBlocks ==
    ASSUME StructInv,
           RangeDone \/ (\E d \in Donations : RangeBegin(d[1], d[2])) \/ UNCHANGED vars
    PROVE  /\ Heads' = Heads /\ Linked' = Linked
           /\ \A p \in Heads : BlockOrder(p)' = BlockOrder(p)
           /\ UNCHANGED <<state, order, prev>>
<1>1. /\ UNCHANGED <<state, order, prev>>
      /\ (pc # "split" /\ pc # "merge" /\ pc' # "split" /\ pc' # "merge")
         \/ UNCHANGED <<pc, cur, k>>
  BY Zenon DEF RangeDone, RangeBegin, Idle, vars
<1>2. QED
  BY <1>1, Zenon DEF Heads, Linked, InFlight, BlockOrder

-----------------------------------------------------------------------------
(* Alignment.                                                              *)

\* new() leaves no block.
LEMMA InitAligned == Init => BlocksAligned
BY DEF Init, BlocksAligned, Heads

\* Splitting a block aligned to its size leaves two blocks aligned to theirs.
LEMMA AllocSplitAligned ==
    ASSUME StructInv, BlocksAligned, AllocSplit
    PROVE  BlocksAligned'
<1>1. PICK b \in Frames :
             /\ k \in Orders /\ k - 1 \in Orders /\ Size[k] = 2 * Size[k - 1]
             /\ cur \in Heads /\ BlockOrder(cur) = k /\ b = cur + Size[k - 1]
             /\ Heads' = Heads \cup {b}
             /\ \A p \in Heads : p # cur => BlockOrder(p)' = BlockOrder(p)
             /\ BlockOrder(cur)' = k - 1 /\ BlockOrder(b)' = k - 1
  BY AllocSplitBlocks, Zenon
<1>2. PICK c : c = cur
  OBVIOUS
<1>3. c % (2 * Size[k - 1]) = 0 /\ c \in Int /\ Size[k - 1] \in Nat /\ Size[k - 1] >= 1
  BY <1>1, <1>2, SizeFacts, SMTT(60) DEF BlocksAligned, Heads, Frames
<1>4. c % Size[k - 1] = 0 /\ b % Size[k - 1] = 0
  BY <1>1, <1>2, <1>3, AlignedHalves, Zenon
<1>5. ASSUME NEW p \in Heads' PROVE p % Size[BlockOrder(p)'] = 0
  <2>1. CASE p = c
    <3>1. BlockOrder(c)' = k - 1
      BY <1>1, <1>2, AllocSplit, Zenon DEF AllocSplit, BlockOrder
    <3>2. QED
      BY <2>1, <3>1, <1>4
  <2>2. CASE p = b
    BY <2>2, <1>1, <1>4, Zenon
  <2>3. CASE p # c /\ p # b
    BY <2>3, <1>1, <1>2, Zenon DEF BlocksAligned
  <2>4. QED
    BY <2>1, <2>2, <2>3
<1>6. QED
  BY <1>5 DEF BlocksAligned

\* A block and its buddy form a block aligned to twice their size: what
\* buddy_pfn's xor is for.
LEMMA FreeMergeAligned ==
    ASSUME StructInv, BlocksAligned, FreeMerge
    PROVE  BlocksAligned'
<1>1. PICK b \in Linked, h \in Heads, t \in Heads :
             /\ b = BuddyPfn(cur, k) /\ cur \in Heads /\ BlockOrder(cur) = k
             /\ h = IF cur < b THEN cur ELSE b
             /\ k \in Orders /\ k + 1 \in Orders /\ Size[k + 1] = 2 * Size[k]
             /\ Heads' = Heads \ {t}
             /\ \A p \in Heads' : p # h => BlockOrder(p)' = BlockOrder(p)
             /\ BlockOrder(h)' = k + 1
  BY FreeMergeBlocks, Zenon
<1>2. cur % Size[k] = 0 /\ cur \in Int /\ Size[k] \in Nat /\ Size[k] >= 1
  BY <1>1, SizeFacts, SMTT(60) DEF BlocksAligned, Heads, Frames
<1>3. /\ (cur \div Size[k]) % 2 = 0 => cur % (2 * Size[k]) = 0
      /\ (cur \div Size[k]) % 2 # 0 => (cur - Size[k]) % (2 * Size[k]) = 0
  BY <1>2, AlignedPair, Zenon
<1>4. h = IF (cur \div Size[k]) % 2 = 0 THEN cur ELSE cur - Size[k]
  BY <1>1, <1>2, SMTT(60) DEF BuddyPfn
<1>5. h % Size[k + 1] = 0
  BY <1>1, <1>3, <1>4, Zenon
<1>6. ASSUME NEW p \in Heads' PROVE p % Size[BlockOrder(p)'] = 0
  <2>1. CASE p = h
    BY <2>1, <1>1, <1>5, Zenon
  <2>2. CASE p # h
    BY <2>2, <1>1 DEF BlocksAligned
  <2>3. QED
    BY <2>1, <2>2
<1>7. QED
  BY <1>6 DEF BlocksAligned

\* max_order_at only picks orders the position is aligned to.
LEMMA RangeCarveAligned ==
    ASSUME StructInv, BlocksAligned, RangeCarve
    PROVE  BlocksAligned'
<1>1. PICK o \in Orders, b \in Frames :
             /\ IsMaxOrderAt(o, b, goal - b)
             /\ Heads' = Heads \cup {b}
             /\ \A p \in Heads : BlockOrder(p)' = BlockOrder(p)
             /\ BlockOrder(b)' = o
  BY RangeCarveBlocks, Zenon
<1>2. b % Size[o] = 0
  BY <1>1 DEF IsMaxOrderAt
<1>3. QED
  BY <1>1, <1>2, Zenon DEF BlocksAligned

\* Every step of alloc, free and free_range keeps the blocks aligned.
LEMMA NextAligned == StructInv /\ BlocksAligned /\ [Next]_vars => BlocksAligned'
<1> SUFFICES ASSUME StructInv, BlocksAligned, [Next]_vars PROVE BlocksAligned'
  OBVIOUS
<1>1. ASSUME Heads' = Heads, \A p \in Heads : BlockOrder(p)' = BlockOrder(p)
      PROVE  BlocksAligned'
  BY <1>1 DEF BlocksAligned
<1>2. ASSUME NEW want \in Orders, AllocPop(want) PROVE BlocksAligned'
  BY <1>1, <1>2, AllocPopBlocks, Zenon
<1>3. CASE AllocSplit
  BY <1>3, AllocSplitAligned
<1>4. CASE AllocDone
  BY <1>1, <1>4, AllocDoneBlocks, Zenon
<1>5. ASSUME NEW p \in Frames, FreeBegin(p) PROVE BlocksAligned'
  BY <1>1, <1>5, FreeBeginBlocks
<1>6. CASE FreeMerge
  BY <1>6, FreeMergeAligned
<1>7. CASE FreeDone
  BY <1>1, <1>7, FreeDoneBlocks, Zenon
<1>8. CASE RangeCarve
  BY <1>8, RangeCarveAligned
<1>9. CASE RangeDone \/ (\E d \in Donations : RangeBegin(d[1], d[2])) \/ UNCHANGED vars
  BY <1>1, <1>9, RangeBoundsBlocks
<1>10. QED
  BY <1>2, <1>3, <1>4, <1>5, <1>6, <1>7, <1>8, <1>9, Zenon DEF Next, Step, AllocNone

\* Every block, free, allocated or in hand, is aligned to its size in every
\* reachable state, for any number of frames and any MAX_ORDER.
THEOREM BlocksAreAligned == Spec => []BlocksAligned
<1>1. Init => BlocksAligned
  BY InitAligned
<1>2. IInv /\ BlocksAligned /\ [Next]_vars => BlocksAligned'
  BY NextAligned DEF IInv
<1>3. QED
  BY <1>1, <1>2, Invariance, PTL DEF Spec

-----------------------------------------------------------------------------
(* The free lists.  ListInv alone allows a ring of blocks that no list     *)
(* head leads to; that the lists end is what rules it out.                 *)

\* Some rank grows along every list: no list, and no chain of blocks off the
\* lists, bites its tail.
ListsEnd ==
    \E rank \in [Frames -> Nat] :
        \A p \in Linked : prev[p] # None => rank[prev[p]] < rank[p]

\* push_front puts its block in front of all others.
LEMMA PushListsEnd ==
    ASSUME StructInv, ListsEnd, NEW o \in Orders, NEW b \in Frames, b \notin Linked,
           NEW cleared, cleared \cap (Linked \cup {b}) = {},
           Linked' = Linked \cup {b}, PushFront(o, b, cleared)
    PROVE  ListsEnd'
<1>1. PICK rank \in [Frames -> Nat] :
        \A p \in Linked : prev[p] # None => rank[prev[p]] < rank[p]
  BY Zenon DEF ListsEnd
<1>2. PICK r : r = [f \in Frames |-> IF f = b THEN 0 ELSE rank[f] + 1]
  BY Zenon
<1>3. r \in [Frames -> Nat]
  BY <1>2
<1>4. ASSUME NEW p \in Linked', prev'[p] # None PROVE r[prev'[p]] < r[p]
  <2>1. p \in Frames /\ p # b /\ p \in Linked /\ p \notin cleared
    BY <1>4, Zenon DEF Linked, PushFront
  <2>2. CASE p = free_area[o]
    <3>1. prev'[p] = b
      BY <2>1, <2>2, Zenon DEF PushFront
    <3>2. r[b] = 0 /\ r[p] = rank[p] + 1 /\ rank[p] \in Nat
      BY <1>2, <2>1, Zenon
    <3>3. QED
      BY <3>1, <3>2, SMTT(60)
  <2>3. CASE p # free_area[o]
    <3>1. prev'[p] = prev[p]
      BY <2>1, <2>3, Zenon DEF PushFront
    <3>2. prev[p] \in Linked /\ prev[p] # b /\ prev[p] \in Frames
      BY <1>4, <2>1, <3>1, SMTT(60) DEF StructInv, ListInv, Linked
    <3>3. r[prev[p]] = rank[prev[p]] + 1 /\ r[p] = rank[p] + 1
          /\ rank[prev[p]] \in Nat /\ rank[p] \in Nat
      BY <1>2, <2>1, <3>2, Zenon
    <3>4. rank[prev[p]] < rank[p]
      BY <1>1, <1>4, <2>1, <3>1, Zenon
    <3>5. QED
      BY <3>1, <3>3, <3>4, SMTT(60)
  <2>4. QED
    BY <2>2, <2>3, Zenon
<1>5. QED
  BY <1>3, <1>4, Zenon DEF ListsEnd

\* unlink joins the two neighbours of its block, in the same order.
LEMMA UnlinkListsEnd ==
    ASSUME StructInv, ListsEnd, NEW o \in Orders, NEW b \in Linked,
           NEW cleared, cleared \cap (Linked \ {b}) = {},
           Linked' = Linked \ {b}, Unlink(o, b, cleared)
    PROVE  ListsEnd'
<1>1. PICK rank \in [Frames -> Nat] :
        \A p \in Linked : prev[p] # None => rank[prev[p]] < rank[p]
  BY Zenon DEF ListsEnd
<1>2. ASSUME NEW p \in Linked', prev'[p] # None PROVE rank[prev'[p]] < rank[p]
  <2>1. p \in Frames /\ p \in Linked /\ p \notin cleared
    BY Zenon DEF Linked
  <2>2. CASE p = next[b]
    <3>1. prev'[p] = prev[b]
      BY <2>1, <2>2, Zenon DEF Unlink
    <3>2. prev[p] = b /\ b \in Frames /\ b # None /\ p # None
      BY <2>1, <2>2, SMTT(60) DEF StructInv, ListInv, Linked
    <3>3. prev[b] \in Frames
      BY <1>2, <3>1, <3>2, Zenon DEF StructInv, ListInv, Linked
    <3>4. rank[prev[b]] < rank[b] /\ rank[b] < rank[p]
      BY <1>1, <1>2, <2>1, <3>1, <3>2, Zenon
    <3>5. rank[prev[b]] \in Nat /\ rank[b] \in Nat /\ rank[p] \in Nat
      BY <2>1, <3>2, <3>3, Zenon
    <3>6. QED
      BY <3>1, <3>4, <3>5
  <2>3. CASE p # next[b]
    <3>1. prev'[p] = prev[p]
      BY <2>1, <2>3, Zenon DEF Unlink
    <3>2. QED
      BY <1>1, <1>2, <2>1, <3>1, Zenon
  <2>4. QED
    BY <2>2, <2>3, Zenon
<1>3. QED
  BY <1>2, Zenon DEF ListsEnd

\* Every step of alloc, free and free_range keeps the lists finite.
LEMMA NextListsEnd == StructInv /\ ListsEnd /\ [Next]_vars => ListsEnd'
<1> SUFFICES ASSUME StructInv, ListsEnd, [Next]_vars PROVE ListsEnd'
  OBVIOUS
<1>1. ASSUME Linked' = Linked, \A p \in Linked : prev'[p] = prev[p]
      PROVE  ListsEnd'
  BY <1>1, Zenon DEF ListsEnd
<1>2. ASSUME NEW want \in Orders, AllocPop(want) PROVE ListsEnd'
  <2>1. PICK j \in Orders, h \in Linked : Unlink(j, h, {}) /\ Linked' = Linked \ {h}
    BY <1>2, AllocPopBlocks
  <2>2. QED
    BY <2>1, UnlinkListsEnd, Zenon
<1>3. CASE AllocSplit
  <2>1. PICK b \in Frames :
          /\ k - 1 \in Orders /\ b \notin Linked /\ Linked' = Linked \cup {b}
          /\ PushFront(k - 1, b, {})
    BY <1>3, AllocSplitBlocks, Zenon
  <2>2. QED
    BY <2>1, PushListsEnd
<1>4. CASE AllocDone
  BY <1>1, <1>4, AllocDoneBlocks, Zenon
<1>5. ASSUME NEW p \in Frames, FreeBegin(p) PROVE ListsEnd'
  BY <1>1, <1>5, FreeBeginBlocks, Zenon
<1>6. CASE FreeMerge
  <2>1. PICK b \in Linked, h \in Heads, t \in Heads :
          /\ k \in Orders /\ Unlink(k, b, {t}) /\ Linked' = Linked \ {b}
          /\ t \notin Linked \ {b}
    BY <1>6, FreeMergeBlocks, Zenon
  <2>2. {t} \cap (Linked \ {b}) = {}
    BY <2>1
  <2>3. QED
    BY <2>1, <2>2, UnlinkListsEnd, Zenon
<1>7. CASE FreeDone
  <2>1. PICK b \in Frames :
          /\ k \in Orders /\ b \notin Linked /\ Linked' = Linked \cup {b}
          /\ PushFront(k, b, {})
    BY <1>7, FreeDoneBlocks, Zenon
  <2>2. QED
    BY <2>1, PushListsEnd, Zenon
<1>8. CASE RangeCarve
  <2>1. PICK o \in Orders, b \in Frames :
          /\ b \notin Linked /\ Linked' = Linked \cup {b}
          /\ PushFront(o, b, Run(b, o) \ {b})
          /\ (Run(b, o) \ {b}) \cap (Linked \cup {b}) = {}
    BY <1>8, RangeCarveBlocks, Zenon
  <2>2. QED
    BY <2>1, PushListsEnd, Zenon
<1>9. CASE RangeDone \/ (\E d \in Donations : RangeBegin(d[1], d[2])) \/ UNCHANGED vars
  BY <1>1, <1>9, RangeBoundsBlocks, Zenon
<1>10. QED
  BY <1>2, <1>3, <1>4, <1>5, <1>6, <1>7, <1>8, <1>9, Zenon DEF Next, Step, AllocNone

\* new() leaves every list empty.
LEMMA InitListsEnd == Init => ListsEnd
<1>1. [f \in Frames |-> 0] \in [Frames -> Nat]
  OBVIOUS
<1>2. Init => Linked = {}
  BY Zenon DEF Init, Linked
<1>3. QED
  BY <1>1, <1>2, Zenon DEF ListsEnd

\* at is the walk along list o: it starts at the head, follows next, and stays
\* at None once it is past the end.
IsWalk(at, o) ==
    /\ at \in [0 .. NrFrames -> Frames \cup {None}]
    /\ at[0] = free_area[o]
    /\ \A n \in 1 .. NrFrames :
          at[n] = IF at[n - 1] = None THEN None ELSE next[at[n - 1]]

\* OnList collects what a walk along the list meets.
LEMMA ListWalk ==
    ASSUME TypeOK, NEW o \in Orders
    PROVE  \E at : IsWalk(at, o) /\ OnList(o) = {at[n] : n \in 0 .. NrFrames} \ {None}
<1> DEFINE S == Frames \cup {None}
           Solves(g) == g = [n \in 0 .. NrFrames |->
                               IF n = 0 THEN free_area[o]
                               ELSE IF g[n - 1] = None THEN None ELSE next[g[n - 1]]]
           walk == CHOOSE g : Solves(g)
           step == [n \in 1 .. NrFrames |->
                      [x \in S |-> IF x = None THEN None ELSE next[x]]]
<1>1. free_area[o] \in S /\ step \in [1 .. NrFrames -> [S -> S]]
  BY Zenon DEF TypeOK
<1>2. PICK g : /\ g \in [0 .. NrFrames -> S] /\ g[0] = free_area[o]
               /\ \A n \in 1 .. NrFrames : g[n] = step[n][g[n - 1]]
  <2> HIDE DEF step, S
  <2>1. NrFrames \in Nat
    OBVIOUS
  <2>2. \E g : IsLoop(g, NrFrames, S, free_area[o], step)
    BY <1>1, <2>1, LoopValues, Zenon
  <2>3. QED
    BY <2>2, Zenon DEF IsLoop
<1>3. ASSUME NEW n \in 1 .. NrFrames
      PROVE  g[n] = IF g[n - 1] = None THEN None ELSE next[g[n - 1]]
  <2>1. n - 1 \in 0 .. NrFrames
    OBVIOUS
  <2>2. g[n - 1] \in S
    BY <1>2, <2>1, Zenon
  <2>3. QED
    BY <1>2, <2>2, Zenon
<1>4. Solves(g)
  <2>1. ASSUME NEW n \in 0 .. NrFrames
        PROVE  g[n] = IF n = 0 THEN free_area[o]
                      ELSE IF g[n - 1] = None THEN None ELSE next[g[n - 1]]
    BY <1>2, <1>3
  <2>2. QED
    BY <2>1, <1>2, Zenon
<1>5. Solves(walk)
  <2> HIDE DEF Solves
  <2>1. QED
    BY <1>4
<1>6. OnList(o) = {walk[n] : n \in 0 .. NrFrames} \ {None}
  BY Zenon DEF OnList
<1> HIDE DEF walk
<1>7. walk[0] = free_area[o]
  BY <1>5
<1>8. \A n \in 1 .. NrFrames :
        walk[n] = IF walk[n - 1] = None THEN None ELSE next[walk[n - 1]]
  BY <1>5
<1>9. walk \in [0 .. NrFrames -> S]
  <2> DEFINE T == {n \in 0 .. NrFrames : walk[n] \in S}
  <2>1. 0 \in T
    BY <1>1, <1>7
  <2>2. ASSUME NEW n \in 0 .. NrFrames - 1, n \in T PROVE n + 1 \in T
    <3>1. n + 1 \in 1 .. NrFrames /\ (n + 1) - 1 = n
      OBVIOUS
    <3>2. walk[n + 1] = IF walk[n] = None THEN None ELSE next[walk[n]]
      BY <1>8, <3>1, Zenon
    <3>3. QED
      BY <2>2, <3>1, <3>2 DEF TypeOK
  <2> HIDE DEF T
  <2>3. 0 .. NrFrames \subseteq T
    BY <2>1, <2>2, UpTo, Zenon
  <2>4. \A n \in 0 .. NrFrames : walk[n] \in S
    BY <2>3 DEF T
  <2>5. QED
    BY <1>5, <2>4, Zenon
<1>10. IsWalk(walk, o)
  BY <1>7, <1>8, <1>9, Zenon DEF IsWalk
<1>11. QED
  BY <1>6, <1>10, Zenon

\* A walk meets free blocks of order o only, and each is its successor's prev.
LEMMA WalkStays ==
    ASSUME StructInv, NEW o \in Orders, NEW at, IsWalk(at, o),
           NEW n \in 0 .. NrFrames, at[n] # None
    PROVE  /\ at[n] \in Linked /\ order[at[n]] = o
           /\ n > 0 => at[n - 1] # None /\ prev[at[n]] = at[n - 1]
<1> DEFINE T == {m \in 0 .. NrFrames :
                   at[m] # None => /\ at[m] \in Linked /\ order[at[m]] = o
                                   /\ m > 0 => at[m - 1] # None /\ prev[at[m]] = at[m - 1]}
<1>1. 0 \in T
  BY SMTT(60) DEF IsWalk, StructInv, ListInv
<1>2. ASSUME NEW m \in 0 .. NrFrames - 1, m \in T PROVE m + 1 \in T
  <2>1. m + 1 \in 1 .. NrFrames /\ (m + 1) - 1 = m /\ m \in 0 .. NrFrames
    OBVIOUS
  <2>2. at[m + 1] = IF at[m] = None THEN None ELSE next[at[m]]
    BY <2>1, Zenon DEF IsWalk
  <2>3. QED
    BY <1>2, <2>1, <2>2, SMTT(60) DEF StructInv, ListInv
<1> HIDE DEF T
<1>3. NrFrames \in Nat
  OBVIOUS
<1>4. 0 .. NrFrames \subseteq T
  BY <1>1, <1>2, <1>3, UpTo, Zenon
<1>5. QED
  BY <1>4, Zenon DEF T

\* A walk meets no block twice.
LEMMA WalkGrows ==
    ASSUME StructInv, NEW o \in Orders, NEW at, IsWalk(at, o),
           NEW rank \in [Frames -> Nat],
           \A p \in Linked : prev[p] # None => rank[prev[p]] < rank[p],
           NEW n \in 0 .. NrFrames, at[n] # None
    PROVE  \A m \in 0 .. n - 1 : at[m] # None /\ rank[at[m]] < rank[at[n]]
<1> DEFINE T == {i \in 0 .. NrFrames : at[i] # None =>
                   \A m \in 0 .. i - 1 : at[m] # None /\ rank[at[m]] < rank[at[i]]}
<1>1. 0 \in T
  OBVIOUS
<1>2. ASSUME NEW i \in 0 .. NrFrames - 1, i \in T PROVE i + 1 \in T
  <2>1. i + 1 \in 0 .. NrFrames /\ i \in 0 .. NrFrames /\ i + 1 > 0 /\ (i + 1) - 1 = i
    OBVIOUS
  <2>2. ASSUME at[i + 1] # None, NEW m \in 0 .. (i + 1) - 1
        PROVE  at[m] # None /\ rank[at[m]] < rank[at[i + 1]]
    <3>1. /\ at[i + 1] \in Linked /\ at[i] # None /\ prev[at[i + 1]] = at[i]
          /\ at[i] \in Linked
      BY <2>1, <2>2, WalkStays
    <3>2. at[i + 1] \in Frames /\ at[i] \in Frames
      BY <3>1, Zenon DEF Linked
    <3>3. rank[at[i]] < rank[at[i + 1]] /\ rank[at[i]] \in Nat /\ rank[at[i + 1]] \in Nat
      BY <3>1, <3>2, Zenon
    <3>4. CASE m = i
      BY <3>1, <3>3, <3>4, Zenon
    <3>5. CASE m # i
      <4>1. m \in 0 .. i - 1 /\ m \in 0 .. NrFrames
        BY <3>5
      <4>2. at[m] # None /\ rank[at[m]] < rank[at[i]]
        BY <1>2, <3>1, <4>1, Zenon
      <4>3. at[m] \in Frames
        BY <4>1, <4>2, WalkStays, Zenon DEF Linked
      <4>4. rank[at[m]] \in Nat
        BY <4>3, Zenon
      <4>5. QED
        BY <3>3, <4>2, <4>4, SMTT(60)
    <3>6. QED
      BY <3>4, <3>5, Zenon
  <2>3. QED
    BY <2>1, <2>2, Zenon
<1> HIDE DEF T
<1>3. NrFrames \in Nat
  OBVIOUS
<1>4. 0 .. NrFrames \subseteq T
  BY <1>1, <1>2, <1>3, UpTo, Zenon
<1>5. QED
  BY <1>4, Zenon DEF T

\* There are fewer blocks than steps in a walk, so a walk gets to the end.
LEMMA WalkEnds ==
    ASSUME StructInv, ListsEnd, NEW o \in Orders, NEW at, IsWalk(at, o)
    PROVE  at[NrFrames] = None
<1> SUFFICES ASSUME at[NrFrames] # None PROVE FALSE
  OBVIOUS
<1>1. PICK rank \in [Frames -> Nat] :
        \A p \in Linked : prev[p] # None => rank[prev[p]] < rank[p]
  BY Zenon DEF ListsEnd
<1>2. NrFrames \in Nat /\ NrFrames \in 0 .. NrFrames
  OBVIOUS
<1>3. ASSUME NEW n \in 0 .. NrFrames PROVE at[n] # None /\ at[n] \in Frames
  <2>1. CASE n = NrFrames
    BY <2>1, WalkStays, Zenon DEF Linked
  <2>2. CASE n # NrFrames
    <3>1. n \in 0 .. NrFrames - 1
      BY <2>2
    <3>2. at[n] # None
      BY <1>1, <1>2, <3>1, WalkGrows, Zenon
    <3>3. QED
      BY <3>2, WalkStays, Zenon DEF Linked
  <2>3. QED
    BY <2>1, <2>2, Zenon
<1>4. ASSUME NEW m \in 0 .. NrFrames, NEW n \in 0 .. NrFrames, m < n
      PROVE  at[m] # at[n]
  <2>1. m \in 0 .. n - 1
    BY <1>4
  <2>2. rank[at[m]] < rank[at[n]]
    BY <1>1, <1>3, <2>1, WalkGrows, Zenon
  <2>3. rank[at[n]] \in Nat
    BY <1>3, Zenon
  <2>4. QED
    BY <2>2, <2>3
<1>5. at \in [0 .. NrFrames -> Frames]
  BY <1>3, Zenon DEF IsWalk
<1>6. /\ IsFiniteSet(0 .. NrFrames) /\ IsFiniteSet(Frames)
      /\ Cardinality(Frames) < Cardinality(0 .. NrFrames)
  <2>1. 0 \in Int /\ NrFrames \in Int /\ NrFrames - 1 \in Int
    OBVIOUS
  <2>2. /\ IsFiniteSet(0 .. NrFrames)
        /\ Cardinality(0 .. NrFrames) = IF 0 > NrFrames THEN 0 ELSE NrFrames - 0 + 1
    BY <2>1, FS_Interval, Zenon
  <2>3. /\ IsFiniteSet(0 .. NrFrames - 1)
        /\ Cardinality(0 .. NrFrames - 1)
             = IF 0 > NrFrames - 1 THEN 0 ELSE NrFrames - 1 - 0 + 1
    BY <2>1, FS_Interval, Zenon
  <2>4. QED
    BY <1>2, <2>2, <2>3 DEF Frames
<1>7. PICK m, n \in 0 .. NrFrames : m # n /\ at[m] = at[n]
  <2>1. PICK D, F : D = 0 .. NrFrames /\ F = Frames
    BY Zenon
  <2>2. /\ IsFiniteSet(D) /\ IsFiniteSet(F) /\ Cardinality(F) < Cardinality(D)
        /\ at \in [D -> F]
    BY <2>1, <1>5, <1>6, Zenon
  <2>3. \E x, y \in D : x # y /\ at[x] = at[y]
    BY <2>2, FS_PigeonHole
  <2>4. QED
    BY <2>1, <2>3, Zenon
<1>8. m < n \/ n < m
  BY <1>7
<1>9. QED
  BY <1>4, <1>7, <1>8, Zenon

\* If the lists end, list o holds the free blocks of order o, all of them:
\* from each, prev leads back to the head.
LEMMA ListsAreExact ==
    ASSUME StructInv, ListsEnd
    PROVE  ListsExact
<1> SUFFICES ASSUME NEW o \in Orders
             PROVE  /\ OnList(o) = {p \in Linked : order[p] = o}
                    /\ free_area[o] # None => prev[free_area[o]] = None
                    /\ \A p \in OnList(o) : next[p] # None => prev[next[p]] = p
  BY Zenon DEF ListsExact
<1>0. TypeOK
  BY DEF StructInv
<1>1. PICK at : IsWalk(at, o) /\ OnList(o) = {at[n] : n \in 0 .. NrFrames} \ {None}
  BY <1>0, ListWalk, Zenon
<1>2. PICK rank \in [Frames -> Nat] :
        \A p \in Linked : prev[p] # None => rank[prev[p]] < rank[p]
  BY Zenon DEF ListsEnd
<1>3. \A p \in Linked : p \in Frames /\ p # None /\ rank[p] \in Nat
  BY DEF Linked
<1>4. ASSUME NEW p \in OnList(o) PROVE p \in Linked /\ order[p] = o
  BY <1>1, WalkStays
<1>5. ASSUME NEW p \in Linked, order[p] = o PROVE p \in OnList(o)
  <2> DEFINE Lost == {q \in Linked : order[q] = o /\ q \notin OnList(o)}
             T == {rank[q] : q \in Lost}
  <2> SUFFICES ASSUME Lost # {} PROVE FALSE
    BY <1>5, Zenon
  <2>1. T \subseteq Nat /\ T # {}
    BY <1>3
  <2>2. PICK m \in T : \A n \in T : m <= n
    BY <2>1, LeastElement, Zenon
  <2>3. PICK q \in Lost : m = rank[q]
    BY <2>2, Zenon
  <2>4. q \in Linked /\ order[q] = o /\ q \notin OnList(o) /\ rank[q] \in Nat
    BY <2>3, <1>3, Zenon
  <2>5. CASE prev[q] = None
    <3>1. free_area[o] = q /\ q # None
      BY <2>4, <2>5, <1>3, Zenon DEF StructInv, ListInv
    <3>2. at[0] = q /\ 0 \in 0 .. NrFrames
      BY <3>1, <1>1, SMTT(60) DEF IsWalk
    <3>3. QED
      BY <3>1, <3>2, <2>4, <1>1, Zenon
  <2>6. CASE prev[q] # None
    <3>1. /\ prev[q] \in Linked /\ order[prev[q]] = o /\ next[prev[q]] = q
          /\ rank[prev[q]] < rank[q] /\ rank[prev[q]] \in Nat
      BY <2>4, <2>6, <1>2, <1>3, Zenon DEF StructInv, ListInv
    <3>2. prev[q] \notin Lost
      <4>1. ~(rank[q] <= rank[prev[q]])
        BY <3>1, <2>4
      <4>2. QED
        BY <4>1, <2>2, <2>3, SMTT(60)
    <3>3. prev[q] \in OnList(o)
      BY <3>1, <3>2, Zenon
    <3>4. PICK n \in 0 .. NrFrames : at[n] = prev[q]
      BY <3>3, <1>1, Zenon
    <3>5. n # NrFrames
      BY <3>4, <2>6, <1>1, WalkEnds, Zenon
    <3>6. n + 1 \in 1 .. NrFrames /\ (n + 1) - 1 = n /\ n + 1 \in 0 .. NrFrames
      BY <3>5, SMTT(60)
    <3>7. at[n + 1] = q
      BY <3>1, <3>4, <3>6, <2>6, <1>1, SMTT(60) DEF IsWalk
    <3>8. QED
      BY <3>6, <3>7, <2>4, <1>1, <1>3, Zenon
  <2>7. QED
    BY <2>5, <2>6, Zenon
<1>6. OnList(o) = {p \in Linked : order[p] = o}
  BY <1>4, <1>5, Zenon
<1>7. free_area[o] # None => prev[free_area[o]] = None
  BY Zenon DEF StructInv, ListInv
<1>8. \A p \in OnList(o) : next[p] # None => prev[next[p]] = p
  BY <1>4, Zenon DEF StructInv, ListInv
<1>9. QED
  BY <1>6, <1>7, <1>8, Zenon

\* In every reachable state, also in the middle of an operation, each free list
\* holds exactly the free blocks of its order, and ends.
THEOREM ListsStayExact == Spec => []ListsExact
<1>1. Init => ListsEnd
  BY InitListsEnd
<1>2. IInv /\ ListsEnd /\ [Next]_vars => ListsEnd'
  BY NextListsEnd DEF IInv
<1>3. IInv /\ ListsEnd => ListsExact
  BY ListsAreExact DEF IInv
<1>4. QED
  BY <1>1, <1>2, <1>3, Invariance, PTL DEF Spec

-----------------------------------------------------------------------------
(* Coalescing.                                                             *)

\* No two free blocks are the halves of a block of one donated range that the
\* allocator could keep.  free_range does not merge across the border of its
\* range, so of two ranges that touch this cannot be said.
Coalesced ==
    \A p, q \in Linked :
        LET o == order[p] IN
        o + 1 \in Orders /\ order[q] = o /\ p % Size[o + 1] = 0 /\ InOneRange(p, o + 1)
        => q # p + Size[o]

\* A block that free_range has made of its range so far could not be larger: it
\* is not aligned to the next order, or that would not fit into the range.
RangeInv ==
    pc = "carve" =>
       \E d \in Donations :
          /\ goal = d[1] + d[2] /\ d[1] <= cur
          /\ \A p \in Linked :
                LET o == order[p] IN
                d[1] <= p /\ p < cur /\ o + 1 \in Orders /\ p % Size[o + 1] = 0
                => p + Size[o + 1] > goal

\* A new free block that is no half of a pair keeps the free blocks coalesced.
LEMMA PushCoalesced ==
    ASSUME StructInv, Coalesced, NEW o \in Orders, NEW b \in Frames, b \notin Linked,
           Linked' = Linked \cup {b}, order'[b] = o,
           \A p \in Linked : order'[p] = order[p],
           \A q \in Linked : o + 1 \in Orders /\ order[q] = o
              => /\ b % Size[o + 1] = 0 /\ InOneRange(b, o + 1) => q # b + Size[o]
                 /\ q % Size[o + 1] = 0 /\ InOneRange(q, o + 1) => b # q + Size[o]
    PROVE  Coalesced'
<1>1. Size[o] \in Nat /\ Size[o] >= 1 /\ b \in Int
  BY SizeFacts DEF Frames
<1>2. b # b + Size[o]
  BY <1>1, SMTT(60)
<1>3. ASSUME NEW p \in Linked', NEW q \in Linked', order'[p] + 1 \in Orders,
             order'[q] = order'[p], p % Size[order'[p] + 1] = 0,
             InOneRange(p, order'[p] + 1)
      PROVE  q # p + Size[order'[p]]
  <2>1. CASE p = b /\ q = b
    BY <1>2, <2>1, Zenon
  <2>2. CASE p = b /\ q \in Linked
    BY <1>3, <2>2, Zenon
  <2>3. CASE p \in Linked /\ q = b
    BY <1>3, <2>3, Zenon
  <2>4. CASE p \in Linked /\ q \in Linked
    BY <1>3, <2>4, Zenon DEF Coalesced
  <2>5. QED
    BY <2>1, <2>2, <2>3, <2>4, Zenon
<1>4. QED
  BY <1>3, Zenon DEF Coalesced

\* The upper half a split gives back has only the block in hand as its buddy.
LEMMA AllocSplitCoalesced ==
    ASSUME StructInv, BlocksAligned, Coalesced, AllocSplit
    PROVE  Coalesced'
<1>1. PICK b \in Frames :
             /\ k \in Orders /\ k - 1 \in Orders /\ Size[k] = 2 * Size[k - 1]
             /\ cur \in Heads /\ BlockOrder(cur) = k /\ b = cur + Size[k - 1]
             /\ b \notin Linked /\ cur \notin Linked /\ Linked' = Linked \cup {b}
             /\ order'[b] = k - 1 /\ \A p \in Linked : order'[p] = order[p]
  BY AllocSplitBlocks, Zenon
<1>2. /\ (k - 1) + 1 = k /\ cur \in Int /\ b \in Int /\ Size[k - 1] \in Nat
      /\ Size[k - 1] >= 1 /\ Size[k] \in Nat /\ Size[k] >= 1 /\ cur % Size[k] = 0
  <2>1. (k - 1) + 1 = k
    BY <1>1 DEF Orders
  <2>2. cur \in Int /\ b \in Int /\ cur % Size[k] = 0
    BY <1>1, SMTT(60) DEF BlocksAligned, Heads, Frames
  <2>3. QED
    BY <1>1, <2>1, <2>2, SizeFacts, Zenon
<1>3. b % Size[k] # 0
  <2>1. cur < b /\ ~(cur + Size[k] <= b)
    BY <1>1, <1>2, SMTT(60)
  <2>2. QED
    BY <2>1, <1>2, AlignedApart, Zenon
<1>4. \A q \in Linked : b # q + Size[k - 1]
  <2>1. ASSUME NEW q \in Linked, b = q + Size[k - 1] PROVE FALSE
    <3>1. q \in Int
      BY DEF Linked, Frames
    <3>2. q = cur
      BY <2>1, <3>1, <1>1, <1>2, SMTT(60)
    <3>3. QED
      BY <3>2, <1>1, Zenon
  <2>2. QED
    BY <2>1
<1>5. PICK o \in Orders : o = k - 1
  BY <1>1, Zenon
<1>6. \A q \in Linked : o + 1 \in Orders /\ order[q] = o
        => /\ b % Size[o + 1] = 0 /\ InOneRange(b, o + 1) => q # b + Size[o]
           /\ q % Size[o + 1] = 0 /\ InOneRange(q, o + 1) => b # q + Size[o]
  BY <1>2, <1>3, <1>4, <1>5, Zenon
<1>7. /\ o \in Orders /\ b \in Frames /\ b \notin Linked /\ Linked' = Linked \cup {b}
      /\ order'[b] = o /\ \A p \in Linked : order'[p] = order[p]
  BY <1>1, <1>5, Zenon
<1>8. QED
  BY <1>6, <1>7, PushCoalesced, Zenon

\* The coalescing loop of free ends when the buddy is not a free block of the
\* same order, or the order is the largest.
LEMMA FreeDoneCoalesced ==
    ASSUME StructInv, BlocksAligned, Coalesced, FreeDone
    PROVE  Coalesced'
<1>1. PICK b \in Heads :
             /\ b \in Frames /\ b = cur /\ k \in Orders /\ ~Mergeable
             /\ b \notin Linked /\ Linked' = Linked \cup {b}
             /\ order'[b] = k /\ \A p \in Linked : order'[p] = order[p]
  BY FreeDoneBlocks, Zenon
<1>2. ASSUME NEW q \in Linked, k + 1 \in Orders, order[q] = k
      PROVE  /\ b % Size[k + 1] = 0 => q # b + Size[k]
             /\ q % Size[k + 1] = 0 => b # q + Size[k]
  <2>1. /\ q \in Frames /\ q \in Int /\ b \in Int /\ state[q] = "Free"
        /\ k < MaxOrder - 1
    BY <1>1, <1>2, SMTT(60) DEF Linked, Frames, Orders
  <2>2. Size[k] \in Nat /\ Size[k] >= 1 /\ Size[k + 1] = 2 * Size[k]
    BY <1>1, SizeFacts, Zenon
  <2>3. BuddyPfn(b, k) # q
    BY <2>1, <1>1, <1>2, Zenon DEF Mergeable
  <2>4. ASSUME b % Size[k + 1] = 0, q = b + Size[k] PROVE FALSE
    <3>1. (b \div Size[k]) % 2 = 0
      BY <2>1, <2>2, <2>4, AlignedHalves, Zenon
    <3>2. QED
      BY <2>3, <2>4, <3>1, Zenon DEF BuddyPfn
  <2>5. ASSUME q % Size[k + 1] = 0, b = q + Size[k] PROVE FALSE
    <3>1. (b \div Size[k]) % 2 = 1
      BY <2>1, <2>2, <2>5, AlignedHalves, Zenon
    <3>2. BuddyPfn(b, k) = b - Size[k]
      BY <3>1 DEF BuddyPfn
    <3>3. QED
      BY <2>1, <2>2, <2>3, <2>5, <3>2, SMTT(60)
  <2>6. QED
    BY <2>4, <2>5, Zenon
<1>3. QED
  BY <1>1, <1>2, PushCoalesced, Zenon

\* The block free_range makes next has no free buddy in its range: the frame
\* after it is still Reserved or not in the range, and the block before it, if
\* it were the lower half of a pair, would have been made twice as large.
LEMMA RangeCarveCoalesced ==
    ASSUME StructInv, BlocksAligned, Coalesced, RangeInv, RangeCarve
    PROVE  Coalesced'
<1>1. PICK o \in Orders, b \in Frames :
             /\ b = cur /\ pc = "carve" /\ cur < goal /\ goal <= NrFrames
             /\ b \notin Linked /\ IsMaxOrderAt(o, b, goal - b)
             /\ Linked' = Linked \cup {b}
             /\ order'[b] = o /\ \A p \in Linked : order'[p] = order[p]
  BY RangeCarveBlocks, Zenon
<1>2. PICK d \in Donations :
             /\ goal = d[1] + d[2] /\ d[1] <= b
             /\ \A p \in Linked :
                   d[1] <= p /\ p < b /\ order[p] + 1 \in Orders
                   /\ p % Size[order[p] + 1] = 0
                   => p + Size[order[p] + 1] > goal
  BY <1>1, Zenon DEF RangeInv
<1>3. /\ Size[o] \in Nat /\ Size[o] >= 1 /\ b \in Nat /\ goal \in Nat
      /\ b + Size[o] <= goal
      /\ \A f \in Frames : b <= f /\ f < goal => state[f] = "Reserved"
  <2>1. Size[o] \in Nat /\ Size[o] >= 1 /\ b \in Nat
    BY SizeFacts DEF Frames
  <2>2. /\ goal \in Nat
        /\ \A f \in Frames : b <= f /\ f < goal => state[f] = "Reserved"
    BY <1>1, SMTT(60) DEF StructInv, TypeOK, OpInv, Orders
  <2>3. Size[o] <= goal - b
    BY <1>1, Zenon DEF IsMaxOrderAt
  <2>4. QED
    BY <2>1, <2>2, <2>3
<1>e. ASSUME NEW e \in Donations, e[1] <= b, b < e[1] + e[2] PROVE e = d
  <2>1. /\ d[1] \in Int /\ d[2] \in Int /\ e[1] \in Int /\ e[2] \in Int
    BY DonationsAssumption, SMTT(60) DEF Frames
  <2>2. ~(d[1] + d[2] <= e[1]) /\ ~(e[1] + e[2] <= d[1])
    BY <1>e, <1>1, <1>2, <1>3, <2>1, SMTT(60)
  <2>3. QED
    BY <2>2, DonationsAssumption, Zenon
<1>4. ASSUME NEW q \in Linked, o + 1 \in Orders, InOneRange(b, o + 1), q = b + Size[o]
      PROVE  FALSE
  <2>1. q \in Frames /\ q \in Nat /\ state[q] # "Reserved"
    BY DEF Linked, Frames
  <2>2. PICK e \in Donations : e[1] <= b /\ b + Size[o + 1] <= e[1] + e[2]
    BY <1>4, Zenon DEF InOneRange
  <2>3. e[1] \in Int /\ e[2] \in Int /\ Size[o + 1] = 2 * Size[o]
    BY DonationsAssumption, SMTT(60) DEF Frames
  <2>4. b < e[1] + e[2] /\ q < e[1] + e[2] /\ b <= q
    BY <1>3, <1>4, <2>1, <2>2, <2>3, SMTT(60)
  <2>5. q < goal
    BY <1>e, <1>2, <2>2, <2>4, Zenon
  <2>6. QED
    BY <1>3, <2>1, <2>4, <2>5, Zenon
<1>5. ASSUME NEW q \in Linked, o + 1 \in Orders, order[q] = o, q % Size[o + 1] = 0,
             InOneRange(q, o + 1), b = q + Size[o]
      PROVE  FALSE
  <2>1. q \in Nat
    BY DEF Linked, Frames
  <2>2. PICK e \in Donations : e[1] <= q /\ q + Size[o + 1] <= e[1] + e[2]
    BY <1>5, Zenon DEF InOneRange
  <2>3. e[1] \in Int /\ e[2] \in Int /\ Size[o + 1] = 2 * Size[o]
    BY DonationsAssumption, SMTT(60) DEF Frames
  <2>4. e[1] <= b /\ b < e[1] + e[2] /\ q < b /\ ~(q + Size[o + 1] > e[1] + e[2])
    BY <1>3, <1>5, <2>1, <2>2, <2>3, SMTT(60)
  <2>5. d[1] <= q /\ ~(q + Size[o + 1] > goal)
    BY <1>e, <1>2, <2>2, <2>4, Zenon
  <2>6. QED
    BY <1>2, <1>5, <2>4, <2>5, Zenon
<1>6. QED
  BY <1>1, <1>4, <1>5, PushCoalesced, Zenon

\* The blocks free_range makes are as large as they can be.
LEMMA RangeCarveRangeInv ==
    ASSUME StructInv, RangeInv, RangeCarve
    PROVE  RangeInv'
<1>1. PICK o \in Orders, b \in Frames :
             /\ b = cur /\ pc = "carve" /\ cur < goal /\ goal <= NrFrames
             /\ b \notin Linked /\ IsMaxOrderAt(o, b, goal - b)
             /\ Linked' = Linked \cup {b}
             /\ order'[b] = o /\ \A p \in Linked : order'[p] = order[p]
             /\ state' = [f \in Frames |-> IF f = b THEN "Free"
                                           ELSE IF f \in Run(b, o) THEN "Tail"
                                           ELSE state[f]]
             /\ cur' = b + Size[o] /\ pc' = "carve" /\ goal' = goal
  BY RangeCarveBlocks, Zenon
<1>2. PICK d \in Donations :
             /\ goal = d[1] + d[2] /\ d[1] <= b
             /\ \A p \in Linked :
                   d[1] <= p /\ p < b /\ order[p] + 1 \in Orders
                   /\ p % Size[order[p] + 1] = 0
                   => p + Size[order[p] + 1] > goal
  BY <1>1, Zenon DEF RangeInv
<1>3. /\ Size[o] \in Nat /\ Size[o] >= 1 /\ b \in Nat /\ goal \in Nat
      /\ b + Size[o] <= goal /\ d[1] \in Nat
  <2>1. Size[o] \in Nat /\ Size[o] >= 1 /\ b \in Nat
    BY SizeFacts DEF Frames
  <2>2. goal \in Nat
    BY <1>1, SMTT(60) DEF StructInv, TypeOK, OpInv, Orders
  <2>3. Size[o] <= goal - b
    BY <1>1, Zenon DEF IsMaxOrderAt
  <2>4. QED
    BY <2>1, <2>2, <2>3, DonationsAssumption, SMTT(60) DEF Frames
<1>5. ASSUME NEW p \in Linked', d[1] <= p, p < b + Size[o], order'[p] + 1 \in Orders,
             p % Size[order'[p] + 1] = 0
      PROVE  p + Size[order'[p] + 1] > goal
  <2>1. CASE p = b
    <3>1. ~(Size[o + 1] <= goal - b)
      <4>1. o + 1 \in Orders /\ b % Size[o + 1] = 0 /\ ~(o + 1 <= o)
        <5>1. order'[p] = o
          BY <1>1, <2>1, Zenon
        <5>2. o \in Int
          BY DEF Orders
        <5>3. ~(o + 1 <= o)
          BY <5>2
        <5>4. QED
          BY <5>1, <5>3, <1>5, <2>1, Zenon
      <4>2. QED
        BY <4>1, <1>1, Zenon DEF IsMaxOrderAt
    <3>2. Size[o + 1] \in Nat
      BY <1>1, <1>5, <2>1, SizeFacts, Zenon
    <3>3. b + Size[o + 1] > goal
      BY <3>1, <3>2, <1>3, SMTT(60)
    <3>4. QED
      BY <2>1, <3>3, <1>1, Zenon
  <2>2. CASE p # b
    <3>1. p \in Linked /\ order'[p] = order[p] /\ p \in Frames /\ p \in Nat /\ state[p] = "Free"
      BY <2>2, <1>1, SMTT(60) DEF Linked, Frames
    <3>2. p < b
      <4>1. ~(b <= p /\ p < goal)
        BY <3>1, <1>1, Zenon DEF StructInv, OpInv
      <4>2. QED
        BY <4>1, <3>1, <1>3, <1>5, SMTT(60)
    <3>3. QED
      BY <3>1, <3>2, <1>2, <1>5, Zenon
  <2>3. QED
    BY <2>1, <2>2, Zenon
<1>6. d[1] <= b + Size[o]
  BY <1>2, <1>3, SMTT(60)
<1>7. QED
  BY <1>1, <1>2, <1>5, <1>6, Zenon DEF RangeInv

\* Every step of alloc, free and free_range keeps the free blocks coalesced.
LEMMA NextCoalesced ==
    ASSUME StructInv, BlocksAligned, Coalesced, RangeInv, [Next]_vars
    PROVE  Coalesced' /\ RangeInv'
<1>1. ASSUME Linked' \subseteq Linked, \A p \in Linked : order'[p] = order[p]
      PROVE  Coalesced'
  BY <1>1, Zenon DEF Coalesced
<1>2. ASSUME pc' # "carve"
      PROVE  RangeInv'
  BY <1>2, Zenon DEF RangeInv
<1>t. state \in [Frames -> PageStates]
  BY Zenon DEF StructInv, TypeOK
<1>3. ASSUME NEW want \in Orders, AllocPop(want) PROVE Coalesced' /\ RangeInv'
  BY <1>1, <1>2, <1>3, AllocPopBlocks, Zenon
<1>4. CASE AllocSplit
  <2>1. PICK b \in Frames :
          state' = [state EXCEPT ![b] = "Free"] /\ state[b] = "Tail" /\ pc' = "split"
    BY <1>4, AllocSplitBlocks, Zenon
  <2>2. QED
    BY <1>2, <1>4, <1>t, <2>1, AllocSplitCoalesced, Zenon
<1>5. CASE AllocDone
  BY <1>1, <1>2, <1>5, AllocDoneBlocks, Zenon
<1>6. ASSUME NEW p \in Frames, FreeBegin(p) PROVE Coalesced' /\ RangeInv'
  BY <1>1, <1>2, <1>6, FreeBeginBlocks, Zenon
<1>7. CASE FreeMerge
  <2>1. PICK b \in Linked, h \in Heads, t \in Heads :
          /\ Linked' = Linked \ {b} /\ order' = order
          /\ state' = [state EXCEPT ![t] = "Tail"] /\ pc' = "merge"
    BY <1>7, FreeMergeBlocks, Zenon
  <2>2. t \in Frames /\ state[t] # "Reserved"
    BY Zenon DEF Heads
  <2>3. QED
    BY <1>1, <1>2, <1>t, <2>1, <2>2, Zenon
<1>8. CASE FreeDone
  <2>1. PICK b \in Heads : state' = [state EXCEPT ![b] = "Free"] /\ pc' = "idle"
    BY <1>8, FreeDoneBlocks, Zenon
  <2>2. b \in Frames /\ state[b] # "Reserved"
    BY Zenon DEF Heads
  <2>3. QED
    BY <1>2, <1>8, <1>t, <2>1, <2>2, FreeDoneCoalesced, Zenon
<1>9. CASE RangeCarve
  BY <1>9, RangeCarveCoalesced, RangeCarveRangeInv, Zenon
<1>10. ASSUME NEW d \in Donations, RangeBegin(d[1], d[2]) PROVE Coalesced' /\ RangeInv'
  <2>1. /\ Linked' = Linked /\ UNCHANGED <<state, order>>
    BY <1>10, RangeBoundsBlocks, Zenon
  <2>2. cur' = d[1] /\ goal' = d[1] + d[2]
    BY <1>10, Zenon DEF RangeBegin
  <2>3. \A p \in Linked : p \in Int /\ d[1] \in Int
    BY DonationsAssumption, SMTT(60) DEF Linked, Frames
  <2>4. d[1] \in Int
    BY DonationsAssumption DEF Frames
  <2>5. d[1] <= d[1] /\ \A p \in Linked : ~(d[1] <= p /\ p < d[1])
    BY <2>3, <2>4
  <2>6. QED
    BY <1>1, <2>1, <2>2, <2>5, Zenon DEF RangeInv
<1>11. CASE RangeDone
  BY <1>1, <1>2, <1>11, RangeBoundsBlocks, Zenon DEF RangeDone, Idle
<1>12. CASE UNCHANGED vars
  <2>1. Linked' = Linked /\ UNCHANGED <<state, order, pc, cur, goal>>
    BY <1>12, RangeBoundsBlocks, Zenon DEF vars
  <2>2. QED
    BY <2>1, Zenon DEF Coalesced, RangeInv
<1>13. QED
  BY <1>3, <1>4, <1>5, <1>6, <1>7, <1>8, <1>9, <1>10, <1>11, <1>12, Zenon DEF Next, Step,
     AllocNone

\* A list that should hold a block has a head.
LEMMA HeadExists ==
    ASSUME StructInv, ListsEnd, NEW q \in Linked
    PROVE  free_area[order[q]] # None
<1>1. PICK rank \in [Frames -> Nat] :
        \A p \in Linked : prev[p] # None => rank[prev[p]] < rank[p]
  BY Zenon DEF ListsEnd
<1> DEFINE Same == {p \in Linked : order[p] = order[q]}
           T == {rank[p] : p \in Same}
<1>2. \A p \in Linked : p \in Frames /\ p # None /\ rank[p] \in Nat
  BY Zenon DEF Linked
<1>3. T \subseteq Nat /\ T # {}
  BY <1>2
<1>4. PICK m \in T : \A n \in T : m <= n
  BY <1>3, LeastElement, Zenon
<1>5. PICK p \in Same : m = rank[p]
  BY <1>4, Zenon
<1>6. CASE prev[p] = None
  BY <1>2, <1>5, <1>6, SMTT(60) DEF StructInv, ListInv
<1>7. CASE prev[p] # None
  <2>1. prev[p] \in Same /\ rank[prev[p]] < rank[p] /\ rank[prev[p]] \in Nat
        /\ rank[p] \in Nat
    BY <1>1, <1>2, <1>5, <1>7, Zenon DEF StructInv, ListInv
  <2>2. rank[p] <= rank[prev[p]]
    BY <1>4, <1>5, <2>1, Zenon
  <2>3. QED
    BY <2>1, <2>2, SMTT(60)
<1>8. QED
  BY <1>6, <1>7, Zenon

\* Between operations a free frame lies in a block on a free list.
LEMMA FreeFrameLinked ==
    ASSUME StructInv, BlocksAligned, pc = "idle", NEW f \in FreeFrames
    PROVE  \E q \in Linked : /\ q \in Int /\ order[q] \in Orders
                             /\ q <= f /\ f < q + Size[order[q]]
                             /\ q % Size[order[q]] = 0
<1>1. PICK q \in Heads \ HeldHeads : f \in Run(q, BlockOrder(q))
  BY Zenon DEF FreeFrames
<1>2. q \in Linked /\ BlockOrder(q) = order[q] /\ q \in Heads /\ q \in Frames /\ f \in Int
  BY <1>1, SMTT(60) DEF Heads, HeldHeads, Linked, BlockOrder, InFlight, FreeFrames, Frames
<1>3. order[q] \in Orders /\ q % Size[order[q]] = 0
  BY <1>2, BlockFacts, Zenon DEF BlocksAligned
<1>4. q <= f /\ f < q + Size[order[q]]
  BY <1>1, <1>2, <1>3, RunFacts, Zenon
<1>5. QED
  BY <1>2, <1>3, <1>4, SMTT(60) DEF Frames

\* Position p can hold a block of order o.
Aligned(p, o) == p % Size[o] = 0

\* NatLemmas, for block sizes: the halves of an aligned block are aligned, and
\* aligned positions are a block apart.
LEMMA AlignedFacts ==
    ASSUME NEW o \in Orders
    PROVE  /\ \A p \in Int : o + 1 \in Orders /\ Aligned(p, o + 1)
                             => Aligned(p, o) /\ Aligned(p + Size[o], o)
           /\ \A p, q \in Int : Aligned(p, o) /\ Aligned(q, o) /\ p < q
                                => p + Size[o] <= q
<1>1. Size[o] \in Nat /\ Size[o] >= 1 /\ Size[o + 1] = 2 * Size[o]
  BY SizeFacts, Zenon
<1>2. ASSUME NEW p \in Int, Aligned(p, o + 1)
      PROVE  Aligned(p, o) /\ Aligned(p + Size[o], o)
  BY <1>1, <1>2, AlignedHalves, Zenon DEF Aligned
<1>3. ASSUME NEW p \in Int, NEW q \in Int, Aligned(p, o), Aligned(q, o), p < q
      PROVE  p + Size[o] <= q
  BY <1>1, <1>3, AlignedApart, Zenon DEF Aligned
<1>4. QED
  BY <1>2, <1>3, Zenon

\* Block q, aligned and of order j at least, meets the run of order j at a.
Meets(q, a, j) ==
    /\ q \in Int /\ order[q] \in Orders /\ order[q] >= j /\ Aligned(q, order[q])
    /\ q < a + Size[j] /\ a < q + Size[order[q]]

\* All frames of the run of order j at a are free.
RunFree(a, j) == \A f \in Int : a <= f /\ f < a + Size[j] => f \in FreeFrames

\* The induction step of the next lemma: if every such run of order j
\* meets a block of at least that order, the halves of one of order j + 1 are
\* not both blocks of order j, so one of them meets a larger block.
LEMMA RunMeetsLarger ==
    ASSUME StructInv, Coalesced, NEW j \in Orders, j + 1 \in Orders,
           \A c \in Frames : Aligned(c, j) /\ RunFree(c, j) /\ InOneRange(c, j)
                             => \E q \in Linked : Meets(q, c, j),
           NEW a \in Frames, Aligned(a, j + 1), RunFree(a, j + 1), InOneRange(a, j + 1)
    PROVE  \E q \in Linked : Meets(q, a, j + 1)
<1> SUFFICES ASSUME \A q \in Linked : ~Meets(q, a, j + 1) PROVE FALSE
  BY Zenon
<1>1. /\ Size[j + 1] = 2 * Size[j] /\ Size[j] \in Nat /\ Size[j] >= 1
      /\ a \in Int /\ j \in Int
  BY SizeFacts, SMTT(60) DEF Frames, Orders
<1>2. PICK u : u = a + Size[j]
  BY Zenon
<1>3. u \in Int /\ a <= u /\ u < a + Size[j + 1] /\ Aligned(a, j) /\ Aligned(u, j)
  BY <1>1, <1>2, AlignedFacts, SMTT(60)
<1>4. u \in Frames
  BY <1>3, Zenon DEF FreeFrames, RunFree
<1>5. ASSUME NEW c \in {a, u} PROVE c \in Linked /\ order[c] = j
  <2>1. /\ c \in Frames /\ c \in Int /\ Aligned(c, j)
        /\ a <= c /\ c + Size[j] <= a + Size[j + 1] /\ c < a + Size[j + 1]
    BY <1>1, <1>2, <1>3, <1>4, SMTT(60)
  <2>2. RunFree(c, j)
    BY <1>1, <2>1, SMTT(60) DEF RunFree
  <2>r. InOneRange(c, j)
    <3>1. PICK d \in Donations : d[1] <= a /\ a + Size[j + 1] <= d[1] + d[2]
      BY Zenon DEF InOneRange
    <3>2. d[1] \in Int /\ d[2] \in Int
      BY DonationsAssumption, SMTT(60) DEF Frames
    <3>3. d[1] <= c /\ c + Size[j] <= d[1] + d[2]
      BY <1>1, <2>1, <3>1, <3>2, SMTT(60)
    <3>4. QED
      BY <3>3, Zenon DEF InOneRange
  <2>3. PICK q \in Linked : Meets(q, c, j)
    BY <2>1, <2>2, <2>r, Zenon
  <2>4. /\ q \in Int /\ order[q] \in Orders /\ order[q] >= j /\ order[q] \in Int
        /\ Aligned(q, order[q])
        /\ q < c + Size[j] /\ c < q + Size[order[q]] /\ Size[order[q]] \in Nat
    <3>1. /\ q \in Int /\ order[q] \in Orders /\ order[q] >= j
          /\ Aligned(q, order[q]) /\ q < c + Size[j] /\ c < q + Size[order[q]]
      BY <2>3, Zenon DEF Meets
    <3>2. \A o \in Orders : o \in Int /\ Size[o] \in Nat
      <4>1. \A o \in Orders : o \in Int
        BY SMTT(60) DEF Orders
      <4>2. QED
        BY <4>1, SizeFacts, Zenon
    <3>3. QED
      BY <3>1, <3>2, Zenon
  <2>5. q < a + Size[j + 1] /\ a < q + Size[order[q]]
    <3>1. PICK y, z : y = Size[j] /\ z = Size[order[q]]
      BY Zenon
    <3>2. /\ y \in Int /\ z \in Int /\ q \in Int /\ a \in Int /\ c \in Int
          /\ q < c + y /\ c < q + z /\ a <= c /\ c + y <= a + 2 * y
      BY <1>1, <2>1, <2>4, <3>1, SMTT(60)
    <3>3. q < a + 2 * y /\ a < q + z
      BY <3>2, SMTT(60)
    <3>4. QED
      BY <1>1, <3>1, <3>3, Zenon
  <2>6. ~(order[q] >= j + 1)
    BY <2>4, <2>5, Zenon DEF Meets
  <2>7. order[q] = j
    BY <1>1, <2>4, <2>6, SMTT(60)
  <2>8. ~(q < c) /\ ~(c < q)
    <3>1. q \in Int /\ Aligned(q, j) /\ ~(c + Size[j] <= q) /\ ~(q + Size[j] <= c)
      BY <1>1, <2>1, <2>4, <2>7, SMTT(60)
    <3>2. QED
      BY <2>1, <3>1, AlignedFacts, Zenon
  <2>9. q = c
    BY <2>1, <2>4, <2>8, SMTT(60)
  <2>10. QED
    BY <2>7, <2>9, Zenon
<1>6. QED
  BY <1>1, <1>2, <1>5, Zenon DEF Coalesced, Aligned

\* An aligned run of free frames of one range meets a free block at least as large: two
\* smaller blocks that filled its halves would have been merged.
LEMMA RunMeetsBlock ==
    ASSUME StructInv, BlocksAligned, Coalesced, pc = "idle",
           NEW o \in Orders, NEW p \in Frames, Aligned(p, o), RunFree(p, o),
           InOneRange(p, o)
    PROVE  \E q \in Linked : order[q] \in Orders /\ order[q] >= o
<1> DEFINE T == {j \in 0 .. MaxOrder - 1 : \A a \in Frames :
                   Aligned(a, j) /\ RunFree(a, j) /\ InOneRange(a, j)
                   => \E q \in Linked : Meets(q, a, j)}
<1>1. 0 \in T
  <2> SUFFICES ASSUME NEW a \in Frames, RunFree(a, 0)
               PROVE  \E q \in Linked : Meets(q, a, 0)
    OBVIOUS
  <2>1. a \in FreeFrames /\ a \in Int
    BY DEF Frames, RunFree
  <2>2. PICK q \in Linked : /\ q \in Int /\ order[q] \in Orders
                            /\ q <= a /\ a < q + Size[order[q]]
                            /\ q % Size[order[q]] = 0
    BY <2>1, FreeFrameLinked, Zenon
  <2>3. order[q] >= 0 /\ q < a + Size[0]
    <3>1. q \in Int /\ q <= a /\ order[q] \in Orders
      BY <2>2, Zenon
    <3>2. q < a + Size[0]
      BY <2>1, <3>1
    <3>3. \A j \in Orders : j >= 0
      BY DEF Orders
    <3>4. QED
      BY <3>1, <3>2, <3>3, Zenon
  <2>4. QED
    BY <2>2, <2>3, Zenon DEF Meets, Aligned
<1>2. ASSUME NEW j \in 0 .. (MaxOrder - 1) - 1, j \in T PROVE j + 1 \in T
  <2>1. j \in Orders /\ j + 1 \in Orders
    BY DEF Orders
  <2>2. QED
    BY <1>2, <2>1, RunMeetsLarger, Zenon DEF Orders
<1> HIDE DEF T
<1>3. MaxOrder - 1 \in Nat
  OBVIOUS
<1>4. 0 .. MaxOrder - 1 \subseteq T
  BY <1>1, <1>2, <1>3, UpTo, Zenon
<1>5. o \in T
  BY <1>4, Zenon DEF Orders
<1>6. QED
  BY <1>5, Zenon DEF T, Meets

\* Hence alloc finds a block whenever such a run exists.
LEMMA CoalescedSuffices ==
    ASSUME StructInv, BlocksAligned, Coalesced, ListsEnd
    PROVE  NoFalseExhaustion
<1> SUFFICES ASSUME pc = "idle", NEW o \in Orders, NEW p \in Frames, p % Size[o] = 0,
                    Run(p, o) \subseteq FreeFrames, InOneRange(p, o)
             PROVE  \E j \in o .. MaxOrder - 1 : free_area[j] # None
  BY Zenon DEF NoFalseExhaustion
<1>1. RunFree(p, o) /\ Aligned(p, o)
  BY RunFacts, Zenon DEF RunFree, Aligned
<1>2. PICK q \in Linked : order[q] \in Orders /\ order[q] >= o
  BY <1>1, RunMeetsBlock, Zenon
<1>3. free_area[order[q]] # None
  BY HeadExists, Zenon
<1>4. order[q] \in o .. MaxOrder - 1
  BY <1>2, SMTT(60) DEF Orders
<1>5. QED
  BY <1>3, <1>4, Zenon

\* After any history of alloc, free and free_range an aligned run of 2^o free
\* frames within one donated range is enough for alloc(o) to succeed.
THEOREM FreeMemoryIsUsable == Spec => []NoFalseExhaustion
<1>1. Init => Coalesced /\ RangeInv
  BY Zenon DEF Init, Coalesced, RangeInv, Linked
<1>2. Init => ListsEnd
  BY InitListsEnd, Zenon
<1>3. IInv /\ ListsEnd /\ [Next]_vars => ListsEnd'
  BY NextListsEnd, Zenon DEF IInv
<1>4. IInv /\ BlocksAligned /\ Coalesced /\ RangeInv /\ [Next]_vars => Coalesced' /\ RangeInv'
  BY NextCoalesced, Zenon DEF IInv
<1>5. IInv /\ BlocksAligned /\ Coalesced /\ ListsEnd => NoFalseExhaustion
  BY CoalescedSuffices DEF IInv
<1>6. QED
  BY <1>1, <1>2, <1>3, <1>4, <1>5, Invariance, BlocksAreAligned, PTL DEF Spec
=============================================================================
