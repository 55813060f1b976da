------------------------------- MODULE Buddy -------------------------------
(***************************************************************************)
(* The buddy page allocator (kernel/mm/buddy.rs): a mem-map with one       *)
(* PageInfo per frame, and per-order free lists threaded through it.       *)
(*                                                                         *)
(* Every operation runs under one SpinLock, so at most one is in progress; *)
(* its loops are modelled one iteration per step.  `pc' says which loop is *)
(* running, and `cur', `k' and `goal' are its local variables: block / k / *)
(* order in alloc, cur / cur_order in free, pfn / order / end in           *)
(* free_range.  A step of an operation in progress is the only step        *)
(* possible, so callers never see an intermediate state.                   *)
(***************************************************************************)
EXTENDS Integers, FiniteSets

CONSTANTS NrFrames,    \* nr_frames
          MaxOrder,    \* MAX_ORDER
          Size,        \* Size[o] = 1 << o
          Donations,   \* the <<start, count>> the boot code passes to free_range
          None         \* Option::None, stored as RAW_NONE in a link

Frames == 0 .. NrFrames - 1
Orders == 0 .. MaxOrder - 1

ASSUME BoundsAssumption ==
    /\ NrFrames \in Nat \ {0}
    /\ MaxOrder \in Nat \ {0}
    /\ None \notin Frames
    /\ None \notin Orders

ASSUME SizeAssumption ==
    /\ Size \in [0 .. MaxOrder -> Nat]
    /\ Size[0] = 1
    /\ \A o \in Orders : Size[o + 1] = 2 * Size[o]
    /\ \A o \in Orders : Size[o] >= 1

ASSUME DonationsAssumption ==
    /\ \A d \in Donations :
          d[1] \in Frames /\ d[2] \in Nat /\ d[1] + d[2] <= NrFrames
    /\ \A d, e \in Donations : d # e => d[1] + d[2] <= e[1] \/ e[1] + e[2] <= d[1]

VARIABLES state,        \* PageInfo::state
          order,        \* PageInfo::order; None until first written
          next, prev,   \* PageInfo::next, prev
          free_area,    \* head of each free list
          free_frames,  \* the frame counter
          pc, cur, k, goal

vars == <<state, order, next, prev, free_area, free_frames, pc, cur, k, goal>>

PageStates == {"Reserved", "Free", "Allocated", "Tail"}

Run(p, o) == p .. p + Size[o] - 1

-----------------------------------------------------------------------------
(* PageInfo and free-list helpers.                                         *)

\* Mutant: the buddy is always the block to the right.
BuddyPfnRight(p, o) == p + Size[o]

\* buddy_pfn: pfn ^ (1 << order); the caller tests it against nr_frames.
BuddyPfn(p, o) ==
    IF (p \div Size[o]) % 2 = 0 THEN p + Size[o] ELSE p - Size[o]

\* Mutant: the alignment of pfn is not considered.
IsMaxOrderUnaligned(o, p, remaining) ==
    Size[o] <= remaining /\ \A j \in Orders : Size[j] <= remaining => j <= o

\* max_order_at: the largest order, below MAX_ORDER, that pfn is aligned to
\* and that the remaining frames can hold.
IsMaxOrderAt(o, p, remaining) ==
    LET fits(j) == p % Size[j] = 0 /\ Size[j] <= remaining
    IN  fits(o) /\ \A j \in Orders : fits(j) => j <= o

\* Mutant: the old head's prev is left alone.
PushFrontOneWay(o, p, cleared) ==
    /\ next' = [f \in Frames |-> IF f = p THEN free_area[o]
                                 ELSE IF f \in cleared THEN None ELSE next[f]]
    /\ prev' = [f \in Frames |-> IF f \in cleared \cup {p} THEN None ELSE prev[f]]
    /\ free_area' = [free_area EXCEPT ![o] = p]

\* push_front(o, p), for the links and the list head.  `cleared' is the set
\* of frames whose links the caller sets to None in the same step (mark_tail).
PushFront(o, p, cleared) ==
    LET h == free_area[o] IN
    /\ next' = [f \in Frames |-> IF f = p THEN h
                                 ELSE IF f \in cleared THEN None ELSE next[f]]
    /\ prev' = [f \in Frames |-> IF f \in cleared \cup {p} THEN None
                                 ELSE IF f = h THEN p ELSE prev[f]]
    /\ free_area' = [free_area EXCEPT ![o] = p]

\* unlink(o, p); it leaves p's own links as they were.
Unlink(o, p, cleared) ==
    /\ next' = [f \in Frames |->
                  IF f \in cleared THEN None
                  ELSE IF f = prev[p] THEN next[p] ELSE next[f]]
    /\ prev' = [f \in Frames |->
                  IF f \in cleared THEN None
                  ELSE IF f = next[p] THEN prev[p] ELSE prev[f]]
    /\ free_area' = IF prev[p] = None THEN [free_area EXCEPT ![o] = next[p]]
                                      ELSE free_area

Idle == pc' = "idle" /\ cur' = 0 /\ k' = 0 /\ goal' = 0

-----------------------------------------------------------------------------
(* new: every frame Reserved, every list empty.                            *)
Init ==
    /\ state = [f \in Frames |-> "Reserved"]
    /\ order = [f \in Frames |-> None]
    /\ next = [f \in Frames |-> None]
    /\ prev = [f \in Frames |-> None]
    /\ free_area = [o \in Orders |-> None]
    /\ free_frames = 0
    /\ pc = "idle" /\ cur = 0 /\ k = 0 /\ goal = 0

-----------------------------------------------------------------------------
(* alloc(want)                                                             *)

\* The smallest list that can serve the request is popped.
AllocPop(want) ==
    \E j \in want .. MaxOrder - 1 :
        /\ pc = "idle"
        /\ free_area[j] # None
        /\ \A i \in want .. j - 1 : free_area[i] = None
        /\ Unlink(j, free_area[j], {})
        /\ pc' = "split" /\ cur' = free_area[j] /\ k' = j /\ goal' = want
        /\ UNCHANGED <<state, order, free_frames>>

\* No list can serve it, or the order is out of range: alloc returns None and
\* nothing changes.
AllocNone(want) ==
    /\ pc = "idle"
    /\ \A j \in want .. MaxOrder - 1 : free_area[j] = None
    /\ UNCHANGED vars

\* Mutant: the upper half is marked with the order before the decrement.
AllocSplitOffByOne ==
    /\ pc = "split" /\ k > goal
    /\ LET buddy == cur + Size[k - 1] IN
       /\ state' = [state EXCEPT ![buddy] = "Free"]
       /\ order' = [order EXCEPT ![buddy] = k]
       /\ PushFront(k - 1, buddy, {})
    /\ k' = k - 1
    /\ UNCHANGED <<free_frames, pc, cur, goal>>

\* Mutant: the upper half is not given back.
AllocSplitDrop ==
    /\ pc = "split" /\ k > goal
    /\ k' = k - 1
    /\ UNCHANGED <<state, order, next, prev, free_area, free_frames, pc, cur, goal>>

\* Mutant: the loop does not count down.
AllocSplitForever ==
    /\ pc = "split" /\ k > goal
    /\ LET buddy == cur + Size[k - 1] IN
       /\ state' = [state EXCEPT ![buddy] = "Free"]
       /\ order' = [order EXCEPT ![buddy] = k - 1]
       /\ PushFront(k - 1, buddy, {})
    /\ UNCHANGED <<free_frames, pc, cur, k, goal>>

\* One turn of the split loop: the upper half becomes a free block.
AllocSplit ==
    /\ pc = "split" /\ k > goal
    /\ LET buddy == cur + Size[k - 1] IN
       /\ state' = [state EXCEPT ![buddy] = "Free"]
       /\ order' = [order EXCEPT ![buddy] = k - 1]
       /\ PushFront(k - 1, buddy, {})
    /\ k' = k - 1
    /\ UNCHANGED <<free_frames, pc, cur, goal>>

\* Mutant: the counter counts blocks instead of frames.
AllocDoneMiscount ==
    /\ pc = "split" /\ k = goal
    /\ free_frames' = free_frames - 1
    /\ state' = [state EXCEPT ![cur] = "Allocated"]
    /\ order' = [order EXCEPT ![cur] = goal]
    /\ next' = [next EXCEPT ![cur] = None]
    /\ prev' = [prev EXCEPT ![cur] = None]
    /\ Idle
    /\ UNCHANGED free_area

AllocDone ==
    /\ pc = "split" /\ k = goal
    /\ free_frames' = free_frames - Size[goal]
    /\ state' = [state EXCEPT ![cur] = "Allocated"]
    /\ order' = [order EXCEPT ![cur] = goal]
    /\ next' = [next EXCEPT ![cur] = None]
    /\ prev' = [prev EXCEPT ![cur] = None]
    /\ Idle
    /\ UNCHANGED free_area

-----------------------------------------------------------------------------
(* free(p, order).  The code checks neither argument: the caller returns a *)
(* block it holds with the order it asked for, as every caller in the      *)
(* kernel does (Layout-driven in slab.rs, constant elsewhere).             *)
FreeBegin(p) ==
    /\ pc = "idle" /\ state[p] = "Allocated"
    /\ free_frames' = free_frames + Size[order[p]]
    /\ pc' = "merge" /\ cur' = p /\ k' = order[p] /\ goal' = 0
    /\ UNCHANGED <<state, order, next, prev, free_area>>

\* Mutant: the buddy's order is not compared.
MergeableAnyOrder ==
    LET b == BuddyPfn(cur, k) IN
    k < MaxOrder - 1 /\ b \in Frames /\ state[b] = "Free"

\* The condition under which the coalescing loop goes on.
Mergeable ==
    LET b == BuddyPfn(cur, k) IN
    k < MaxOrder - 1 /\ b \in Frames /\ state[b] = "Free" /\ order[b] = k

FreeMerge ==
    /\ pc = "merge" /\ Mergeable
    /\ LET b == BuddyPfn(cur, k)
           head == IF cur < b THEN cur ELSE b
           tail == IF cur < b THEN b ELSE cur
       IN  /\ Unlink(k, b, {tail})
           /\ state' = [state EXCEPT ![tail] = "Tail"]
           /\ cur' = head
    /\ k' = k + 1
    /\ UNCHANGED <<order, free_frames, pc, goal>>

FreeDone ==
    /\ pc = "merge" /\ ~Mergeable
    /\ state' = [state EXCEPT ![cur] = "Free"]
    /\ order' = [order EXCEPT ![cur] = k]
    /\ PushFront(k, cur, {})
    /\ Idle
    /\ UNCHANGED free_frames

-----------------------------------------------------------------------------
(* free_range(start, count): called with frames the allocator never owned. *)
RangeBegin(start, count) ==
    /\ pc = "idle"
    /\ \A f \in start .. start + count - 1 : state[f] = "Reserved"
    /\ pc' = "carve" /\ cur' = start /\ k' = 0 /\ goal' = start + count
    /\ UNCHANGED <<state, order, next, prev, free_area, free_frames>>

RangeCarve ==
    \E o \in Orders :
        /\ pc = "carve" /\ cur < goal
        /\ IsMaxOrderAt(o, cur, goal - cur)
        /\ state' = [f \in Frames |-> IF f = cur THEN "Free"
                                      ELSE IF f \in Run(cur, o) THEN "Tail"
                                      ELSE state[f]]
        /\ order' = [order EXCEPT ![cur] = o]
        /\ PushFront(o, cur, Run(cur, o) \ {cur})
        /\ free_frames' = free_frames + Size[o]
        /\ cur' = cur + Size[o]
        /\ UNCHANGED <<pc, k, goal>>

RangeDone ==
    /\ pc = "carve" /\ cur = goal
    /\ Idle
    /\ UNCHANGED <<state, order, next, prev, free_area, free_frames>>

-----------------------------------------------------------------------------
Step == AllocSplit \/ AllocDone \/ FreeMerge \/ FreeDone
        \/ RangeCarve \/ RangeDone

Next ==
    \/ \E want \in Orders : AllocPop(want)
    \/ \E want \in 0 .. MaxOrder : AllocNone(want)
    \/ \E p \in Frames : FreeBegin(p)
    \/ \E d \in Donations : RangeBegin(d[1], d[2])
    \/ Step

Spec == Init /\ [][Next]_vars

\* An operation that has begun runs to its end: no handler
\* returns, so nothing preempts a CPU that holds the lock and goes on later.
FairSpec == Spec /\ WF_vars(Step)

-----------------------------------------------------------------------------
(* The blocks the mem-map describes.                                       *)

\* alloc and free work on a block that is on no list and whose recorded order
\* is stale; its order is k.
InFlight == pc \in {"split", "merge"}

BlockOrder(p) == IF InFlight /\ p = cur THEN k ELSE order[p]

Heads == {p \in Frames : state[p] \in {"Free", "Allocated"}}

Linked == {p \in Frames : state[p] = "Free" /\ ~(InFlight /\ p = cur)}

HeldHeads == {p \in Frames : state[p] = "Allocated" /\ ~(InFlight /\ p = cur)}

\* A block in hand counts as free: alloc has not returned it yet, free has
\* already accepted it.
FreeFrames ==
    {f \in Frames : \E p \in Heads \ HeldHeads : f \in Run(p, BlockOrder(p))}

Held == {<<p, order[p]>> : p \in HeldHeads}

TypeOK ==
    /\ state \in [Frames -> PageStates]
    /\ order \in [Frames -> Orders \cup {None}]
    /\ next \in [Frames -> Frames \cup {None}]
    /\ prev \in [Frames -> Frames \cup {None}]
    /\ free_area \in [Orders -> Frames \cup {None}]
    /\ free_frames \in Nat
    /\ pc \in {"idle", "split", "merge", "carve"}
    /\ cur \in 0 .. NrFrames
    /\ k \in Orders
    /\ goal \in 0 .. NrFrames \cup Orders

\* No frame belongs to two blocks: splitting, coalescing and carving never
\* leave two free or allocated blocks overlapping, nor one past the end.
BlocksDisjoint ==
    /\ \A p \in Heads : Run(p, BlockOrder(p)) \subseteq Frames
    /\ \A p, q \in Heads :
          p # q => Run(p, BlockOrder(p)) \cap Run(q, BlockOrder(q)) = {}

\* No frame is lost: a Tail belongs to some block.
NoLostFrames ==
    \A f \in Frames : state[f] = "Tail" =>
        \E p \in Heads : f \in Run(p, BlockOrder(p))

\* The frames met on list o, walking next from free_area[o].
OnList(o) ==
    LET at[n \in 0 .. NrFrames] ==
            IF n = 0 THEN free_area[o]
            ELSE IF at[n - 1] = None THEN None ELSE next[at[n - 1]]
    IN  {at[n] : n \in 0 .. NrFrames} \ {None}

\* push_front, unlink and pop_front keep the intrusive lists exact: list o
\* holds the free blocks of order o, all of them, and no others.  A block that
\* dropped off its list would never be allocated again.  prev undoes next and
\* the head has no predecessor, so a list does not run in a circle.
ListsExact ==
    \A o \in Orders :
        /\ OnList(o) = {p \in Linked : order[p] = o}
        /\ free_area[o] # None => prev[free_area[o]] = None
        /\ \A p \in OnList(o) : next[p] # None => prev[next[p]] = p

\* free_frames, which the boot log reports, is the number of frames alloc
\* could still hand out; so `free_frames -= ...' never underflows.
Accounting == free_frames = Cardinality(FreeFrames)

\* The 2^o frames from p on were donated in one call of free_range.
InOneRange(p, o) == \E d \in Donations : d[1] <= p /\ p + Size[o] <= d[1] + d[2]

\* alloc(o) fails only if no aligned run of 2^o free frames exists within a
\* donated range: there is no history of splits and merges after which free
\* memory is unusable, since free coalesces as far as it can.  (free_range does
\* not: a run that reaches across two ranges may stay in pieces until one of
\* them is allocated and freed.)
NoFalseExhaustion ==
    pc = "idle" =>
        \A o \in Orders, p \in Frames :
            /\ p % Size[o] = 0
            /\ Run(p, o) \subseteq FreeFrames
            /\ InOneRange(p, o)
            => \E j \in o .. MaxOrder - 1 : free_area[j] # None

\* A block alloc returns is aligned to its size (relative to dram_base), which
\* is what makes buddy_pfn's xor find the sibling.
BlocksAligned == \A p \in Heads : p % Size[BlockOrder(p)] = 0

(* The inductive invariant.                                                *)

\* The frames after the head of a block, up to its order, are Tails: two
\* blocks could only overlap if one's head were a Tail.
BlockInv ==
    \A p \in Heads :
        /\ BlockOrder(p) \in Orders
        /\ p + Size[BlockOrder(p)] <= NrFrames
        /\ \A f \in Frames :
              p < f /\ f < p + Size[BlockOrder(p)] => state[f] = "Tail"

TailInv ==
    \A f \in Frames : state[f] = "Tail" =>
        \E p \in Heads : p < f /\ f < p + Size[BlockOrder(p)]

\* Links are mutual, stay within one order, and a block without a
\* predecessor is the head of its list.
ListInv ==
    /\ \A p \in Linked :
          /\ next[p] # None => /\ next[p] \in Linked
                               /\ order[next[p]] = order[p]
                               /\ prev[next[p]] = p
          /\ prev[p] # None => /\ prev[p] \in Linked
                               /\ order[prev[p]] = order[p]
                               /\ next[prev[p]] = p
          /\ prev[p] = None => free_area[order[p]] = p
    /\ \A o \in Orders :
          free_area[o] # None => /\ free_area[o] \in Linked
                                 /\ order[free_area[o]] = o
                                 /\ prev[free_area[o]] = None

\* What the locals of the operation in progress mean.
OpInv ==
    /\ InFlight => cur \in Heads
    /\ pc = "split" => goal \in Orders /\ goal <= k
    /\ pc = "carve" =>
          /\ cur <= goal /\ goal <= NrFrames
          /\ \A f \in Frames : cur <= f /\ f < goal => state[f] = "Reserved"

StructInv == TypeOK /\ BlockInv /\ TailInv /\ ListInv /\ OpInv

\* The strengthening from which BlocksDisjoint, NoLostFrames, Accounting and
\* the refinement of FramePool follow.
IInv == StructInv /\ Accounting

\* Under the lock an operation always ends: each loop of alloc, free and
\* free_range terminates.
OperationsEnd == pc # "idle" ~> pc = "idle"

\* Buddy implements FramePool: frames change hands only as whole runs, from
\* free to one holder and back.
Pool == INSTANCE FramePool WITH free <- FreeFrames, held <- Held

ImplementsPool == Pool!Spec
=============================================================================
