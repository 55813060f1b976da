-------------------------------- MODULE Slab --------------------------------
(***************************************************************************)
(* The kernel heap (kernel/mm/slab.rs): per-class free lists threaded      *)
(* through the free objects themselves, refilled a page at a time, with    *)
(* larger requests passed to the page allocator, called from several CPUs. *)
(*                                                                         *)
(* Memory is a row of cells, each as large as a list link.  Sizes, classes *)
(* and alignments are in cells.  The page allocator behind the BUDDY lock  *)
(* is the pool that Buddy implements: an aligned run of free pages, or     *)
(* None, which it may answer even if there is one (donated blocks are not  *)
(* merged).                                                                *)
(***************************************************************************)
EXTENDS Integers, Sequences, FiniteSetsExt

CONSTANTS CPUs,
          PageSize,   \* PAGE_SIZE
          NPages,     \* pages the page allocator starts with
          Classes,    \* CLASSES
          Blocks,     \* the page allocator's block sizes, in pages: 1 << order
          Layouts,    \* <<size, align>> of requests
          MaxLive,    \* bound: objects in use at a time
          None,
          Data        \* what clients write into their objects

ASSUME SlabAssumption ==
    /\ NPages \in Nat /\ PageSize \in Nat \ {0} /\ MaxLive \in Nat
    /\ Classes \in Seq(Nat \ {0}) /\ Blocks \subseteq Nat \ {0}
    /\ Layouts \subseteq (Nat \ {0}) \X (Nat \ {0})
    \* What powers of two give: classes tile a page, and what is at least as
    \* large as an alignment is a multiple of it.
    /\ \A i \in 1 .. Len(Classes) : PageSize % Classes[i] = 0
    /\ \A l \in Layouts :
          /\ PageSize % l[2] = 0
          /\ \A i \in 1 .. Len(Classes) : Classes[i] >= l[2] => Classes[i] % l[2] = 0
    /\ None \notin CPUs \cup Nat /\ Data \notin Nat

Pages == 0 .. NPages - 1
Cells == 0 .. NPages * PageSize - 1
Range0(a, n) == a .. a + n - 1
PageCells(p, n) == Range0(p * PageSize, n * PageSize)

VARIABLES up,         \* BUDDY is set
          pool,       \* free pages of the page allocator
          slabLock, buddyLock,
          free_lists, \* first cell of the first free object, per class
          mem,        \* contents of each cell: Data, or a link
          live,       \* <<address, layout>> of the objects clients own
          pc, req,    \* per CPU: where it is, and its layout
          got,        \* per CPU: the page, object or address at hand
          tick        \* history: flips whenever a call returns

vars == <<up, pool, slabLock, buddyLock, free_lists, mem, live, pc, req, got, tick>>

\* Mutant: the alignment is ignored.
SizeClassBySize(size, align) ==
    LET fit == {i \in 1 .. Len(Classes) : Classes[i] >= size}
    IN  IF fit = {} THEN None ELSE Min(fit)

\* size_class_index
SizeClassIndex(size, align) ==
    LET fit == {i \in 1 .. Len(Classes) : Classes[i] >= Max({size, align})}
    IN  IF fit = {} THEN None ELSE Min(fit)

ClassOf(l) == SizeClassIndex(l[1], l[2])

\* pages_order, as the number of pages of the block: a power of two.
PagesFor(size) ==
    LET n == (size + PageSize - 1) \div PageSize
    IN  Min({x \in Blocks : x >= n})

Granted(l) == IF ClassOf(l) = None THEN PagesFor(l[1]) * PageSize ELSE Classes[ClassOf(l)]

Init ==
    /\ up = FALSE /\ pool = Pages
    /\ slabLock = None /\ buddyLock = None
    /\ free_lists = [i \in 1 .. Len(Classes) |-> None]
    /\ mem = [x \in Cells |-> Data] /\ live = {}
    /\ pc = [c \in CPUs |-> "idle"]
    /\ req = [c \in CPUs |-> None] /\ got = [c \in CPUs |-> None]
    /\ tick = FALSE

Go(c, from, to) == pc[c] = from /\ pc' = [pc EXCEPT ![c] = to]

Return(c) == tick' = ~tick /\ req' = [req EXCEPT ![c] = None] /\ got' = [got EXCEPT ![c] = None]

\* kmain installs the page allocator; allocations before that return null.
BuddyUp == ~up /\ up' = TRUE
           /\ UNCHANGED <<pool, slabLock, buddyLock, free_lists, mem, live, pc, req, got, tick>>

InUse == Cardinality(live) + Cardinality({c \in CPUs : pc[c] \in
             {"lock", "refill", "take", "carve", "pop", "unlink", "large", "ltake"}})

AllocCall(c, l) ==
    /\ InUse < MaxLive
    /\ Go(c, "idle", IF ClassOf(l) = None THEN "large" ELSE "lock")
    /\ req' = [req EXCEPT ![c] = l]
    /\ UNCHANGED <<up, pool, slabLock, buddyLock, free_lists, mem, live, got, tick>>

\* alloc of a class: the lock, then the look at the list.
LockSlab(c) ==
    /\ Go(c, "lock", IF free_lists[ClassOf(req[c])] = None THEN "refill" ELSE "pop")
    /\ slabLock = None /\ slabLock' = c
    /\ UNCHANGED <<up, pool, buddyLock, free_lists, mem, live, req, got, tick>>

\* BUDDY.get() and its lock, taken while the slab lock is held (refill) or
\* on its own (large_alloc, large_dealloc).
LockBuddy(c) ==
    /\ up /\ buddyLock = None /\ buddyLock' = c
    /\ \/ Go(c, "refill", "take") \/ Go(c, "large", "ltake") \/ Go(c, "lfree", "lput")
    /\ UNCHANGED <<up, pool, slabLock, free_lists, mem, live, req, got, tick>>

\* Mutant: null is returned with the lock still held.
RefillFailsLocked(c) ==
    /\ \/ Go(c, "refill", "idle") /\ ~up /\ UNCHANGED buddyLock
       \/ Go(c, "take", "idle") /\ buddyLock' = None
    /\ Return(c)
    /\ UNCHANGED <<up, pool, slabLock, free_lists, mem, live>>

\* refill without a page: null.
RefillFails(c) ==
    /\ \/ Go(c, "refill", "idle") /\ ~up /\ UNCHANGED buddyLock
       \/ Go(c, "take", "idle") /\ buddyLock' = None
    /\ slabLock' = None /\ Return(c)
    /\ UNCHANGED <<up, pool, free_lists, mem, live>>

TakePage(c, p) ==
    /\ Go(c, "take", "carve") /\ p \in pool
    /\ pool' = pool \ {p} /\ buddyLock' = None
    /\ got' = [got EXCEPT ![c] = p]
    /\ UNCHANGED <<up, slabLock, free_lists, mem, live, req, tick>>

\* push, on a list head and a memory.
Push(s, a) == [head |-> a, mem |-> [s.mem EXCEPT ![a] = s.head]]

\* Mutant: the last object of the page is forgotten.
ObjectsPerPageShort(i) == PageSize \div Classes[i] - 1

\* objects_per_page
ObjectsPerPage(i) == PageSize \div Classes[i]

\* Mutant: the stride is that of the smallest class.
ObjectAtTight(page, i, n) == page * PageSize + n * Classes[1]

\* refill's address of object n of a page: base + n * size.
ObjectAt(page, i, n) == page * PageSize + n * Classes[i]

\* refill's loop: the page's objects, pushed in address order.
PushAll(i, page, list) ==
    LET after[n \in 0 .. ObjectsPerPage(i)] ==
            IF n = 0 THEN list ELSE Push(after[n - 1], ObjectAt(page, i, n - 1))
    IN  after[ObjectsPerPage(i)]

Carve(c) ==
    LET i == ClassOf(req[c])
        s == PushAll(i, got[c], [head |-> free_lists[i], mem |-> mem])
    IN  /\ Go(c, "carve", "pop")
        /\ free_lists' = [free_lists EXCEPT ![i] = s.head] /\ mem' = s.mem
        /\ got' = [got EXCEPT ![c] = None]
        /\ UNCHANGED <<up, pool, slabLock, buddyLock, live, req, tick>>

\* pop: the head and its link are read ...
Pop(c) ==
    /\ Go(c, "pop", "unlink")
    /\ got' = [got EXCEPT ![c] = free_lists[ClassOf(req[c])]]
    /\ UNCHANGED <<up, pool, slabLock, buddyLock, free_lists, mem, live, req, tick>>

\* ... the list advances, the lock is dropped, and the client has the object.
Unlink(c) ==
    /\ Go(c, "unlink", "idle")
    /\ free_lists' = [free_lists EXCEPT ![ClassOf(req[c])] = mem[got[c]]]
    /\ mem' = [x \in Cells |-> IF x \in Range0(got[c], Granted(req[c])) THEN Data ELSE mem[x]]
    /\ live' = live \cup {<<got[c], req[c]>>}
    /\ slabLock' = None /\ Return(c)
    /\ UNCHANGED <<up, pool, buddyLock>>

\* large_alloc; the page allocator has no block for an order it does not know.
TakeRun(c, p) ==
    LET n == PagesFor(req[c][1]) IN
    /\ Go(c, "ltake", "idle")
    /\ \E x \in Blocks : x * PageSize >= req[c][1]
    /\ p % n = 0 /\ Range0(p, n) \subseteq pool
    /\ pool' = pool \ Range0(p, n) /\ buddyLock' = None
    /\ live' = live \cup {<<p * PageSize, req[c]>>}
    /\ Return(c)
    /\ UNCHANGED <<up, slabLock, free_lists, mem>>

LargeFails(c) ==
    /\ \/ Go(c, "large", "idle") /\ ~up /\ UNCHANGED buddyLock
       \/ Go(c, "ltake", "idle") /\ buddyLock' = None
    /\ Return(c)
    /\ UNCHANGED <<up, pool, slabLock, free_lists, mem, live>>

DeallocCall(c, o) ==
    /\ o \in live /\ live' = live \ {o}
    /\ Go(c, "idle", IF ClassOf(o[2]) = None THEN "lfree" ELSE "free")
    /\ req' = [req EXCEPT ![c] = o[2]] /\ got' = [got EXCEPT ![c] = o[1]]
    /\ UNCHANGED <<up, pool, slabLock, buddyLock, free_lists, mem, tick>>

\* dealloc of a class; any CPU may free what another allocated.
Dealloc(c) ==
    LET i == ClassOf(req[c])
        s == Push([head |-> free_lists[i], mem |-> mem], got[c])
    IN  /\ Go(c, "free", "idle") /\ slabLock = None
        /\ free_lists' = [free_lists EXCEPT ![i] = s.head] /\ mem' = s.mem
        /\ Return(c)
        /\ UNCHANGED <<up, pool, slabLock, buddyLock, live>>

\* large_dealloc
PutRun(c) ==
    /\ Go(c, "lput", "idle")
    /\ pool' = pool \cup Range0(got[c] \div PageSize, PagesFor(req[c][1]))
    /\ buddyLock' = None /\ Return(c)
    /\ UNCHANGED <<up, slabLock, free_lists, mem, live>>

Run(c) ==
    \/ LockSlab(c) \/ LockBuddy(c) \/ RefillFails(c) \/ Carve(c) \/ Pop(c) \/ Unlink(c)
    \/ LargeFails(c) \/ Dealloc(c) \/ PutRun(c)
    \/ \E p \in Pages : TakePage(c, p) \/ TakeRun(c, p)

Next ==
    \/ BuddyUp
    \/ \E c \in CPUs : Run(c) \/ (\E l \in Layouts : AllocCall(c, l))
                              \/ (\E o \in live : DeallocCall(c, o))

Spec == Init /\ [][Next]_vars

\* A CPU inside a call keeps executing; clients need not call.
FairSpec == Spec /\ \A c \in CPUs : WF_vars(Run(c))

-----------------------------------------------------------------------------
\* Where a list with this head leads after 0, 1, ... links, until it leaves
\* memory.
Follow(head, m) ==
    LET at[n \in 0 .. NPages * PageSize] ==
            IF n = 0 THEN head
            ELSE LET x == at[n - 1] IN IF x \in Cells THEN m[x] ELSE x
    IN  at

Listed(head, m) == {Follow(head, m)[n] : n \in 0 .. NPages * PageSize} \cap Cells

\* Spans of cells that somebody has, each named so that equal spans of two
\* holders still count twice.
ListedSpans(lists, m) ==
    UNION {{<<"listed", i, Range0(a, Classes[i])>> : a \in Listed(lists[i], m)} :
              i \in 1 .. Len(Classes)}

LiveSpans(objects) == {<<"live", o, Range0(o[1], Granted(o[2]))>> : o \in objects}

PoolSpans(pages) == {<<"pool", p, PageCells(p, 1)>> : p \in pages}

CarvingSpans(at, g) ==
    {<<"carving", c, PageCells(g[c], 1)>> : c \in {c \in CPUs : at[c] = "carve"}}

FreeingSpans(at, g, r) ==
    {<<"freeing", c, Range0(g[c], Granted(r[c]))>> :
        c \in {c \in CPUs : at[c] \in {"free", "lfree", "lput"}}}

Spans ==
    ListedSpans(free_lists, mem) \cup LiveSpans(live) \cup PoolSpans(pool)
    \cup CarvingSpans(pc, got) \cup FreeingSpans(pc, got, req)

\* Free lists lead through objects to None, never into what a client wrote.
ListsIntact ==
    \A i \in 1 .. Len(Classes) : Follow(free_lists[i], mem)[NPages * PageSize] = None

\* No cell belongs to two of: an object in use, a free object, a free page, a
\* page being carved, an object being freed; whatever classes are involved.
NoOverlap ==
    LET all == Spans
    IN  ListsIntact => \A s, t \in all : s # t => s[3] \cap t[3] = {}

\* Every cell belongs to one of them: an object is neither dropped when a page
\* is carved nor lost when CPUs allocate and free at once, and no free list
\* leads into what a client wrote.
NothingLost ==
    ListsIntact /\ UNION {s[3] : s \in Spans} = Cells

\* An object is as large as its layout asks and aligned as it asks.
FitsLayout ==
    \A o \in live : o[1] % o[2][2] = 0 /\ Granted(o[2]) >= o[2][1]

Busy == \E c \in CPUs : pc[c] # "idle"

\* While CPUs are inside the heap, some call returns: the slab lock and the
\* page allocator's lock taken under it never block each other for good.
CallsReturn ==
    /\ (Busy /\ tick) ~> ~tick
    /\ (Busy /\ ~tick) ~> tick
=============================================================================
