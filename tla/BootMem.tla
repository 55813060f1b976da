------------------------------ MODULE BootMem ------------------------------
(***************************************************************************)
(* The boot-time memory allocator (kernel/mm/bootmem.rs): two interval     *)
(* lists, `memory' and `reserved', the pass that yields the gaps between   *)
(* them, and the top-down allocation from those gaps.                      *)
(*                                                                         *)
(* Page frame numbers are unbounded here: the code's u32 numbers frames up *)
(* to 16 TiB of physical memory.                                           *)
(***************************************************************************)
EXTENDS Integers, Sequences, FiniteSetsExt

CONSTANTS PageSize,      \* PAGE_SIZE
          NrRegions,     \* NR_REGIONS
          MemoryArgs,    \* byte ranges <<base_pa, end_pa>> the FDT may list
          ReserveArgs,   \* byte ranges that may be reserved
          AllocArgs,     \* <<frames, align>> of an allocation
          None

ASSUME BootMemAssumption ==
    /\ PageSize \in Nat \ {0} /\ NrRegions \in Nat \ {0}
    /\ \A a \in MemoryArgs \cup ReserveArgs : a[1] \in Nat /\ a[2] \in Nat /\ a[1] < a[2]
    /\ \A a \in AllocArgs : a[1] \in Nat \ {0} /\ a[2] \in Nat \ {0}

VARIABLES memory,     \* memory[..n_memory]
          reserved,   \* reserved[..n_reserved]
          panicked,   \* an assert failed: the kernel has stopped
          ram,        \* history: the bytes the FDT listed
          kept,       \* history: the bytes reserve_bytes was called with
          allocs      \* history: the regions alloc returned

vars == <<memory, reserved, panicked, ram, kept, allocs>>

Region(base, frames) == [base |-> base, frames |-> frames]

End(r) == r.base + r.frames

DivCeil(a, b) == (a + b - 1) \div b

FramesOf(r) == r.base .. End(r) - 1

BytesOf(f) == f * PageSize .. (f + 1) * PageSize - 1

-----------------------------------------------------------------------------
(* The interval algorithms, on any two lists.                              *)

\* Mutant: the new region goes last.
InsertLast(res, r) == Append(res, r)

\* reserve's insertion: before the regions with a larger base, from the back.
Insert(res, r) ==
    LET below == {i \in 1 .. Len(res) : res[i].base <= r.base}
        p == IF below = {} THEN 0 ELSE Max(below)
    IN  SubSeq(res, 1, p) \o <<r>> \o SubSeq(res, p + 1, Len(res))

\* for_each_free's inner step: the cursor passes the reserved region r.
Pass(m, acc, r) ==
    IF End(r) <= acc.cursor \/ r.base >= End(m) THEN acc
    ELSE [cursor |-> IF acc.cursor < End(r) THEN End(r) ELSE acc.cursor,
          holes  |-> IF r.base > acc.cursor
                     THEN Append(acc.holes, Region(acc.cursor, r.base - acc.cursor))
                     ELSE acc.holes]

\* for_each_free for one memory region: the gaps the cursor passes.
HolesIn(m, res) ==
    LET after[n \in 0 .. Len(res)] ==
            IF n = 0 THEN [cursor |-> m.base, holes |-> <<>>]
            ELSE Pass(m, after[n - 1], res[n])
        last == after[Len(res)]
    IN  IF last.cursor < End(m)
        THEN Append(last.holes, Region(last.cursor, End(m) - last.cursor))
        ELSE last.holes

\* for_each_free: the regions passed to f, in order.
Holes(mem, res) ==
    LET upTo[n \in 0 .. Len(mem)] ==
            IF n = 0 THEN <<>> ELSE upTo[n - 1] \o HolesIn(mem[n], res)
    IN  upTo[Len(mem)]

\* Mutant: a candidate rounded down past the start of its hole is kept.
BestUnchecked(mem, res, frames, align) ==
    LET top(h) == End(h) - frames
        cands == {top(h) - (top(h) % align) : h \in
                    {h \in Range(Holes(mem, res)) : h.frames >= frames}}
    IN  IF cands = {} THEN None ELSE Max(cands)

\* alloc's search: the highest aligned candidate of any hole.
Best(mem, res, frames, align) ==
    LET top(h) == End(h) - frames
        cand(h) == top(h) - (top(h) % align)
        cands == {cand(h) : h \in
                    {h \in Range(Holes(mem, res)) :
                        h.frames >= frames /\ cand(h) >= h.base}}
    IN  IF cands = {} THEN None ELSE Max(cands)

-----------------------------------------------------------------------------
Init ==
    /\ memory = <<>> /\ reserved = <<>> /\ panicked = FALSE
    /\ ram = {} /\ kept = {} /\ allocs = <<>>

Panic == panicked' = TRUE /\ UNCHANGED <<memory, reserved, ram, kept, allocs>>

\* add_memory_bytes: rounds inward; a range without a whole page is dropped.
\* The FDT lists disjoint ranges, and kmain adds them before it reserves.
AddMemoryBytes(base_pa, end_pa) ==
    LET base == DivCeil(base_pa, PageSize)
        end == end_pa \div PageSize
    IN  /\ ~panicked /\ reserved = <<>> /\ ram \cap (base_pa .. end_pa - 1) = {}
        /\ IF end > base /\ Len(memory) >= NrRegions THEN Panic
           ELSE /\ memory' = IF end > base
                             THEN Append(memory, Region(base, end - base)) ELSE memory
                /\ ram' = ram \cup (base_pa .. end_pa - 1)
                /\ UNCHANGED <<reserved, panicked, kept, allocs>>

\* Mutant: the end is rounded down as well.
ReserveBytesInward(base_pa, end_pa) ==
    LET base == base_pa \div PageSize
        end == end_pa \div PageSize
    IN  /\ ~panicked
        /\ IF Len(reserved) >= NrRegions THEN Panic
           ELSE /\ reserved' = Insert(reserved, Region(base, end - base))
                /\ kept' = kept \cup (base_pa .. end_pa - 1)
                /\ UNCHANGED <<memory, panicked, ram, allocs>>

\* reserve_bytes: rounds outward.
ReserveBytes(base_pa, end_pa) ==
    LET base == base_pa \div PageSize
        end == DivCeil(end_pa, PageSize)
    IN  /\ ~panicked
        /\ IF Len(reserved) >= NrRegions THEN Panic
           ELSE /\ reserved' = Insert(reserved, Region(base, end - base))
                /\ kept' = kept \cup (base_pa .. end_pa - 1)
                /\ UNCHANGED <<memory, panicked, ram, allocs>>

\* alloc: the block found is reserved; without one, None and no change.
Alloc(frames, align) ==
    LET base == Best(memory, reserved, frames, align) IN
    /\ ~panicked
    /\ IF base = None THEN UNCHANGED vars
       ELSE IF Len(reserved) >= NrRegions THEN Panic
       ELSE /\ reserved' = Insert(reserved, Region(base, frames))
            /\ allocs' = Append(allocs, Region(base, frames))
            /\ UNCHANGED <<memory, panicked, ram, kept>>

Next ==
    \/ \E a \in MemoryArgs : AddMemoryBytes(a[1], a[2])
    \/ \E a \in ReserveArgs : ReserveBytes(a[1], a[2])
    \/ \E a \in AllocArgs : Alloc(a[1], a[2])

Spec == Init /\ [][Next]_vars

-----------------------------------------------------------------------------
AllFrames(s) == UNION {FramesOf(s[i]) : i \in 1 .. Len(s)}

FreeFrames == AllFrames(memory) \ AllFrames(reserved)

\* The single pass of for_each_free yields every free frame, once, and no
\* other: whatever the order of the calls, and however reserved regions
\* overlap each other or the ends of memory.
HolesExact ==
    LET h == Holes(memory, reserved) IN
    /\ AllFrames(h) = FreeFrames
    /\ \A i, j \in 1 .. Len(h) : i # j => FramesOf(h[i]) \cap FramesOf(h[j]) = {}
    /\ \A i \in 1 .. Len(h) : h[i].frames >= 1

\* The rounding of byte ranges is safe both ways: a frame that may be handed
\* out lies wholly in RAM and holds no byte that was to be kept.
FreeIsUsable ==
    \A f \in FreeFrames : BytesOf(f) \subseteq ram \ kept

\* alloc returns the highest aligned run that is free within one memory
\* region, and None only if there is none.
AllocHighest ==
    \A a \in AllocArgs :
        LET fits == {p \in FreeFrames :
                        /\ p % a[2] = 0
                        /\ \E i \in 1 .. Len(memory) :
                              p .. p + a[1] - 1 \subseteq FreeFrames \cap FramesOf(memory[i])}
        IN  Best(memory, reserved, a[1], a[2]) = IF fits = {} THEN None ELSE Max(fits)
=============================================================================
