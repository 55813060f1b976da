------------------------------ MODULE Handoff ------------------------------
(***************************************************************************)
(* How kmain gets from the device tree's memory nodes to a page allocator  *)
(* that owns the right frames (kernel/core/main.rs: build_bootmem,         *)
(* init_buddy, reclaim_trampoline; kernel/mm/ram.rs).  The frames that     *)
(* free_range receives are recorded; Buddy models what it does with them   *)
(* and assumes of them what this module checks.                            *)
(***************************************************************************)
EXTENDS BootMem

CONSTANTS MemoryLists,   \* the memory nodes a device tree may list, in its order
          Image,         \* <<PHYS_LOAD_BASE, __stack_top_pa>>
          BootBss,       \* <<__boot_bss_start, __boot_bss_end>>, page-aligned
          Dtbs,          \* where the firmware may have put the device tree
          InfoSize       \* size_of::<PageInfo>()

Bytes(range) == range[1] .. range[2] - 1

\* The linker script puts .boot.bss inside the image; the firmware loads the
\* image and the device tree into RAM, apart, and lists disjoint regions.
ASSUME HandoffAssumption ==
    /\ InfoSize \in Nat \ {0}
    /\ \A a \in {Image, BootBss} \cup Dtbs : a \in Nat \X Nat /\ a[1] < a[2]
    /\ MemoryLists \subseteq Seq(Nat \X Nat)
    /\ BootBss[1] % PageSize = 0 /\ BootBss[2] % PageSize = 0
    /\ Bytes(BootBss) \subseteq Bytes(Image)
    /\ \A d \in Dtbs : Bytes(d) \cap Bytes(Image) = {}
    /\ \A l \in MemoryLists :
          /\ Len(l) = 0 \/ \E i \in 1 .. Len(l) : Bytes(Image) \subseteq Bytes(l[i])
          /\ \A i, j \in 1 .. Len(l) : i # j => Bytes(l[i]) \cap Bytes(l[j]) = {}

VARIABLES regions,     \* fdt.memory().regions()
          dtb,         \* the byte range of the device tree
          phase,       \* where kmain is
          k,           \* next region to add, or next hole to donate
          base_pfn,    \* dram_base, as a frame
          nr_frames,
          donated      \* the <<pfn, count>> passed to free_range so far

hvars == <<regions, dtb, phase, k, base_pfn, nr_frames, donated>>

HInit ==
    /\ Init
    /\ regions \in MemoryLists /\ dtb \in Dtbs
    /\ phase = "memory" /\ k = 1 /\ base_pfn = 0 /\ nr_frames = 0 /\ donated = <<>>

AddRegion ==
    /\ phase = "memory" /\ k <= Len(regions)
    /\ AddMemoryBytes(regions[k][1], regions[k][2])
    /\ k' = k + 1
    /\ UNCHANGED <<regions, dtb, phase, base_pfn, nr_frames, donated>>

ReserveImage ==
    /\ phase = "memory" /\ k > Len(regions) /\ phase' = "dtb"
    /\ ReserveBytes(Image[1], Image[2])
    /\ UNCHANGED <<regions, dtb, k, base_pfn, nr_frames, donated>>

ReserveDtb ==
    /\ phase = "dtb" /\ phase' = "span"
    /\ ReserveBytes(dtb[1], dtb[2])
    /\ UNCHANGED <<regions, dtb, k, base_pfn, nr_frames, donated>>

Lowest == Min({memory[j].base : j \in 1 .. Len(memory)})

Highest == Max({End(memory[j]) : j \in 1 .. Len(memory)})

\* Mutant: the division rounds down.
MemmapFramesDown(nr) == (nr * InfoSize) \div PageSize

\* memmap_frames
MemmapFrames(nr) == DivCeil(nr * InfoSize, PageSize)

\* ram_span, memmap_frames, boot.alloc and new_at, or the panics of
\* "no memory regions" and "no room for mem-map".
PlaceMemmap ==
    /\ phase = "span" /\ ~panicked
    /\ IF \/ memory = <<>>
          \/ Best(memory, reserved, MemmapFrames(Highest - Lowest), 1) = None
       THEN Panic /\ UNCHANGED hvars
       ELSE /\ Alloc(MemmapFrames(Highest - Lowest), 1)
            /\ base_pfn' = Lowest /\ nr_frames' = Highest - Lowest
            /\ phase' = "donate" /\ k' = 1
            /\ UNCHANGED <<regions, dtb, donated>>

\* Mutant: the allocator is given the absolute frame number.
PfnOfAbsolute(frame) == frame

\* pfn_of
PfnOf(frame) == frame - base_pfn

\* One hole of for_each_free; kmain runs alone until the last is donated.
DonateHole ==
    LET holes == Holes(memory, reserved) IN
    /\ phase = "donate" /\ ~panicked /\ k <= Len(holes)
    /\ donated' = Append(donated, <<PfnOf(holes[k].base), holes[k].frames>>)
    /\ k' = k + 1
    /\ UNCHANGED <<vars, regions, dtb, phase, base_pfn, nr_frames>>

\* BUDDY.call_once: the allocator goes into service.
Publish ==
    /\ phase = "donate" /\ ~panicked /\ k > Len(Holes(memory, reserved))
    /\ phase' = "buddy"
    /\ UNCHANGED <<vars, regions, dtb, k, base_pfn, nr_frames, donated>>

\* Mutant: the page count is rounded from the image's end, not .boot.bss's.
ReclaimTooMuch ==
    /\ phase = "buddy" /\ phase' = "done"
    /\ donated' = Append(donated, <<PfnOf(BootBss[1] \div PageSize),
                                    (Image[2] - BootBss[1]) \div PageSize>>)
    /\ UNCHANGED <<vars, regions, dtb, k, base_pfn, nr_frames>>

\* reclaim_trampoline
ReclaimTrampoline ==
    /\ phase = "buddy" /\ phase' = "done"
    /\ donated' = Append(donated, <<PfnOf(BootBss[1] \div PageSize),
                                    (BootBss[2] - BootBss[1]) \div PageSize>>)
    /\ UNCHANGED <<vars, regions, dtb, k, base_pfn, nr_frames>>

HNext ==
    \/ AddRegion \/ ReserveImage \/ ReserveDtb \/ PlaceMemmap \/ DonateHole
    \/ Publish \/ ReclaimTrampoline

HSpec == HInit /\ [][HNext]_<<vars, hvars>>

-----------------------------------------------------------------------------
Absolute(d) == base_pfn + d[1] .. base_pfn + d[1] + d[2] - 1

Donated == UNION {Absolute(donated[j]) : j \in 1 .. Len(donated)}

\* Whole pages of one listed region.
RamFrames == {f \in 0 .. base_pfn + nr_frames :
                 \E j \in 1 .. Len(regions) : BytesOf(f) \subseteq Bytes(regions[j])}

Holds(f, range) == BytesOf(f) \cap Bytes(range) # {}

\* What free_range asks of its callers, and Buddy assumes: every run lies in
\* the mem-map, and no frame is given twice, reclaim_trampoline's included.
DonationsMeetContract ==
    /\ \A j \in 1 .. Len(donated) : donated[j][1] >= 0 /\ donated[j][1] + donated[j][2] <= nr_frames
    /\ \A i, j \in 1 .. Len(donated) :
          i # j => Absolute(donated[i]) \cap Absolute(donated[j]) = {}

\* Once the allocator is in service it owns every whole page of RAM but those
\* of the image, the device tree and the mem-map; after reclaim_trampoline it
\* owns those of .boot.bss too, and still nothing else of the image.
EveryFrameAccountedFor ==
    phase \in {"buddy", "done"} =>
        Donated = {f \in RamFrames :
                     /\ ~ Holds(f, dtb) /\ f \notin FramesOf(allocs[1])
                     /\ Holds(f, Image) => phase = "done" /\ Holds(f, BootBss)}

\* The mem-map has room for one PageInfo per frame of the span, in RAM that
\* holds neither the image nor the device tree.
MemmapFits ==
    phase \in {"donate", "buddy", "done"} /\ ~panicked =>
        /\ allocs[1].frames * PageSize >= nr_frames * InfoSize
        /\ \A f \in FramesOf(allocs[1]) :
              f \in RamFrames /\ ~ Holds(f, Image) /\ ~ Holds(f, dtb)
=============================================================================
