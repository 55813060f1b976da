----------------------------- MODULE KernelMap -----------------------------
(***************************************************************************)
(* The runtime kernel map: kernel_map::build makes it from the device      *)
(* tree's memory nodes and the image's sections (kernel/mm/kernel_map.rs), *)
(* with PageTable::map (page_table.rs) and the bootstrap page pool         *)
(* (frame.rs).  Boot extends this module with what comes before and after. *)
(*                                                                         *)
(* Memory holds words where a table has been written; elsewhere a page     *)
(* reads as zeros if it has been cleared, and as `stale' if it has not.    *)
(***************************************************************************)
EXTENDS Descriptor

CONSTANTS PoolPages,    \* POOL_PAGES
          Pool,         \* the image page at which POOL starts
          Sections,     \* of the image, in order: <<first page, end page>>
          RamLists      \* the memory nodes a device tree may list: <<base, size>>

\* linker.ld lays the sections out one after the other in the 1 GiB the image
\* window shows, with POOL in .bss.
ASSUME ImageAssumption ==
    /\ Sections \in Seq(Nat \X Nat) /\ Len(Sections) = 5
    /\ \A i \in 1 .. 5 : Sections[i][1] <= Sections[i][2]
    /\ \A i \in 1 .. 4 : Sections[i][2] <= Sections[i + 1][1]
    /\ Sections[1][1] < Sections[1][2] /\ Sections[5][1] < Sections[5][2]
    /\ Sections[5][2] <= Block(1)
    /\ PoolPages \in Nat \ {0} /\ Pool \in Nat
    /\ Sections[4][1] <= Pool /\ Pool + PoolPages <= Sections[4][2]

\* Memory nodes do not overlap, and end below the 64 TiB at which the linear
\* window meets the device window, as linear_va_to_pa asserts.
ASSUME RamAssumption ==
    \A l \in RamLists :
        /\ l \in Seq(Nat \X Nat)
        /\ \A i \in 1 .. Len(l) : (l[i][1] + l[i][2] - 1) \div Block(0) < 128
        /\ \A i, j \in 1 .. Len(l) :
              i < j => l[i][1] + l[i][2] <= l[j][1] \/ l[j][1] + l[j][2] <= l[i][1]

VARIABLES ram,       \* fdt.memory().regions()
          stage,     \* where the boot CPU is, in boot.s and kmain
          k, at,     \* region or section at hand, and the loop's cursor
          mem,       \* the words written to page tables, by page and index
          zeroed,    \* pages that have been cleared
          stale,     \* what RAM holds before anyone writes it
          next       \* NEXT: the pool's bump index

mapVars == <<ram, stage, k, at, mem, zeroed, stale, next>>

Read(m, page, i) ==
    IF <<page, i>> \in DOMAIN m THEN m[<<page, i>>]
    ELSE IF page \in zeroed THEN InvalidEntry ELSE stale

\* The memory m after stores <<page, index, word>>, to places of their own.
Stored(m, stores) ==
    LET at_(x) == {s \in stores : x = <<s[1], s[2]>>}
    IN  [x \in DOMAIN m \cup {<<s[1], s[2]>> : s \in stores} |->
            IF at_(x) # {} THEN (CHOOSE s \in at_(x) : TRUE)[3] ELSE m[x]]

-----------------------------------------------------------------------------
\* image_va_to_pa, for the image's nth page.
ImageToPa(page) == page + IMAGE_PA_BASE

PoolFrame(idx) == ImageToPa(Pool) + idx

Root == PoolFrame(0)

\* bump_alloc_page, and the entry map puts the new table in.  NEXT moves on
\* even when the pool is exhausted; the entry is not written then.
NewTable(s, va, level) ==
    IF s.next >= PoolPages THEN [s EXCEPT !.ok = FALSE, !.next = s.next + 1]
    ELSE [ok |-> TRUE, cur |-> PoolFrame(s.next), next |-> s.next + 1,
          mem |-> Stored(s.mem, {<<s.cur, IndexIn(level, va), TableEntry(PoolFrame(s.next))>>})]

\* Mutant: a table that exists is replaced.
DescendAfresh(s, va, level, target) ==
    IF ~s.ok \/ level >= target THEN s ELSE NewTable(s, va, level)

\* One level of map's walk to the target: install a table from the pool, or
\* follow one; the pool's exhaustion and a block in the way are panics.
Descend(s, va, level, target) ==
    LET e == Read(s.mem, s.cur, IndexIn(level, va)) IN
    IF ~s.ok \/ level >= target THEN s
    ELSE IF ~IsValid(e) THEN NewTable(s, va, level)
    ELSE IF ~IsTableOrPage(e) THEN [s EXCEPT !.ok = FALSE]
    ELSE [s EXCEPT !.cur = OutputAddr(e)]

\* PageTable::map, from the root; `after' is what the caller's loop does next.
\* A panic on the way leaves the tables installed so far.
MapThen(va, pa, target, attrs, after) ==
    \E s0 \in {[ok |-> TRUE, cur |-> Root, next |-> next, mem |-> mem]} :
    \E s1 \in {Descend(s0, va, 0, target)} :
    \E s2 \in {Descend(s1, va, 1, target)} :
    \E s \in {Descend(s2, va, 2, target)} :
        /\ next' = s.next
        /\ IF s.ok
           THEN /\ mem' = Stored(s.mem, {<<s.cur, IndexIn(target, va), LeafEntry(pa, target, attrs)>>})
                /\ after
           ELSE mem' = s.mem /\ stage' = "panic" /\ UNCHANGED <<k, at>>

-----------------------------------------------------------------------------
\* build takes a page for the root.
BuildRoot ==
    /\ stage = "kmain" /\ stage' = "linear"
    /\ next' = next + 1 /\ k' = 1 /\ at' = 0
    /\ UNCHANGED mem

\* Mutant: a large block is used wherever one fits, aligned or not.
LevelAtUnaligned(pa, remaining) ==
    IF remaining >= Block(1) THEN {1}
    ELSE {l \in {2} : pa % Block(l) = 0 /\ remaining >= Block(l)}

\* map_region's choice of block: 1 GiB, else 2 MiB, else none.
LevelAt(pa, remaining) ==
    LET fits == {l \in {1, 2} : pa % Block(l) = 0 /\ remaining >= Block(l)}
    IN  {l \in fits : \A m \in fits : l <= m}

\* One round of map_region's loop.
LinearStep ==
    /\ stage = "linear" /\ k <= Len(ram) /\ at < ram[k][2]
    /\ \E level \in LevelAt(ram[k][1] + at, ram[k][2] - at) :
          MapThen(PaToLinearVa(ram[k][1] + at), ram[k][1] + at, level, LINEAR_RAM,
                  at' = at + Block(level) /\ UNCHANGED <<stage, k>>)

\* ... and its panic, for a tail that no block fits.
LinearPanic ==
    /\ stage = "linear" /\ k <= Len(ram) /\ at < ram[k][2]
    /\ LevelAt(ram[k][1] + at, ram[k][2] - at) = {}
    /\ stage' = "panic" /\ UNCHANGED <<k, at, mem, next>>

NextRegion ==
    /\ stage = "linear" /\ k <= Len(ram) /\ at >= ram[k][2]
    /\ k' = k + 1 /\ at' = 0 /\ UNCHANGED <<stage, mem, next>>

LinearDone ==
    /\ stage = "linear" /\ k > Len(ram)
    /\ stage' = "image" /\ k' = 1 /\ at' = Sections[1][1]
    /\ UNCHANGED <<mem, next>>

\* build_image's sections: .text, .rodata, .data, .bss and the stack.
SectionAttrs == <<TEXT_ATTRS, RODATA_ATTRS, DATA_ATTRS, BSS_ATTRS, STACK_ATTRS>>

\* One round of map_section's loop.
ImageStep ==
    /\ stage = "image" /\ k <= Len(Sections) /\ at < Sections[k][2]
    /\ MapThen(Va(KERNEL_IMAGE_BASE, at), ImageToPa(at), 3, SectionAttrs[k],
               at' = at + 1 /\ UNCHANGED <<stage, k>>)

NextSection ==
    /\ stage = "image" /\ k <= Len(Sections) /\ at >= Sections[k][2]
    /\ k' = k + 1
    /\ at' = IF k < Len(Sections) THEN Sections[k + 1][1] ELSE 0
    /\ UNCHANGED <<stage, mem, next>>

\* build_device; build returns the root.
DeviceStep ==
    /\ stage = "image" /\ k > Len(Sections)
    /\ MapThen(PaToDeviceVa(UART_PA), UART_PA, 3, DEVICE_ATTRS,
               stage' = "built" /\ UNCHANGED <<k, at>>)

BuildStep ==
    /\ \/ BuildRoot \/ LinearStep \/ LinearPanic \/ NextRegion \/ LinearDone
       \/ ImageStep \/ NextSection \/ DeviceStep
    /\ UNCHANGED <<ram, zeroed, stale>>
=============================================================================
