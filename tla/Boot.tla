-------------------------------- MODULE Boot --------------------------------
(***************************************************************************)
(* The boot CPU from the loader's jump to _start until kmain has left the  *)
(* low half: boot.s (kernel/core/asm), the first half of kmain (main.rs),  *)
(* and switch_ttbr1 and disable_ttbr0 (mmu.rs).                            *)
(*                                                                         *)
(* The MMU is the other actor.  While it is on, it may walk the tables at  *)
(* any time, for any address, and keep what it finds in the TLB.  A system *)
(* register that has been written may be read by the walker as it was or   *)
(* as it is until the next ISB; a DSB orders memory, not these reads.      *)
(***************************************************************************)
EXTENDS KernelMap

CONSTANTS Loads,       \* how a loader may enter the kernel
          BootText,    \* the page of boot.s's code, at its load address
          BootBss,     \* __boot_bss_start
          Vas,         \* addresses to look up
          Watch,       \* addresses the MMU may look up by itself
          Fault

\* linker.ld puts boot.s into the first 2 MiB of the image's GiB and its tables
\* below .text; a loader leaves the device tree in that GiB, in RAM.
ASSUME LoadAssumption ==
    /\ BootText \in IMAGE_PA_BASE .. IMAGE_PA_BASE + 511
    /\ BootBss \in Nat /\ BootBss + 12 <= ImageToPa(Sections[1][1])
    /\ \A l \in Loads :
          /\ l.ram \in RamLists
          /\ l.fdt \in Nat /\ l.fdt \div Block(1) = 1
          /\ \E i \in 1 .. Len(l.ram) : l.ram[i][1] <= l.fdt /\ l.fdt < l.ram[i][1] + l.ram[i][2]

ASSUME AddressAssumption ==
    /\ \A va \in Vas \cup Watch : va \in {0, 1} \X (0 .. 511) \X (0 .. 511) \X (0 .. 511) \X (0 .. 511)
    /\ Fault \notin [pa : Nat, may : [write : BOOLEAN, user : BOOLEAN, exec : BOOLEAN,
                                     user_exec : BOOLEAN, share : Nat, type : Nat]]

VARIABLES load,        \* the loader's choice
          cpu,         \* registers that matter once
          regs,        \* the translation registers as last written
          live,        \* what the table walker may take them to be
          tlb          \* <<address, translation>>

cpuVars == <<load, cpu, regs, live, tlb>>
vars == <<mapVars, cpuVars>>

\* The linker places the trampoline's tables in this order, a page each.
PageOf ==
    [idmap_l0 |-> BootBss, idmap_l1 |-> BootBss + 1, idmap_l2_uart |-> BootBss + 2,
     idmap_l3_uart |-> BootBss + 3, idmap_l2_ram |-> BootBss + 4, kernel_l0 |-> BootBss + 5,
     kernel_l1 |-> BootBss + 6, kernel_l2 |-> BootBss + 7, image_l1 |-> BootBss + 8,
     device_l1 |-> BootBss + 9, device_l2 |-> BootBss + 10, device_l3 |-> BootBss + 11]
Buffers == PageOf["idmap_l0"] .. PageOf["device_l3"]

Low(page) == Va(<<0, 0, 0, 0, 0>>, page)
StackTop == Sections[5][2] - 1    \* the image page below __stack_top
KmainVa == Va(KERNEL_IMAGE_BASE, Sections[1][1])

Init ==
    /\ load \in Loads
    /\ ram = load.ram /\ stage = "start" /\ k = 1 /\ at = 0
    /\ mem = << >> /\ zeroed = {} /\ stale = load.stale /\ next = 0
    /\ cpu = [el |-> load.el, hcr |-> {}, cnthctl |-> {}, cptr |-> load.cptr, cpacr |-> {},
              sctlr |-> load.sctlr, daif |-> load.daif, sp |-> Fault, x0 |-> load.fdt]
    /\ regs = [mair |-> {}, tcr |-> {}, ttbr0 |-> 0, ttbr1 |-> 0]
    /\ live = {regs} /\ tlb = load.tlb

-----------------------------------------------------------------------------
(* boot.s                                                                  *)

Literal(h3, h2, h1, h0) ==
    Bits(h0, 0) \cup Bits(h1, 16) \cup Bits(h2, 32) \cup Bits(h3, 48)

\* The descriptor a word of four halfwords is: bits 12 to 47 are its output page.
FromRaw(h3, h2, h1, h0) ==
    Entry(2^20 * h2 + 16 * h1 + (h0 \div 2^12), Literal(h3, h2, h1, h0) \ OUTPUT_ADDR_MASK)

To(next_stage) == stage' = next_stage /\ UNCHANGED <<ram, k, at, stale, next, load>>

\* Mutant: whatever is not EL2 is taken for EL1.
StartAnywhere ==
    /\ stage = "start"
    /\ To(IF cpu.el = 2 THEN "el2" ELSE "el1")
    /\ UNCHANGED <<mem, zeroed, cpu, regs, live, tlb>>

\* _start: the exception level decides.
Start ==
    /\ stage = "start"
    /\ To(CASE cpu.el = 1 -> "el1" [] cpu.el = 2 -> "el2" [] OTHER -> "parked")
    /\ UNCHANGED <<mem, zeroed, cpu, regs, live, tlb>>

\* .Lel2; SPSR_EL1H = 0x3c5 masks interrupts and selects EL1.
DropToEl1 ==
    /\ stage = "el2" /\ To("el1")
    /\ cpu' = [cpu EXCEPT !.hcr = {31}, !.cnthctl = @ \cup {0, 1}, !.cptr = {},
                          !.el = Field(Bits(\h3c5, 0), 2, 2), !.daif = Bits(\h3c5, 0) \cap (6 .. 9)]
    /\ UNCHANGED <<mem, zeroed, regs, live, tlb>>

BadBootMmu ==
    /\ stage = "el1" /\ 0 \in cpu.sctlr /\ To("parked")
    /\ UNCHANGED <<mem, zeroed, cpu, regs, live, tlb>>

\* Stack and FP/SIMD, then .bss is cleared.
El1Init ==
    /\ stage = "el1" /\ 0 \notin cpu.sctlr /\ To("tables")
    /\ cpu' = [cpu EXCEPT !.sp = Low(ImageToPa(StackTop)), !.cpacr = @ \cup {20, 21}]
    /\ zeroed' = zeroed \cup {ImageToPa(p) : p \in Sections[4][1] .. Sections[4][2] - 1}
    /\ UNCHANGED <<mem, regs, live, tlb>>

\* Mutant: the sweep ends at the start of the last buffer.
ZeroTablesShort ==
    /\ stage = "tables" /\ To("regs")
    /\ zeroed' = zeroed \cup (PageOf["idmap_l0"] .. PageOf["device_l3"] - 1)
    /\ UNCHANGED <<mem, cpu, regs, live, tlb>>

\* One sweep from __idmap_l0 through __device_l3.
ZeroTables ==
    /\ stage = "tables" /\ To("regs")
    /\ zeroed' = zeroed \cup Buffers
    /\ UNCHANGED <<mem, cpu, regs, live, tlb>>

\* MAIR_EL1 and TCR_EL1, and an ISB.
ProgramRegs ==
    /\ stage = "regs" /\ To("idmap")
    /\ regs' = [regs EXCEPT !.mair = Literal(0, 0, \h0400, \h44FF),
                            !.tcr = Literal(0, \h0025, \hB550, \h3510)]
    /\ live' = {regs'}
    /\ UNCHANGED <<mem, zeroed, cpu, tlb>>

Orr3(buffer) == Entry(PageOf[buffer], {0, 1})
UartLeaf == FromRaw(\h0060, 0, \h0900, \h040F)
RamLeaf == FromRaw(\h0040, 0, \h4000, \h0701)

BuildIdmap ==
    /\ stage = "idmap" /\ To("kernel")
    /\ mem' = Stored(mem, {<<PageOf["idmap_l0"], 0, Orr3("idmap_l1")>>,
                           <<PageOf["idmap_l1"], 0, Orr3("idmap_l2_uart")>>,
                           <<PageOf["idmap_l1"], 1, Orr3("idmap_l2_ram")>>,
                           <<PageOf["idmap_l2_uart"], 72, Orr3("idmap_l3_uart")>>,
                           <<PageOf["idmap_l3_uart"], 0, UartLeaf>>,
                           <<PageOf["idmap_l2_ram"], 0, RamLeaf>>})
    /\ UNCHANGED <<zeroed, cpu, regs, live, tlb>>

BuildKernelTables ==
    /\ stage = "kernel" /\ To("roots")
    /\ mem' = Stored(mem, {<<PageOf["kernel_l0"], 256, Orr3("kernel_l1")>>,
                           <<PageOf["kernel_l0"], 511, Orr3("image_l1")>>,
                           <<PageOf["image_l1"], 510, RamLeaf>>,
                           <<PageOf["kernel_l1"], 1, RamLeaf>>,
                           <<PageOf["kernel_l0"], 384, Orr3("device_l1")>>,
                           <<PageOf["device_l1"], 0, Orr3("device_l2")>>,
                           <<PageOf["device_l2"], 72, Orr3("device_l3")>>,
                           <<PageOf["device_l3"], 0, UartLeaf>>})
    /\ UNCHANGED <<zeroed, cpu, regs, live, tlb>>

\* TTBR0 and TTBR1, then dsb, tlbi, dsb, isb, all with the MMU still off.
InstallRoots ==
    /\ stage = "roots" /\ To("roots_set")
    /\ regs' = [regs EXCEPT !.ttbr0 = PageOf["idmap_l0"], !.ttbr1 = PageOf["kernel_l0"]]
    /\ live' = {regs'} /\ tlb' = {}
    /\ UNCHANGED <<mem, zeroed, cpu>>

EnableMmu ==
    /\ stage = "roots_set" /\ To("mmu")
    /\ cpu' = [cpu EXCEPT !.sctlr = @ \cup {0}]
    /\ UNCHANGED <<mem, zeroed, regs, live, tlb>>

\* Mutant: SP keeps the low address.
EnterKmainLowStack ==
    /\ stage = "mmu" /\ To("kmain")
    /\ cpu' = [cpu EXCEPT !.x0 = PaToLinearVa(load.fdt)]
    /\ UNCHANGED <<mem, zeroed, regs, live, tlb>>

\* SP moves to the upper half, x0 becomes the FDT's linear address: the base's
\* bits are OR'ed in, which adds it to an address below it.  Then the jump.
EnterKmain ==
    /\ stage = "mmu" /\ To("kmain")
    /\ cpu' = [cpu EXCEPT !.sp = Va(KERNEL_IMAGE_BASE, StackTop), !.x0 = PaToLinearVa(load.fdt)]
    /\ UNCHANGED <<mem, zeroed, regs, live, tlb>>

-----------------------------------------------------------------------------
(* mmu.rs                                                                  *)

\* An MSR: from here the walker may use the register's old value or the new,
\* with any it may still use of the others.
Msr(reg, new) ==
    /\ regs' = [regs EXCEPT ![reg] = new]
    /\ live' = live \cup {[r EXCEPT ![reg] = new] : r \in live}
    /\ UNCHANGED <<mem, zeroed, cpu, tlb>>

\* dsb ish; tlbi vmalle1is; dsb ish
Tlbi == tlb' = {} /\ UNCHANGED <<mem, zeroed, cpu, regs, live>>

Isb == live' = {regs} /\ UNCHANGED <<mem, zeroed, cpu, regs, tlb>>

SwitchTtbr1 == stage = "built" /\ To("switch_msr") /\ Msr("ttbr1", Root)
SwitchFlush == stage = "switch_msr" /\ To("switch_tlbi") /\ Tlbi
SwitchSync == stage = "switch_tlbi" /\ To("switched") /\ Isb

DisableWalks == stage = "switched" /\ To("low_tcr") /\ Msr("tcr", regs.tcr \cup {EPD0})
DropTtbr0 == stage = "low_tcr" /\ To("low_msr") /\ Msr("ttbr0", 0)

\* Mutant: only the registers are written.
DisableFlushNothing ==
    stage = "low_msr" /\ To("low_tlbi") /\ UNCHANGED <<mem, zeroed, cpu, regs, live, tlb>>

DisableFlush == stage = "low_msr" /\ To("low_tlbi") /\ Tlbi
DisableSync == stage = "low_tlbi" /\ To("run") /\ Isb

BootStep ==
    \/ Start \/ DropToEl1 \/ BadBootMmu \/ El1Init \/ ZeroTables \/ ProgramRegs
    \/ BuildIdmap \/ BuildKernelTables \/ InstallRoots \/ EnableMmu \/ EnterKmain
    \/ BuildStep /\ UNCHANGED cpuVars
    \/ SwitchTtbr1 \/ SwitchFlush \/ SwitchSync
    \/ DisableWalks \/ DropTtbr0 \/ DisableFlush \/ DisableSync

-----------------------------------------------------------------------------
(* The MMU.                                                                *)

\* What a leaf allows, and the memory type its MAIR slot gives it.
Meaning(w, mair) ==
    [write |-> 7 \notin w, user |-> 6 \in w, exec |-> PXN \notin w, user_exec |-> UXN \notin w,
     share |-> Field(w, 8, 2), type |-> Field(mair, 8 * Field(w, 2, 3), 8)]

\* What the walk makes of the entry e that it ends with, at this level.
Leaf(r, va, level, e) ==
    IF AF \in e.bits /\ IF level = 3 THEN IsTableOrPage(e) ELSE IsValid(e) /\ SupportsBlock(level)
    THEN [pa |-> OutputAddr(e) + <<0, va[4] * 512 + va[5], va[5], 0>>[level + 1],
          may |-> Meaning(e.bits, r.mair)]
    ELSE Fault

\* The table walk under registers r.
Walk(r, va) ==
    LET e0 == Read(mem, IF va[1] = 0 THEN r.ttbr0 ELSE r.ttbr1, va[2])
        e1 == Read(mem, OutputAddr(e0), va[3])
        e2 == Read(mem, OutputAddr(e1), va[4])
        e3 == Read(mem, OutputAddr(e2), va[5])
    IN  IF va[1] = 0 /\ EPD0 \in r.tcr THEN Fault
        ELSE IF ~IsTableOrPage(e0) THEN Leaf(r, va, 0, e0)
        ELSE IF ~IsTableOrPage(e1) THEN Leaf(r, va, 1, e1)
        ELSE IF ~IsTableOrPage(e2) THEN Leaf(r, va, 2, e2)
        ELSE Leaf(r, va, 3, e3)

\* The boot CPU has turned the MMU on.
MmuOn == 0 \in cpu.sctlr /\ stage \notin {"start", "el2", "el1", "parked"}

Speculate ==
    /\ MmuOn
    /\ \E va \in Watch, r \in live :
          /\ Walk(r, va) # Fault
          /\ tlb' = tlb \cup {<<va, Walk(r, va)>>}
    /\ UNCHANGED <<mapVars, load, cpu, regs, live>>

Next == BootStep \/ Speculate

Spec == Init /\ [][Next]_vars

\* The CPU keeps executing; the MMU need not look anything up.
FairSpec == Spec /\ WF_vars(BootStep)
-----------------------------------------------------------------------------
Rights(write, exec, share, type) ==
    [write |-> write, user |-> FALSE, exec |-> exec, user_exec |-> FALSE, share |-> share, type |-> type]
Rw == Rights(TRUE, FALSE, 3, 255)
Ro == Rights(FALSE, FALSE, 3, 255)
Device == Rights(TRUE, FALSE, 0, 4)
Promised == <<Rights(FALSE, TRUE, 3, 255), Ro, Rw, Rw, Rw>>

\* A page of RAM, as the device tree lists it.
IsRam(pa) == \E i \in DOMAIN ram : pa >= ram[i][1] /\ pa < ram[i][1] + ram[i][2]

\* The page an address shows in the linear window, and in the image window,
\* where it is one of some section's.
LinearPage(va) == (va[2] - 256) * Block(0) + va[3] * Block(1) + va[4] * 512 + va[5]
ImagePage(va) == va[4] * 512 + va[5]
SectionsWith(page) == {i \in 1 .. 5 : Sections[i][1] <= page /\ page < Sections[i][2]}

\* What the runtime map should say of an address: the linear window shows RAM
\* (all of it below 64 TiB), the image window each section with its
\* permissions, the device window the UART, and there is nothing else.
Expected(va) ==
    IF va[1] = 1 /\ va[2] \in 256 .. 383 /\ IsRam(LinearPage(va))
    THEN [pa |-> LinearPage(va), may |-> Rw]
    ELSE IF <<va[1], va[2], va[3]>> = <<1, 511, 510>> /\ SectionsWith(ImagePage(va)) # {}
    THEN [pa |-> ImageToPa(ImagePage(va)),
          may |-> Promised[CHOOSE i \in SectionsWith(ImagePage(va)) : TRUE]]
    ELSE IF va = PaToDeviceVa(UART_PA) THEN [pa |-> UART_PA, may |-> Device]
    ELSE Fault

\* build gives every address the translation the layout promises, with the
\* section's permissions and memory type, and no other address any: the
\* blocks, tables and pages of the three windows do not get into each other's
\* way, and nothing of what RAM held before shows through.
TranslationExact ==
    stage \in {"built", "run"} =>
        \A va \in Vas : Walk([regs EXCEPT !.ttbr1 = Root, !.tcr = @ \cup {EPD0}], va) = Expected(va)

\* The tables form a tree of frames the pool gave out, also after a panic half
\* way through map: every one but the root has one parent entry, and no entry
\* is written outside them and the trampoline's buffers.
TablesFormTree ==
    LET given == {PoolFrame(f) : f \in 0 .. (IF next < PoolPages THEN next ELSE PoolPages) - 1}
        parents(f) == {x \in DOMAIN mem : IsTableOrPage(mem[x]) /\ AF \notin mem[x].bits
                                            /\ OutputAddr(mem[x]) = f}
    IN  /\ \A f \in given : IF f = Root THEN parents(f) = {}
                            ELSE \E x \in DOMAIN mem : parents(f) = {x}
        /\ \A x \in DOMAIN mem : x[1] \in given \cup Buffers

\* What an access through va may turn into: a cached translation, or a walk
\* under any of the registers the walker may have.
Possible(va) ==
    {t[2] : t \in {e \in tlb : e[1] = va}} \cup {Walk(r, va) : r \in live}

Lands(va, pa, right, type) ==
    \A t \in Possible(va) : t # Fault /\ t.pa = pa /\ t.may[right] /\ t.may.type = type

\* Whatever the TLB holds and whichever register values the walker uses, from
\* the moment the MMU is on, across both register switches and after a panic,
\* the running code, its stack and the UART are where they should be with the
\* rights they need; so are the device tree, and while build runs the root and
\* each table when it has been taken from the pool, in the linear window.
AccessesLand ==
    MmuOn =>
        IF stage = "mmu" THEN Lands(Low(BootText), BootText, "exec", 255)
        ELSE /\ Lands(KmainVa, ImageToPa(Sections[1][1]), "exec", 255)
             /\ Lands(cpu.sp, ImageToPa(StackTop), "write", 255)
             /\ Lands(PaToDeviceVa(UART_PA), UART_PA, "write", 4)
             /\ Lands(cpu.x0, load.fdt, "write", 255)
             /\ stage \in {"linear", "image"} =>
                   \A f \in {Root, PoolFrame(next - 1)} : Lands(PaToLinearVa(f), f, "write", 255)

\* kmain starts in the state the Rust code counts on: at EL1, FP/SIMD and the
\* counters not trapping, stack and argument in the upper half, all of .bss and
\* the trampoline's unused entries zero, and the attribute slots and
\* translation control of the Rust definitions boot.s must mirror.
EntryState ==
    stage = "kmain" =>
        /\ cpu.el = 1 /\ {20, 21} \subseteq cpu.cpacr
        /\ load.el = 2 => 10 \notin cpu.cptr /\ {0, 1} \subseteq cpu.cnthctl /\ 31 \in cpu.hcr
        /\ cpu.sp[1] = 1 /\ cpu.x0[1] = 1
        /\ regs.mair = MAIR_VALUE /\ regs.tcr = TCR_VALUE
        /\ UartLeaf = LeafEntry(UART_PA, 3, DEVICE_ATTRS)
        /\ \A page \in Buffers \cup {ImageToPa(p) : p \in Sections[4][1] .. Sections[4][2] - 1} :
              \A i \in 0 .. 511 : <<page, i>> \notin DOMAIN mem => Read(mem, page, i) = InvalidEntry

\* Once disable_ttbr0 has returned nothing is left of the trampoline's upper
\* half, neither in the registers nor in the TLB: every address translates as
\* the runtime map says, so the text section is no longer writable at its image
\* addresses.  (Its frames stay writable in the linear window, as RAM.)
TrampolineForgotten ==
    stage = "run" => \A va \in Vas : va[1] = 1 => Possible(va) = {Expected(va)}

\* disable_ttbr0 "turns null-pointer dereferences and any dangling identity
\* pointers into clean, catchable faults" (mmu.rs:46): no low-half address
\* translates any more.
LowHalfFaults ==
    stage = "run" => \A va \in Vas : va[1] = 0 => Possible(va) = {Fault}

\* The tables build needs: the root, one per 512 GiB and one per partly covered
\* GiB of RAM, the image's and the device window's.
TablesNeeded ==
    LET slots(r) == r[1] \div Block(1) .. (r[1] + r[2] - 1) \div Block(1)
        full(r, g) == r[1] <= g * Block(1) /\ (g + 1) * Block(1) <= r[1] + r[2]
        gib == UNION {slots(ram[i]) : i \in DOMAIN ram}
        partly == UNION {{g \in slots(ram[i]) : ~full(ram[i], g)} : i \in DOMAIN ram}
        image == UNION {{p \div 512 : p \in Sections[i][1] .. Sections[i][2] - 1} : i \in 1 .. 5}
    IN  1 + Cardinality({g \div 512 : g \in gib}) + Cardinality(partly)
          + 2 + Cardinality(image) + 3

Mappable ==
    /\ \A i \in DOMAIN ram : ram[i][1] % 512 = 0 /\ ram[i][2] % 512 = 0
    /\ TablesNeeded <= PoolPages

\* The loader enters as the contract says: at EL1 or EL2, with the MMU off.
EntryKept == load.el \in {1, 2} /\ 0 \notin load.sctlr

\* With RAM in whole 2 MiB blocks and few enough partly covered GiBs, a loader
\* that enters as it should gets a running kernel, and any other is parked.
BootEnds == Mappable => <>(stage = IF EntryKept THEN "run" ELSE "parked")

\* "RAM starts at 0x40000000.  At least 128 MiB; preon scales to whatever the
\* DTB reports" (docs/BOOT_CONTRACT.md:103): kmain does not panic over the RAM
\* of a machine that meets the contract.
ScalesToRam ==
    EntryKept /\ ram[1][1] = IMAGE_PA_BASE /\ ram[1][2] >= 32768 => stage # "panic"

\* "DAIF - not modified" (docs/BOOT_CONTRACT.md:57): the stub leaves the
\* interrupt masks as the loader set them.
DaifKept == cpu.daif = load.daif
=============================================================================
