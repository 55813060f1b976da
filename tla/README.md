# Preon kernel: TLA+ models and proofs

Preon is an aarch64 microkernel in Rust. This directory holds TLA+ models of the parts
of it that have state worth arguing about, TLC configurations that check them on small
instances, and TLAPS proofs of the main results for every value of the constants.

## The system

| Part | Source | State | Operations |
|---|---|---|---|
| Buddy page allocator | `kernel/mm/buddy.rs` | mem-map (one `PageInfo` per frame), a free list per order, `free_frames` | `alloc`, `free`, `free_range` |
| Spin lock, once cell | `kernel/builtin/sync.rs` | `locked`; `state` and the cell | `lock`, guard drop; `call_once`, `get` |
| Boot memory | `kernel/mm/bootmem.rs`, `ram.rs` | `memory` and `reserved` interval arrays | `add_memory_bytes`, `reserve_bytes`, `for_each_free`, `alloc`, `ram_span` |
| Hand-off | `kernel/core/main.rs` | progress of `kmain` | `build_bootmem`, `init_buddy`, `reclaim_trampoline` |
| Slab heap | `kernel/mm/slab.rs` | a free list per size class, linked through the objects | `alloc`, `dealloc`, `refill`, large path |
| Boot stub | `kernel/core/asm/boot.s` | exception level, trampoline tables, MAIR, TCR, TTBR0/1 | the path from `_start` to `kmain` |
| Page tables, kernel map | `kernel/mm/page_table.rs`, `kernel_map.rs`, `frame.rs`, `attrs.rs`, `tcr.rs`, `types.rs` | tables in the bump pool, `NEXT` | `map`, `map_region`, `build` |
| MMU control | `kernel/mm/mmu.rs` | TTBR0/1, TCR, TLB | `switch_ttbr1`, `disable_ttbr0` |
| SMP bring-up | `kernel/cpu/smp.rs`, `psci.rs`, `asm/secondary.s`, `arch/percpu.rs` | `CPU_ONLINE`, `CPU_DATA`, `BOOT_DATA`, `AREAS`, each CPU's registers | `percpu::init`, `from_fdt`, `bring_up_all`, `cpu_on`, secondary boot path, `mark_online`, `wait_for` |
| Console | `kernel/builtin/uart.rs` | `UART` lock, transmit FIFO | `kernel_log!`, `kernel_log_raw!` |
| Exceptions, panic | `kernel/exceptions/`, `arch/exceptions.rs`, `arch/reg.rs` | trap frame, ESR, ELR, FAR, SPSR | handlers that dump and park |

How they interact: the boot stub enters `kmain` through its trampoline tables. `kmain`
runs alone through the kernel map, the two register switches, boot memory and the
hand-off, then publishes the buddy through the once cell. From there on the slab heap,
`frame::alloc_page` and stack allocation use it under its spin lock (the slab takes it
while holding its own lock). `bring_up_all` starts the other CPUs one at a time, and at
the end `reclaim_trampoline` gives the boot page tables to the buddy. The kernel unmasks no
interrupt and no handler returns, so a CPU's code is interleaved only with other CPUs and
with the handlers of its own exceptions. (Interrupts are masked by the drop from EL2 and by PSCI; a
loader that enters at EL1 may leave them unmasked, see Not modelled.)

What makes it hard: intrusive lists that live in the managed memory; split and merge
loops with odd frame counts; weak memory around two hand-written primitives; caches that
a CPU with its MMU off does not see; a TLB that fills itself while the tables and registers
under it change; nested locks; reports that bypass the console's lock; arrays, pools and a bitmap with limits;
and a loader, a device tree and firmware that may each do something else than hoped. `PROJECT.json` lists each hazard at its line.

## Modules

| Module | Models | Notes on the correspondence |
|---|---|---|
| `FramePool` | abstract | what the page allocator promises: disjoint blocks out of a set of free frames |
| `Buddy` | `buddy.rs` | `state`, `order`, `next`, `prev` are the mem-map, `free_area` the lists; each loop iteration of split, merge and `free_range` is a step |
| `Views` | external | release/acquire memory: each CPU has a view of the writes, a release store carries one, an acquire load joins it |
| `SpinLock`, `Once` | `sync.rs` | one atomic and the data it guards each, over `Views`; `Once` loads may be stale |
| `BuddyCell` | `buddy.rs:147` | `static BUDDY: Once<SpinLock<BuddyAllocator>>`: the two composed, a CPU locks what `call_once` or `get` gave it |
| `BootMem` | `bootmem.rs` | the interval algorithms are operators, the calls are actions; `ram`, `kept`, `allocs` are history |
| `Handoff` | `main.rs`, `ram.rs` | extends `BootMem`; `donated` records what `free_range` is given |
| `Slab` | `slab.rs` | memory is a row of link-sized cells, so lists run through real cell contents; the buddy is the pool `Buddy` implements |
| `Descriptor` | `page_table.rs`, `attrs.rs`, `tcr.rs`, `types.rs` | descriptors, MAIR and TCR as sets of one bits; addresses as page numbers and index tuples |
| `KernelMap` | `kernel_map.rs`, `page_table.rs`, `frame.rs` | extends `Descriptor`; `build` one `map` call at a time, with the real 512 entries and window bases |
| `Boot` | `boot.s`, `main.rs`, `mmu.rs` | extends `KernelMap`; the boot CPU's steps, and the MMU as a second actor with a TLB and register values that take effect late |
| `Smp` | `smp.rs`, `secondary.s`, `psci.rs`, `percpu.rs` | `bootData` is BOOT_DATA through the cache, `poc` the same in memory; MPIDR words are sets of bits; per-CPU pointers are address arithmetic; registers that get the same constant on every CPU (CPACR, MAIR, TCR, VBAR) are left out |
| `Console` | `uart.rs`, `kernel/exceptions/`, `arch/exceptions.rs`, `reg.rs` | a CPU's stack is a sequence of activations, of which the last runs; testing TXFF and writing the byte are two steps; ESR, SPSR and UART_FR are sets of bits that the code's own decoders read; `lost`, `last` are history |
| `NatLemmas` | | induction over the naturals, loops, division and alignment: lemmas the proofs share |
| `BuddyProofs`, `CpuProofs` (lock, once cell, `BUDDY`, SMP), `HandoffProofs` (with `BootMem`), `SlabProofs`, `ConsoleProofs` | | the theorems |
| `MC*` | | instances for TLC |

Operators whose comment begins with "Mutant" are plausible slips in the definition that
follows them. They are not part of any specification; each is used to confirm that a
property notices it.

## Runs

| Run | Instance | What it shows |
|---|---|---|
| `buddy` | 9 frames, orders 0..2, donated as 5, 1 and 2, frame 6 reserved | no two blocks overlap, blocks are aligned, no frame is lost, lists and counts are exact, `alloc` fails only if no aligned run of free frames of a range is large enough, the allocator implements `FramePool`, its loops end |
| `buddy_cell` | 3 CPUs, 4 writes | one initialiser, no uninitialised read, `Some` stays `Some`, callers return; mutual exclusion, no lost update, somebody gets in |
| `handoff` | pages of 4 bytes, region arrays of 4, up to 5 memory nodes in any order, 4 places for the device tree; and any sequence of `bootmem` calls | gaps exact, rounding safe, `alloc` takes the highest fit; `free_range`'s contract is met, the buddy gets exactly the usable RAM, the mem-map fits |
| `slab` | 2 CPUs, 2 pages, 2 classes, blocks of 1 and 2 pages, 3 objects in use | no cell in two hands, none lost, lists intact, layouts honoured, calls return |
| `boot` | every way to be entered (3 exception levels, MMU on or off, leftover traps, TLB entries and RAM contents); 27 RAM layouts | the kernel reaches the upper half or stops where it should, each access lands where it should whatever the TLB holds, the tables form a tree, the runtime map is exact, nothing of the trampoline's upper half is left |
| `smp` | 4 CPUs, 4 numbers, a bitmap of 3 bits, every list of up to 4 nodes, 6 `/psci` nodes, fit or unfit, 6 firmware answers | every CPU runs in a context of its own, an error names its CPU and cause, bring-up ends; with no more CPUs than bits, CPUs start one at a time, Ok means all online and an error leaves the earlier CPUs online |
| `console` | 2 CPUs, a FIFO of 2 bytes; either 2 lines and one exception or panic on each CPU, or every kind of exception and level on one of them, nested once | locked lines do not mix with each other, bytes are dropped only when an unlocked report meets other writing, reports are finished whoever holds the lock and describe their own exception |
| `smp_wide` | 4 CPUs, a bitmap of 3 bits | **violated**: see findings |
| `smp_trampoline` | 4 CPUs | **violated**: see findings |
| `boot_tlb`, `boot_daif`, `boot_ram` | as `boot` | **violated**: see findings |

Bounds. The buddy's ranges are not powers of two, so blocks of several orders are carved; the
second touches the first and is merged with frames of it, the third lies behind a reserved frame
that is its first frame's buddy, and the buddy of its last frame is past the end. Merging takes two
steps at most, and no two blocks of the largest order lie side by side; the proofs cover those
cases. `free_range` donates blocks without merging them, so two ranges that touch may leave free
buddies apart until a `free` comes by; `NoFalseExhaustion` therefore asks for runs within one range. Three CPUs suffice for a lock holder, a waiter and a late-comer. Boot memory and
hand-off use tiny pages so that every ragged alignment of a byte range occurs; region
arrays are small so that they fill up. The slab has few enough pages to run dry,
and a layout larger than any block of the page allocator.

`boot` uses the kernel's own constants (table sizes, window bases, `POOL_PAGES`), with an image of
a few pages that crosses a 2 MiB boundary. Its layouts reach from one region to more partly
covered GiBs than the pool has tables for, and include regions that are not 2 MiB aligned, on
which `map_region` panics. Translations are compared at the edges of every region, section and
window (`Vas`); the MMU looks up three addresses by itself (`Watch`: code in either half and the
device tree), at any time. Clearing a page is one step, and so is switching the MMU on with the ISB after it. The SMP
instance has as many numbers as CPUs and one bit less, duplicate nodes (so that a list may ask for more
CPUs than there are numbers), CPUs that differ only in AFF0 or AFF3, and
any number of stacks, so every error return is taken. On the console a line and a report have two
bytes each, so that writers can meet inside one and the FIFO fills; exceptions nest once at most
(`nesting`, in a workload), where a kernel whose stack is unmapped would nest forever and report
nothing.

Assumptions about the surroundings. The device tree blob lies in the first GiB of RAM, which the
trampoline maps, and in RAM the device tree lists. Regions of a device tree do not overlap.
System-register writes may be seen by the table walker at any time up to the next ISB.
Conflicting TLB entries are a choice between them; the architecture also allows an abort, which is
left out. Addresses handed to `percpu::init` satisfy its assertion.
The walker and both CPUs agree on how memory is cached: neither `boot.s` nor `secondary.s` sets
SCTLR_EL1.C, so `Smp` takes what a CPU reads through the page tables to be what the primary wrote through
them, and only what is read with the MMU off to come from memory. The firmware answers ALREADY_ON
exactly for a CPU it has started.
In `Handoff` memory nodes, the image and the device tree are the inputs, as in the code, which reads no
`/reserved-memory` node; the image lies in one memory region, if any is listed, `.boot.bss` is page aligned (the
linker script says so) and part of the image, and the device tree lies outside the image. In `Slab`
every class tiles a page, and alignments divide a page and each class at least as large, as powers of
two up to a page do.

Fairness. Weak fairness of each CPU's own steps: a CPU inside kernel code keeps executing,
since nothing preempts it. The spin lock is unfair, so `SomeoneEnters` and the slab's
`CallsReturn` say that *some* waiter or call gets through, never that a given one does. In
`Once` every caller returns, because READY never goes away again. In `Smp` a CPU the
firmware has started is assumed to run (`wait_for` has no timeout, so a CPU that is started and never
runs would be waited for for ever). In `Boot` the boot CPU is fair and the MMU is not: it need
not look anything up. In `Console` the UART keeps sending; a CPU that
polls for room gets it because the other CPUs' lines are finitely many. Deadlock checking is off
where the system may stop: clients need not call, and a panicked or parked CPU stays put.

## Proofs

All are for arbitrary constants, under the named `ASSUME`s of the modules.

* **Buddy** (`BuddyProofs`, with lemmas per action): `IInv` is inductive. Disjointness of blocks alone is not: a merge unlinks a block found
  through the mem-map, so the proof needs that the frames behind a head are Tails
  (`BlockInv`), that each Tail is behind some head (`TailInv`), that links are mutual and
  stay in one order (`ListInv`), and what an unfinished loop's locals mean (`OpInv`). From
  it follow `TypeCorrect`, `BlocksAreDisjoint`, `NoFrameIsLost` and `AccountingIsExact`.
  `DonationsAssumption` says that ranges are donated once, which `Handoff` shows of `kmain`.
  Three more results rest on it. `BlocksAreAligned`: a split or a merge of aligned blocks gives
  aligned blocks, by arithmetic on halves and pairs (`NatLemmas`). `ListsStayExact`: each list
  leads through exactly its order's free blocks and ends; a ranking of the links (`ListsEnd`) shows that
  it never runs in a circle. `FreeMemoryIsUsable`: no two free blocks are the halves of a larger one
  within a donated range (`Coalesced`), and what `free_range` carves could not be larger (`RangeInv`).
* **Refinement** (`BuddyProofs`): every step of `Buddy` is a step or a stutter of
  `FramePool`, with the free frames and the held blocks as the mapping.
* **Boot memory** (`HandoffProofs`): for lists of any length the holes are exact and disjoint, whole
  frames of RAM without a reserved byte, and `alloc` takes the highest fit. `PassInv` is the invariant of
  `for_each_free`'s inner loop: the holes found so far are the free frames below the cursor. It
  needs `reserved` sorted by base but not disjoint, which is what `reserve` keeps up. `BootInv` ties
  both lists to the bytes they were made from.
* **Hand-off** (`HandoffProofs`): what `free_range` is given meets its contract, each frame of RAM ends up
  with the buddy or reserved, and the mem-map fits where it is put. `HandoffInv` adds to `BootInv` what has been
  registered in each phase (`KeptInv`, `RamInv`), where the mem-map is (`MemmapInv`) and how much has
  been donated (`DonatedInv`).
* **Slab** (`SlabProofs`): cells are held once, none is lost and layouts are honoured, for any number of
  CPUs. `SlabInv` says that each free list is a finite chain of distinct objects of its class,
  linked through their first cells (`Chain`), that a call's locals fit the place it has reached (`CallInv`), and that
  the spans of cells of all kinds partition memory (`Partition`). The partition is what makes writing
  a link safe: the cell belongs to the writer, so no other list runs through it.
* **Spin lock** (`CpuProofs`): exclusion and kept updates, from an invariant that ties
  the unlocked state to a view containing every write.
* **Once** (`CpuProofs`): one initialiser, only initialised reads, READY is stable. `CellIsBoth`: every
  behaviour of `BUDDY` is one of the lock and one of the cell, so their theorems hold of it.
* **SMP** (`CpuProofs`): contexts are own and errors name their cause on every machine. Ok means
  all online, starts are serial and an error leaves the earlier CPUs online on machines that list no more CPUs than
  the bitmap has bits (`Counted`, part of the properties; `MaxCpus` and `Width` are arbitrary). The invariant says
  that bits are set only for numbers already given out, that the slot of the CPU being started is
  filled and its per-CPU area is its own (`StartInv`), which nodes have been dealt with
  (`LedgerOK`), and what a recorded error refers to (`FailureOK`). That `Counted` is needed is what
  `smp_wide` shows.
* **Console** (`ConsoleProofs`): dropped bytes need a writer past the lock, locked lines do not mix,
  and every report is its own exception's (`ReportsAreOwn`). `WriteInv` says that the kernel's activation is the bottom of each stack and the only one
  to take the lock (`StackOK`, `LockOK`), how far the line under way is (`LineOK`), and that a CPU
  about to write has room or another CPU in its way (`RoomOK`). The last is what makes the
  test of TXFF usable after it was made: a handler of the same CPU may fill the FIFO, but it never
  returns to the interrupted write. For reports the proof decodes each syndrome the processor may set, and
  follows which activation the registers belong to. What is shown of nested exceptions is that no report mixes
  two of them; the outer report stays unfinished, since the inner handler parks the CPU.

Induction. The provers cannot use induction theorems that take a predicate as a parameter, so loops are
handled with sets: a set of counterexamples in the naturals has a least element (`LeastElement`), and a set
that holds 0 and each successor holds all of them (`UpTo`). A function defined by recursion is first
shown to exist, value by value (`LoopValues`).

Left to TLC: liveness, which is out of the prover's reach; so far, the invariants of `Boot`, which includes
`KernelMap` (`TranslationExact`, `TablesFormTree`, `AccessesLand`, `EntryState`,
`TrampolineForgotten`), whose page-table walks are about the real constants and fixed layouts, so that
a proof for all constants would first need an arithmetic of index tuples.

## Findings

* `CPU_ONLINE` has 64 bits and `MAX_CPUS` is 128. In a plain release build the shift wraps
  (the `release-dev` profile has overflow checks and panics), so the
  65th CPU's bit is the primary's: `wait_for` returns at once and `bring_up_all` can return
  before that CPU is online, against its documentation (`smp.rs:194`). Run `smp_wide`.
* The secondaries load TTBR0 with `__idmap_l0` and keep it, while `reclaim_trampoline` frees
  those tables; `mmu.rs:56` says they are no longer referenced. Run `smp_trampoline`.
* `disable_ttbr0` invalidates the TLB before the ISB that makes its register writes take effect
  (`mmu.rs:80`). A lookup in between may still walk the identity map and cache what it finds, so a
  low address may keep translating, where `mmu.rs:46` promises a fault. Run `boot_tlb`. The same
  order in `switch_ttbr1` does no harm, because the second TLBI clears up after it
  (`TrampolineForgotten`).
* A loader that enters at EL2 finds all four DAIF bits set after the drop to EL1 (`boot.s:78`), while
  `BOOT_CONTRACT.md:57` says that DAIF is not modified. Run `boot_daif`. (On the EL1 path it is not.)
* `map_region` panics on RAM whose start or end is not 2 MiB aligned (`kernel_map.rs:176`), and the bootstrap
  pool of 32 pages runs out when many GiBs are covered in part (`frame.rs:48`), while
  `BOOT_CONTRACT.md:103` says that preon scales to whatever the device tree reports. Run `boot_ram`. `BootEnds`
  says that boot succeeds for every other layout (`Mappable`).

## Not modelled

* Interrupts and SErrors of a kernel entered at EL1 by a loader that left them unmasked: their handlers
  dump and park like an `el1_sync` that is no abort.
* Code that never runs: the EL0 and bad-mode vectors, the return from a handler, the UART's configuration registers, and helpers
  without a caller.
* The demonstration at the end of `kmain`: its heap and page allocations, among them `alloc_page`
  from the buddy, and the trap it ends with. What they call is modelled by itself.
* Callers that break a contract: double free, a wrong order, a heap alignment above a page.
* The alignment of `AREAS` (`percpu.rs:90`), which the linker decides.
* A leaf written over a table entry (`page_table.rs:339`): regions of RAM do not overlap, so `build` never
  does it.
* Break-before-make, TLB-conflict aborts and instruction-cache maintenance.
* Log texts, formatting, and the empty driver, userspace and toolchain crates.
