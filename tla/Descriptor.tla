----------------------------- MODULE Descriptor -----------------------------
(***************************************************************************)
(* The words the MMU reads: page-table entries (kernel/mm/page_table.rs),  *)
(* MAIR_EL1 (attrs.rs) and TCR_EL1 (tcr.rs, types.rs).                     *)
(*                                                                         *)
(* A 64-bit word is the set of its one bits, so that | is \cup and & is    *)
(* \cap.  A physical address is a page number.  A virtual address is       *)
(* <<half, i0, i1, i2, i3>>: bit 63, and the four 9-bit indices below it.  *)
(***************************************************************************)
EXTENDS Integers, Sequences, FiniteSets

\* The word n << shift, for n < 2^16.
Bits(n, shift) == {b + shift : b \in {c \in 0 .. 15 : (n \div 2^c) % 2 = 1}}

\* The field of w whose lowest bit is lo, width bits wide, as a number; at most 8.
Field(w, lo, width) ==
    LET bit(n, value) == IF n < width /\ lo + n \in w THEN value ELSE 0
    IN  bit(0, 1) + bit(1, 2) + bit(2, 4) + bit(3, 8) + bit(4, 16)
          + bit(5, 32) + bit(6, 64) + bit(7, 128)

-----------------------------------------------------------------------------
(* Levels and addresses.                                                   *)

\* Pages an entry of this level spans: 1 << (index_shift - 12).
Block(level) == <<512 * 512 * 512, 512 * 512, 512, 1>>[level + 1]

\* Level::index_in
IndexIn(level, va) == va[level + 2]

SupportsBlock(level) == level \in {1, 2}

\* Page n of a region.  The bases end in zeros, so the sum carries nowhere.
Va(base, n) ==
    <<base[1], base[2] + (n \div Block(0)), base[3] + ((n \div Block(1)) % 512),
      base[4] + ((n \div Block(2)) % 512), base[5] + (n % 512)>>

KERNEL_LINEAR_BASE == <<1, 256, 0, 0, 0>>    \* 0xFFFF_8000_0000_0000
KERNEL_DEVICE_BASE == <<1, 384, 0, 0, 0>>    \* 0xFFFF_C000_0000_0000
KERNEL_IMAGE_BASE == <<1, 511, 510, 0, 0>>   \* 0xFFFF_FFFF_8000_0000
IMAGE_PA_BASE == 262144                      \* 0x4000_0000
UART_PA == 36864                             \* 0x0900_0000

PaToLinearVa(pa) == Va(KERNEL_LINEAR_BASE, pa)
PaToDeviceVa(pa) == Va(KERNEL_DEVICE_BASE, pa)

-----------------------------------------------------------------------------
(* Memory attributes.                                                      *)

MemoryAttr == [Normal |-> 0, NormalNonCacheable |-> 1, DeviceNGNRNE |-> 2, DeviceNGNRE |-> 3]

MairSlot(attr, encoding) == Bits(encoding, MemoryAttr[attr] * 8)

MAIR_VALUE ==
    MairSlot("Normal", 255) \cup MairSlot("NormalNonCacheable", 68) \cup
    MairSlot("DeviceNGNRNE", 0) \cup MairSlot("DeviceNGNRE", 4)

-----------------------------------------------------------------------------
(* Translation control.                                                    *)

Shareability == [NonShareable |-> 0, OuterShareable |-> 2, InnerShareable |-> 3]

Cacheability == [NonCacheable |-> 0, WriteBackReadWriteAlloc |-> 1,
                 WriteThroughReadAlloc |-> 2, WriteBackReadAlloc |-> 3]

Granule == [TG0 |-> [KB4 |-> 0, KB16 |-> 2, KB64 |-> 1],
            TG1 |-> [KB4 |-> 2, KB16 |-> 1, KB64 |-> 3]]

PhysAddrSize == [BIT32 |-> 0, BIT36 |-> 1, BIT40 |-> 2, BIT42 |-> 3,
                 BIT44 |-> 4, BIT48 |-> 5, BIT52 |-> 6]

TszBits(va_bits) == 64 - va_bits

EPD0 == 7

\* The fields TcrConfig::build takes from a TtbrConfig: TTBR0's start at bit 0,
\* TTBR1's at bit 16.
TtbrBits(t, shift, tg, tbi) ==
    UNION {Bits(TszBits(t.va_size), shift), Bits(Cacheability[t.inner_cache], shift + 8),
           Bits(Cacheability[t.outer_cache], shift + 10), Bits(Shareability[t.share], shift + 12),
           Bits(Granule[tg][t.granule], shift + 14), IF t.tbi THEN {tbi} ELSE {}}

\* ttbr1 is an Option: a set of at most one.  Without it EPD1 is set, and an
\* ASID from TTBR1 fails the assert: there is no such case.
TcrBuild(t0, ttbr1, ips, asid_from_ttbr1) ==
    CASE ttbr1 # {} \/ ~asid_from_ttbr1 ->
        UNION {TtbrBits(t0, 0, "TG0", 37), UNION {TtbrBits(t1, 16, "TG1", 38) : t1 \in ttbr1},
               IF ttbr1 = {} THEN {23} ELSE {},
               IF asid_from_ttbr1 THEN {22} ELSE {}, Bits(PhysAddrSize[ips], 32)}

\* What tcr::install configures.
TCR_VALUE ==
    LET t(tbi) == [va_size |-> 48, granule |-> "KB4", inner_cache |-> "WriteBackReadWriteAlloc",
                   outer_cache |-> "WriteBackReadWriteAlloc", share |-> "InnerShareable",
                   tbi |-> tbi]
    IN  TcrBuild(t(TRUE), {t(FALSE)}, "BIT48", TRUE)

-----------------------------------------------------------------------------
(* Page-table entries.                                                     *)

VALID_BIT == 0
TABLE_BIT == 1
AF == 10
OUTPUT_ADDR_MASK == 12 .. 47
PXN == 53
UXN == 54

Access == [KernelReadWrite |-> 0, SharedReadWrite |-> 1,
           KernelReadOnly |-> 2, SharedReadOnly |-> 3]

Executable == [Kernel |-> {UXN}, User |-> {PXN}, None |-> {PXN, UXN}]

LeafAttrs(memory, access, share, execute) ==
    UNION {Bits(MemoryAttr[memory], 2), Bits(Access[access], 6),
           Bits(Shareability[share], 8), Executable[execute], {AF}}

\* A descriptor: the address in its output field, as a page number, and the
\* rest of its bits.
Entry(out, bits) == [out |-> out, bits |-> bits]

InvalidEntry == Entry(0, {})

\* Entry::table, and Entry::block or Entry::page as the level asks.
TableEntry(next) == Entry(next, {VALID_BIT, TABLE_BIT})

LeafEntry(pa, level, attrs) ==
    Entry(pa, attrs \cup IF SupportsBlock(level) THEN {VALID_BIT} ELSE {VALID_BIT, TABLE_BIT})

IsValid(e) == VALID_BIT \in e.bits
IsTableOrPage(e) == {VALID_BIT, TABLE_BIT} \subseteq e.bits
OutputAddr(e) == e.out

\* kernel_map.rs's attributes.
TEXT_ATTRS == LeafAttrs("Normal", "KernelReadOnly", "InnerShareable", "Kernel")
RODATA_ATTRS == LeafAttrs("Normal", "KernelReadOnly", "InnerShareable", "None")
DATA_ATTRS == LeafAttrs("Normal", "KernelReadWrite", "InnerShareable", "None")
BSS_ATTRS == LeafAttrs("Normal", "KernelReadWrite", "InnerShareable", "None")
STACK_ATTRS == LeafAttrs("Normal", "KernelReadWrite", "InnerShareable", "None")
DEVICE_ATTRS == LeafAttrs("DeviceNGNRE", "KernelReadWrite", "NonShareable", "None")
LINEAR_RAM == LeafAttrs("Normal", "KernelReadWrite", "InnerShareable", "None")
=============================================================================
