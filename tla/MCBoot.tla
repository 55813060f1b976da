------------------------------- MODULE MCBoot -------------------------------
(* The kernel's own constants, with a small image that crosses a 2 MiB       *)
(* boundary.  Loaders differ in exception level, MMU, leftover traps, TLB    *)
(* entries and RAM contents; device trees in what RAM they list, from one    *)
(* region to more partly covered GiBs than the page pool has tables for.     *)
EXTENDS Boot

GiB == Block(1)

MCSections == <<<<256, 258>>, <<258, 259>>, <<259, 260>>, <<495, 529>>, <<529, 531>>>>

First == {<<GiB, 1024>>, <<GiB, 2 * GiB + 1024>>, <<GiB - 512, GiB + 512>>, <<GiB, 1280>>}
Second == {<<4 * GiB, 512>>, <<5 * GiB - 512, GiB + 1024>>, <<512 * GiB - 512, 1024>>,
           <<4 * GiB + 256, 512>>}
Spread == <<<<GiB, 1024>>>> \o [i \in 1 .. 22 |-> <<(i + 3) * GiB, 512>>]
MCRam == {<<r>> : r \in First} \cup {<<r, q>> : <<r, q>> \in First \X Second}
         \cup {<<q, r>> : <<r, q>> \in {<<GiB, GiB>>} \X Second}
         \cup {<<<<GiB, GiB>>>>, Spread, Append(Spread, <<30 * GiB, 512>>), Append(Spread, <<30 * GiB, GiB>>)}

LoaderTlb == {<<KmainVa, [pa |-> 7, may |-> Rw]>>, <<Low(BootText), [pa |-> 7, may |-> Rw]>>}
Loader(el, sctlr, cptr, daif, stale_, tlb_, ram_) ==
    [el |-> el, sctlr |-> sctlr, cptr |-> cptr, daif |-> daif, stale |-> stale_,
     tlb |-> tlb_, ram |-> ram_, fdt |-> GiB + 600]

\* Every way to be entered, with one device tree; and every device tree, after
\* an ordinary entry.
MCLoads ==
    {Loader(el, sctlr, left[1], left[2], e, left[3], <<<<GiB, GiB>>>>) :
        el \in 1 .. 3, sctlr \in {{}, {0}}, left \in {<<{}, 6 .. 9, {}>>, <<{10}, {}, LoaderTlb>>},
        e \in {InvalidEntry, TableEntry(7), LeafEntry(7, 2, LINEAR_RAM)}}
    \cup {Loader(2, {}, {10}, {}, TableEntry(7), {}, l) : l \in MCRam}

Edges(l) == UNION {UNION {{b - 1, b, b + 1} : b \in {l[i][1], l[i][1] + l[i][2]}} : i \in DOMAIN l}
MCVas ==
    {PaToLinearVa(p) : p \in UNION {Edges(l) : l \in MCRam} \cup {0, UART_PA}}
    \cup {Va(KERNEL_IMAGE_BASE, p) : p \in {0} \cup
             UNION {{Sections[i][1] - 1, Sections[i][1], Sections[i][2] - 1, Sections[i][2]} : i \in 1 .. 5}}
    \cup {PaToDeviceVa(p) : p \in {0, UART_PA - 1, UART_PA, UART_PA + 1, UART_PA + 512, GiB}}
    \cup {Low(p) : p \in {0, UART_PA, BootText, GiB, GiB + 512}}
    \cup {<<1, i, j, 0, 0>> : i \in {0, 255, 256, 384, 511}, j \in {0, 1, 72, 511}}

MCWatch == {KmainVa, Low(BootText), PaToLinearVa(GiB + 600)}
=============================================================================
