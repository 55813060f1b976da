----------------------------- MODULE MCHandoff -----------------------------
(* Four-byte pages and a one-byte PageInfo: the mem-map takes several pages. *)
(* The image ends inside a page.  Regions come in any order, with gaps, with *)
(* ragged ends, and too many for the region array.                           *)
(*                                                                           *)
(* Besides kmain's own sequence of calls the run explores every sequence of  *)
(* bootmem calls ("any"): memory with ragged ends, ranges that touch, one    *)
(* too small for a page; reserved ranges that overlap, nest and straddle.    *)
EXTENDS Handoff

MCMemory == {<<0, 24>>, <<1, 10>>, <<12, 27>>, <<10, 12>>, <<27, 31>>}
MCReserve == {<<0, 1>>, <<3, 8>>, <<4, 8>>, <<6, 18>>, <<8, 9>>, <<10, 16>>, <<12, 27>>,
              <<18, 20>>, <<20, 31>>}
MCAlloc == {<<1, 1>>, <<2, 1>>, <<2, 2>>, <<1, 4>>}

MCImage == <<16, 34>>
MCBss == <<20, 28>>
MCDtbs == {<<36, 39>>, <<44, 49>>, <<9, 16>>, <<60, 66>>}

Others == {<<52, 64>>, <<50, 55>>, <<58, 71>>, <<0, 4>>, <<68, 93>>, <<96, 104>>}
Mains == {<<8, 50>>, <<16, 40>>, <<5, 49>>}
Apart(l) == \A i, j \in 1 .. Len(l) : i # j => Bytes(l[i]) \cap Bytes(l[j]) = {}
Orders == {l \in UNION {[1 .. n -> Others] : n \in 0 .. 4} : Apart(l)}
MCLists ==
    {<<>>} \cup {l \in {Append(o, m) : o \in Orders, m \in Mains}
                   \cup {<<m, o>> : m \in Mains, o \in Others} : Apart(l)}

MCInit ==
    \/ HInit
    \/ /\ Init /\ regions = <<>> /\ dtb = MCImage /\ phase = "any"
       /\ k = 1 /\ base_pfn = 0 /\ nr_frames = 0 /\ donated = <<>>
MCNext ==
    \/ HNext
    \/ phase = "any" /\ Next /\ UNCHANGED hvars
MCSpec == MCInit /\ [][MCNext]_<<vars, hvars>>
=============================================================================
