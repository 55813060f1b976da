------------------------------- MODULE MCSlab -------------------------------
(* Pages of four cells, classes of one and two: requests that fit a class by *)
(* size or by alignment, and large ones of one and two pages.                *)
EXTENDS Slab
MCClasses == <<1, 2>>
MCLayouts == {<<1, 1>>, <<1, 2>>, <<1, 4>>, <<5, 1>>, <<9, 1>>}
=============================================================================
