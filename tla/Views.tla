------------------------------- MODULE Views --------------------------------
(***************************************************************************)
(* A memory cell that is written and read plainly, under release/acquire   *)
(* memory.  The cell has a history of its contents and each CPU a view,    *)
(* how much of that history it is bound to see: a plain read returns any   *)
(* write at or after the view.  A Release store carries its CPU's view,    *)
(* and an Acquire load of that store joins it.                             *)
(***************************************************************************)
EXTENDS Integers, Sequences

CONSTANT Cpus

MaxOf(a, b) == IF a >= b THEN a ELSE b

\* The views once CPU c has acquired a store that carried v.
Joined(views, c, v) == [views EXCEPT ![c] = MaxOf(@, v)]
=============================================================================
