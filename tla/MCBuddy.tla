------------------------------ MODULE MCBuddy ------------------------------
(***************************************************************************)
(* Buddy for TLC.                                                          *)
(***************************************************************************)
EXTENDS Buddy

MCSize == [o \in 0 .. MaxOrder |-> 2 ^ o]

\* The second range touches the first and is handed over after allocations
\* from it, as reclaim_trampoline does with .boot.bss.  The third comes after a
\* reserved frame, which is the buddy of its first; the buddy of its last lies
\* past the end.  A block of frames 0..3 merges in two steps.
MCDonations == {<<0, 5>>, <<5, 1>>, <<7, 2>>}
=============================================================================
