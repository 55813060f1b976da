---------------------------- MODULE MCBuddyCell -----------------------------
(* Three CPUs: one initialises, one waits, one polls with get(); and four    *)
(* critical sections, so that a CPU may come back for the lock while another *)
(* still waits for it.                                                       *)
EXTENDS BuddyCell
=============================================================================
