----------------------------- MODULE BuddyCell ------------------------------
(***************************************************************************)
(* static BUDDY: Once<SpinLock<BuddyAllocator>> (kernel/mm/buddy.rs): the  *)
(* page allocator's lock inside the cell that publishes it.  A CPU is in   *)
(* one call at a time; it locks what call_once or get returned to it, as   *)
(* in BUDDY.get()?.lock().alloc_pages(order).                              *)
(***************************************************************************)
EXTENDS SpinLock, Once

cellVars == <<lockVars, onceVars>>

CellInit == LockInit /\ OnceInit

\* call_once and get, by a CPU that holds no guard and waits for none.
UseOnce(c) ==
    /\ at[c] = "out"
    /\ Call(c) \/ Advance(c) \/ Spin(c) \/ GetNone(c) \/ GetSome(c)
    /\ UNCHANGED lockVars

\* .lock() on the value a call has returned, and the use of the guard.
UseLock(c) ==
    /\ (phase[c] = "out" /\ got[c] # None /\ Lock(c)) \/ Step(c)
    /\ UNCHANGED onceVars

CellNext == \E c \in Cpus : UseOnce(c) \/ UseLock(c)

CellSpec == CellInit /\ [][CellNext]_cellVars

\* A CPU in a call or in a critical section keeps executing, the initialiser
\* returns, and a store is not hidden from a spinning CPU for ever (cache
\* coherence).
CellFairSpec ==
    /\ CellSpec
    /\ \A c \in Cpus : /\ WF_cellVars(UseOnce(c) /\ Advance(c))
                       /\ WF_cellVars(UseLock(c) /\ Step(c))
=============================================================================
