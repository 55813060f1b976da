------------------------------ MODULE SpinLock ------------------------------
(***************************************************************************)
(* SpinLock<T> (kernel/builtin/sync.rs), with the data it protects.        *)
(*                                                                         *)
(* The memory is release/acquire, as the code's orderings ask for and no   *)
(* stronger (Views).  lockView is the view carried by the current value of *)
(* `locked': set by a Release store, kept by a read-modify-write, joined   *)
(* by an Acquire.                                                          *)
(*                                                                         *)
(* The critical section is the smallest one that can go wrong, a counter   *)
(* increment: read the data, then store one more.                          *)
(***************************************************************************)
EXTENDS Views, FiniteSets

CONSTANT MaxWrites   \* a bound on the critical sections entered

ASSUME MaxWritesAssumption == MaxWrites \in Nat

VARIABLES locked,     \* SpinLock::locked
          lockView,
          writes,     \* SpinLock::data, the history of its contents
          view,       \* each CPU's view of it
          at,         \* where each CPU is in the code
          tmp         \* what the critical section read

lockVars == <<locked, lockView, writes, view, at, tmp>>

\* The content of the data after n writes; it starts as 0.
Data(n) == IF n = 0 THEN 0 ELSE writes[n]

Critical == {c \in Cpus : at[c] \in {"read", "write", "drop"}}

LockInit ==
    /\ locked = FALSE /\ lockView = 0 /\ writes = <<>>
    /\ view = [c \in Cpus |-> 0]
    /\ at = [c \in Cpus |-> "out"]
    /\ tmp = [c \in Cpus |-> 0]

\* The caller enters lock().
Lock(c) ==
    /\ at[c] = "out"
    /\ Len(writes) + Cardinality({d \in Cpus : at[d] \in {"spin", "read", "write"}})
         < MaxWrites
    /\ at' = [at EXCEPT ![c] = "spin"]
    /\ UNCHANGED <<locked, lockView, writes, view, tmp>>

\* Mutant: the swap is Relaxed.
AcquireRelaxed(c) ==
    /\ at[c] = "spin" /\ ~locked
    /\ locked' = TRUE
    /\ at' = [at EXCEPT ![c] = "read"]
    /\ UNCHANGED <<lockView, writes, view, tmp>>

\* Mutant: a load and a store instead of a swap; the loop exits on what the
\* load saw, whatever locked has become since.
AcquireUnguarded(c) ==
    /\ at[c] = "spin"
    /\ locked' = TRUE
    /\ view' = Joined(view, c, lockView)
    /\ at' = [at EXCEPT ![c] = "read"]
    /\ UNCHANGED <<lockView, writes, tmp>>

\* swap(true, Acquire) returned false: the guard is created.
Acquire(c) ==
    /\ at[c] = "spin" /\ ~locked
    /\ locked' = TRUE
    /\ view' = Joined(view, c, lockView)
    /\ at' = [at EXCEPT ![c] = "read"]
    /\ UNCHANGED <<lockView, writes, tmp>>

\* swap(true, Acquire) returned true: another turn of the loop.
LockSpin(c) ==
    /\ at[c] = "spin" /\ locked
    /\ locked' = TRUE
    /\ view' = Joined(view, c, lockView)
    /\ UNCHANGED <<lockView, writes, at, tmp>>

\* Deref: a plain read, of any write the CPU is not bound to see past.
Deref(c) ==
    \E n \in view[c] .. Len(writes) :
        /\ at[c] = "read"
        /\ tmp' = [tmp EXCEPT ![c] = Data(n)]
        /\ at' = [at EXCEPT ![c] = "write"]
        /\ UNCHANGED <<locked, lockView, writes, view>>

\* DerefMut: a plain write.
DerefMut(c) ==
    /\ at[c] = "write"
    /\ writes' = Append(writes, tmp[c] + 1)
    /\ view' = [view EXCEPT ![c] = Len(writes) + 1]
    /\ at' = [at EXCEPT ![c] = "drop"]
    /\ UNCHANGED <<locked, lockView, tmp>>

\* Mutant: the guard does not release.
DropKeeps(c) ==
    /\ at[c] = "drop"
    /\ at' = [at EXCEPT ![c] = "out"]
    /\ UNCHANGED <<locked, lockView, writes, view, tmp>>

\* The guard's drop: store(false, Release).
Drop(c) ==
    /\ at[c] = "drop"
    /\ locked' = FALSE
    /\ lockView' = view[c]
    /\ at' = [at EXCEPT ![c] = "out"]
    /\ UNCHANGED <<writes, view, tmp>>

Step(c) == Acquire(c) \/ LockSpin(c) \/ Deref(c) \/ DerefMut(c) \/ Drop(c)

LockNext == \E c \in Cpus : Lock(c) \/ Step(c)

LockSpec == LockInit /\ [][LockNext]_lockVars

-----------------------------------------------------------------------------
LockTypeOK ==
    /\ locked \in BOOLEAN
    /\ writes \in Seq(Nat)
    /\ lockView \in 0 .. Len(writes)
    /\ view \in [Cpus -> 0 .. Len(writes)]
    /\ at \in [Cpus -> {"out", "spin", "read", "write", "drop"}]
    /\ tmp \in [Cpus -> Nat]

\* Two guards of one lock never exist at once.
MutualExclusion == \A c, d \in Critical : c = d

\* Whoever holds the lock sees every earlier critical section, so no update is
\* lost: the n-th write builds on the (n-1)-th.
NoLostUpdates == \A n \in 1 .. Len(writes) : writes[n] = n

\* The lock is free exactly when nobody holds it, the holder's view is
\* complete, and a free lock carries the complete view to the next holder.
LockInv ==
    /\ LockTypeOK
    /\ MutualExclusion
    /\ NoLostUpdates
    /\ locked <=> Critical # {}
    /\ \A c \in Critical : view[c] = Len(writes)
    /\ ~locked => lockView = Len(writes)
    /\ \A c \in Cpus : at[c] = "write" => tmp[c] = Len(writes)

\* While someone waits, someone gets in: lock() cannot hang on a lock that is
\* dropped.  (A given waiter may starve: the lock is not fair.)
SomeoneEnters == (\E c \in Cpus : at[c] = "spin") ~> Critical # {}
=============================================================================
