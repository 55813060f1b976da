-------------------------------- MODULE Once --------------------------------
(***************************************************************************)
(* Once<T> (kernel/builtin/sync.rs), the single-initialisation cell that   *)
(* holds the page allocator, under the release/acquire memory the code's   *)
(* orderings ask for.                                                      *)
(*                                                                         *)
(* `state' only grows, so its value is also its place in the order of its  *)
(* own writes: seen[c] is the newest one CPU c has read, and a load may    *)
(* still return any value from there to the newest.  msgView[s] is the     *)
(* view of the value (Views) carried by the store that made state = s.     *)
(* The value CPU c's initialiser produces is c itself.                     *)
(***************************************************************************)
EXTENDS Views

CONSTANTS None,     \* get() returned None, or nothing was read yet
          Uninit    \* what the cell holds before the first write

ASSUME ValuesAssumption == None # Uninit /\ None \notin Cpus /\ Uninit \notin Cpus

UNINIT  == 0
RUNNING == 1
READY   == 2

VARIABLES state,    \* Once::state
          msgView,
          seen,
          values,   \* Once::value, the history of its contents
          bound,    \* each CPU's view of it
          phase,    \* where each CPU is in the code
          runs,     \* how often an initialiser was called
          got       \* what each CPU's last call_once or get returned

onceVars == <<state, msgView, seen, values, bound, runs, phase, got>>

Content(n) == IF n = 0 THEN Uninit ELSE values[n]

\* Acquire load of state by c returning t.
AcquireLoad(c, t) ==
    /\ t \in seen[c] .. state
    /\ seen' = [seen EXCEPT ![c] = t]
    /\ bound' = Joined(bound, c, msgView[t])

OnceInit ==
    /\ state = UNINIT
    /\ msgView = [s \in {UNINIT, RUNNING, READY} |-> 0]
    /\ seen = [c \in Cpus |-> UNINIT]
    /\ values = <<>>
    /\ bound = [c \in Cpus |-> 0]
    /\ runs = 0
    /\ phase = [c \in Cpus |-> "out"]
    /\ got = [c \in Cpus |-> None]

Call(c) ==
    /\ phase[c] = "out" /\ phase' = [phase EXCEPT ![c] = "cas"]
    /\ UNCHANGED <<state, msgView, seen, values, bound, runs, got>>

\* Mutant: a load and a later store instead of compare_exchange.
CasWinRacy(c) ==
    /\ phase[c] = "cas" /\ AcquireLoad(c, UNINIT)
    /\ state' = MaxOf(state, RUNNING)
    /\ phase' = [phase EXCEPT ![c] = "init"]
    /\ UNCHANGED <<msgView, values, runs, got>>

\* compare_exchange succeeds: it reads the newest value, UNINIT, and this
\* CPU is the one to run the initialiser.
CasWin(c) ==
    /\ phase[c] = "cas" /\ state = UNINIT
    /\ state' = RUNNING
    /\ seen' = [seen EXCEPT ![c] = RUNNING]
    /\ bound' = Joined(bound, c, msgView[UNINIT])
    /\ msgView' = [msgView EXCEPT ![RUNNING] = msgView[UNINIT]]
    /\ phase' = [phase EXCEPT ![c] = "init"]
    /\ UNCHANGED <<values, runs, got>>

\* compare_exchange fails: someone else runs or has run it.
CasLose(c) ==
    \E t \in {RUNNING, READY} :
        /\ phase[c] = "cas" /\ AcquireLoad(c, t)
        /\ phase' = [phase EXCEPT ![c] = "spin"]
        /\ UNCHANGED <<state, msgView, values, runs, got>>

\* let v = f();
RunInit(c) ==
    /\ phase[c] = "init" /\ runs' = runs + 1
    /\ phase' = [phase EXCEPT ![c] = "write"]
    /\ UNCHANGED <<state, msgView, seen, values, bound, got>>

\* The plain write of v.
Write(c) ==
    /\ phase[c] = "write"
    /\ values' = Append(values, c)
    /\ bound' = [bound EXCEPT ![c] = Len(values) + 1]
    /\ phase' = [phase EXCEPT ![c] = "publish"]
    /\ UNCHANGED <<state, msgView, seen, runs, got>>

\* Mutant: the store is Relaxed.
PublishRelaxed(c) ==
    /\ phase[c] = "publish"
    /\ state' = READY
    /\ seen' = [seen EXCEPT ![c] = READY]
    /\ phase' = [phase EXCEPT ![c] = "read"]
    /\ UNCHANGED <<msgView, values, bound, runs, got>>

\* Mutant: READY is never stored.
PublishForgotten(c) ==
    /\ phase[c] = "publish" /\ phase' = [phase EXCEPT ![c] = "read"]
    /\ UNCHANGED <<state, msgView, seen, values, bound, runs, got>>

\* store(READY, Release)
Publish(c) ==
    /\ phase[c] = "publish"
    /\ state' = READY
    /\ seen' = [seen EXCEPT ![c] = READY]
    /\ msgView' = [msgView EXCEPT ![READY] = bound[c]]
    /\ phase' = [phase EXCEPT ![c] = "read"]
    /\ UNCHANGED <<values, bound, runs, got>>

\* The waiting loop: a load that is not READY, perhaps because it is stale.
Spin(c) ==
    \E t \in {UNINIT, RUNNING} :
        /\ phase[c] = "spin" /\ AcquireLoad(c, t)
        /\ UNCHANGED <<state, msgView, values, runs, phase, got>>

SpinExit(c) ==
    /\ phase[c] = "spin" /\ AcquireLoad(c, READY)
    /\ phase' = [phase EXCEPT ![c] = "read"]
    /\ UNCHANGED <<state, msgView, values, runs, got>>

\* assume_init_ref: a plain read of the value.
Read(c) ==
    \E n \in bound[c] .. Len(values) :
        /\ phase[c] = "read"
        /\ got' = [got EXCEPT ![c] = Content(n)]
        /\ phase' = [phase EXCEPT ![c] = "out"]
        /\ UNCHANGED <<state, msgView, seen, values, bound, runs>>

\* Mutant: get() tests READY with compare_exchange_weak, which may fail anyway.
GetNoneSpurious(c) ==
    /\ phase[c] = "out"
    /\ got' = [got EXCEPT ![c] = None]
    /\ UNCHANGED <<state, msgView, seen, bound, values, runs, phase>>

\* get(): not READY, or READY not visible here yet.
GetNone(c) ==
    \E t \in {UNINIT, RUNNING} :
        /\ phase[c] = "out" /\ AcquireLoad(c, t)
        /\ got' = [got EXCEPT ![c] = None]
        /\ UNCHANGED <<state, msgView, values, runs, phase>>

GetSome(c) ==
    /\ phase[c] = "out" /\ AcquireLoad(c, READY)
    /\ phase' = [phase EXCEPT ![c] = "read"]
    /\ UNCHANGED <<state, msgView, values, runs, got>>

\* The steps a CPU takes towards the end of a call it is in.
Advance(c) ==
    \/ CasWin(c) \/ CasLose(c) \/ RunInit(c) \/ Write(c) \/ Publish(c)
    \/ SpinExit(c) \/ Read(c)

OnceNext == \E c \in Cpus :
    Call(c) \/ Advance(c) \/ Spin(c) \/ GetNone(c) \/ GetSome(c)

OnceSpec == OnceInit /\ [][OnceNext]_onceVars

-----------------------------------------------------------------------------
Initialising == {c \in Cpus : phase[c] \in {"init", "write", "publish"}}

OnceTypeOK ==
    /\ state \in {UNINIT, RUNNING, READY}
    /\ values \in Seq(Cpus)
    /\ msgView \in [{UNINIT, RUNNING, READY} -> 0 .. Len(values)]
    /\ seen \in [Cpus -> {UNINIT, RUNNING, READY}]
    /\ bound \in [Cpus -> 0 .. Len(values)]
    /\ runs \in Nat
    /\ phase \in [Cpus -> {"out", "cas", "init", "write", "publish", "spin", "read"}]
    /\ got \in [Cpus -> Cpus \cup {None, Uninit}]

\* The initialiser runs at most once, whatever the CPUs race for, and once
\* READY is visible it has run.
InitOnce ==
    /\ runs <= 1 /\ Len(values) <= 1
    /\ \A c \in Cpus : seen[c] = READY => runs = 1

\* Nobody gets the uninitialised cell, and all get the same value.
OneValue ==
    \A c, d \in Cpus :
        /\ got[c] # Uninit
        /\ got[c] # None /\ got[d] # None => got[c] = got[d]

\* A CPU that has had the value never gets None again: frame::alloc_page does
\* not fall back to the bump pool after it has used the page allocator.
ReadyIsStable ==
    [][\A c \in Cpus : got[c] # None => got'[c] = got[c]]_onceVars

\* What each value of state means, and that a CPU that has seen READY is bound
\* to see the value.
OnceInv ==
    /\ OnceTypeOK
    /\ \A c \in Cpus : seen[c] <= state
    /\ state = UNINIT => Initialising = {} /\ runs = 0 /\ Len(values) = 0
    /\ state = RUNNING =>
          /\ \E c \in Initialising : Initialising = {c}
          /\ runs = IF \E c \in Cpus : phase[c] = "init" THEN 0 ELSE 1
          /\ Len(values) = IF \E c \in Cpus : phase[c] = "publish" THEN 1 ELSE 0
    /\ state = READY =>
          Initialising = {} /\ runs = 1 /\ Len(values) = 1 /\ msgView[READY] = 1
    /\ \A c \in Cpus : phase[c] = "publish" \/ seen[c] = READY => bound[c] = 1
    /\ \A c \in Cpus : phase[c] = "read" \/ got[c] # None => seen[c] = READY
    /\ \A c \in Cpus : got[c] # None => got[c] = values[1]

\* Every caller of call_once returns.
CallersReturn == \A c \in Cpus : phase[c] # "out" ~> phase[c] = "out"
=============================================================================
