------------------------------ MODULE CpuProofs ------------------------------
(***************************************************************************)
(* What several CPUs do at once.  Smp: bring-up, for every device tree,    *)
(* MAX_CPUS and width of CPU_ONLINE; where a promise needs a bit per CPU,  *)
(* the property itself asks for it (Counted).  SpinLock: mutual exclusion  *)
(* and the absence of lost updates, for any set of CPUs and any number of  *)
(* critical sections.  Once: single initialisation, for any set of CPUs.   *)
(* BuddyCell: both hold of the page allocator's lock in its cell.          *)
(***************************************************************************)
EXTENDS Smp, BuddyCell, TLAPS

-----------------------------------------------------------------------------
(* Smp.                                                                    *)

\* The per-CPU areas, and the copies of CPU_DATA in them, are apart.
LEMMA AreasApart ==
    ASSUME NEW c \in Ids
    PROVE  /\ Offset(c) \in Int /\ CpuData(Offset(c)) \in Blocks
           /\ \A d \in Ids : c # d => /\ Offset(c) # Offset(d)
                                     /\ CpuData(Offset(c)) # CpuData(Offset(d))
<1>1. Area[c] \in Int /\ \A d \in Ids : Area[d] \in Int /\ (c # d => Area[c] # Area[d])
  BY SmpAssumption DEF Ids
<1>2. Offset(c) \in Int /\ \A d \in Ids : Offset(d) \in Int /\ (c # d => Offset(c) # Offset(d))
  BY <1>1, SmpAssumption DEF Offset
<1>3. \A d \in Ids : c # d => CpuData(Offset(c)) # CpuData(Offset(d))
  BY <1>2, SmpAssumption DEF CpuData
<1> QED
  BY <1>2, <1>3 DEF Blocks

\* The fields of a control block.
LEMMA BlockFields ==
    \A c, n : [id |-> c, mpidr |-> n].id = c /\ [id |-> c, mpidr |-> n].mpidr = n
  OBVIOUS

\* The invariant holds when kmain gets to bring-up.
LEMMA InitStartInv == Init => StartInv
<1> SUFFICES ASSUME Init PROVE StartInv
  OBVIOUS
<1> USE SmpAssumption DEF Init, Ids, BootRecord, InFlight
<1>1. TypeOK
  <2>1. cpuData \in [Blocks -> [id : Nat, mpidr : Mpidrs \cup {Zero}]]
    OBVIOUS
  <2>a. offsets \in [Ids -> Int \cup {Zero}] /\ ctx \in [Mpidrs -> Ids \cup {Zero}]
    OBVIOUS
  <2>b. stacks \in Nat /\ node \in Nat \ {0} /\ next_idx \in Nat \ {0}
    OBVIOUS
  <2>2. bootData \in [Ids -> BootRecords] /\ poc \in [Ids -> BootRecords]
    BY DEF BootRecords
  <2>3. nodes \in Seq(SUBSET Nat)
    OBVIOUS
  <2>4. PrimaryTypes
    BY <2>1, <2>2, <2>3, <2>a, <2>b, Zenon DEF PrimaryTypes
  <2>5. SecondaryTypes
    BY DEF SecondaryTypes
  <2> QED
    BY <2>4, <2>5 DEF TypeOK
<1>2. SlotReady /\ AreasOK
  BY DEF SlotReady, AreasOK
<1>3. Started = {} /\ hw[Primary] = "boot" /\ next_idx <= MaxCpus
  <2>1. hw[Primary] = "boot" /\ \A m \in Mpidrs \ {Primary} : hw[m] = "off"
    BY Zenon
  <2>2. next_idx <= MaxCpus
    OBVIOUS
  <2> QED
    BY <2>1, <2>2, Zenon DEF Started
<1>4. ContextOK /\ SlotsApart
  BY <1>3, Zenon DEF ContextOK, SlotsApart
<1> QED
  BY <1>1, <1>2, <1>4 DEF StartInv

\* The steps of the primary that leave every started CPU's data alone.
Quiet ==
    \/ PercpuInit \/ DisableTtbr0 \/ FromFdt \/ NoPsci \/ SkipPrimary
    \/ TooManyCpus \/ CpuOnError \/ AllUp \/ ReclaimTrampoline

LEMMA QuietContext ==
    ASSUME StartInv, Quiet
    PROVE  ContextOK' /\ SlotsApart'
<1>1. /\ UNCHANGED <<nodes, next_idx, stacks, cpuData, bootData, poc, hw, ctx, ttbr1, sp>>
      /\ pc # "wait" /\ pc' \notin {"on", "wait"}
      /\ pc' \in {"percpu", "low", "psci", "init"} => pc \in {"percpu", "low", "psci", "init"}
  BY Zenon DEF Quiet, PercpuInit, DisableTtbr0, FromFdt, NoPsci, SkipPrimary, TooManyCpus, Fail,
         AtSecondary, CpuOnError, AllUp, ReclaimTrampoline, secondaryVars
<1>2. \A m \in Mpidrs \ {Primary} : tpidr'[m] = tpidr[m]
  <2>1. tpidr \in [Mpidrs -> Int \cup {Zero}]
    BY DEF StartInv, TypeOK, SecondaryTypes
  <2>2. tpidr' = tpidr \/ tpidr' = [tpidr EXCEPT ![Primary] = offsets'[0]]
    BY Zenon DEF Quiet, PercpuInit, DisableTtbr0, FromFdt, NoPsci, SkipPrimary, TooManyCpus, Fail,
           CpuOnError, AllUp, ReclaimTrampoline, secondaryVars
  <2> QED
    BY <2>1, <2>2, Zenon
<1>3. Started' = Started /\ Running' = Running
  BY <1>1 DEF Started, Running
<1>4. ASSUME NEW m \in Started PROVE NumberOK(m)' /\ SlotOK(m)' /\ TakenOK(m)'
  <2>1. NumberOK(m) /\ SlotOK(m) /\ TakenOK(m)
    BY Zenon DEF StartInv, ContextOK
  <2>2. bootData[ctx[m]].stack \in Nat /\ stacks \in Nat
    BY <2>1, Zenon DEF SlotOK, StartInv, TypeOK, PrimaryTypes
  <2>3. bootData[ctx[m]].stack > stacks + 1 => bootData[ctx[m]].stack > stacks
    BY <2>2
  <2>4. NumberOK(m)'
    BY <1>1, <2>1, <2>3, Zenon DEF NumberOK
  <2>5. SlotOK(m)'
    BY <1>1, <2>1, Zenon DEF SlotOK
  <2>6. TakenOK(m)'
    BY <1>1, <1>2, <1>3, <2>1, Zenon DEF TakenOK, Started
  <2> QED
    BY <2>4, <2>5, <2>6
<1>5. ContextOK'
  BY <1>1, <1>3, <1>4, Zenon DEF StartInv, ContextOK
<1>6. SlotsApart'
  BY <1>1, <1>3, Zenon DEF StartInv, SlotsApart
<1> QED
  BY <1>5, <1>6

\* Preparing a slot, or running out of memory for it, touches the next number's
\* slot and no started CPU's.
LEMMA PrepareContext ==
    ASSUME StartInv, Prepare \/ OutOfMemory
    PROVE  ContextOK' /\ SlotsApart'
<1>1. /\ UNCHANGED <<nodes, next_idx, hw, ctx, ttbr1, sp, tpidr>>
      /\ pc = "walk" /\ pc' \in {"on", "failed"}
      /\ AtSecondary /\ next_idx < MaxCpus /\ InitCpu(next_idx, Node)
  BY Zenon DEF Prepare, OutOfMemory, Fail, AtSecondary, secondaryVars
<1>2. next_idx \in Ids /\ offsets[next_idx] = Offset(next_idx) /\ stacks \in Nat
  <2>1. next_idx \in Nat \ {0} /\ stacks \in Nat /\ MaxCpus \in Nat
    BY SmpAssumption DEF StartInv, TypeOK, PrimaryTypes
  <2>2. next_idx \in Ids
    BY <1>1, <2>1 DEF Ids
  <2> QED
    BY <1>1, <2>1, <2>2 DEF StartInv, AreasOK
<1>3. \A c \in Ids : c # next_idx =>
         cpuData'[CpuData(Offset(c))] = cpuData[CpuData(Offset(c))]
  <2>1. cpuData' = [cpuData EXCEPT ![CpuData(Offset(next_idx))]
                        = [id |-> next_idx, mpidr |-> Node]]
    BY <1>1, <1>2, Zenon DEF InitCpu
  <2>2. cpuData \in [Blocks -> [id : Nat, mpidr : Mpidrs \cup {Zero}]]
    BY DEF StartInv, TypeOK, PrimaryTypes
  <2> QED
    BY <1>2, <2>1, <2>2, AreasApart, Zenon
<1>4. \A c \in Ids : c # next_idx => bootData'[c] = bootData[c] /\ poc'[c] = poc[c]
  <2>1. bootData \in [Ids -> BootRecords] /\ poc \in [Ids -> BootRecords]
    BY DEF StartInv, TypeOK, PrimaryTypes
  <2>2. CASE Prepare
    BY <1>2, <2>1, <2>2, Zenon DEF Prepare
  <2>3. CASE OutOfMemory
    BY <2>3, Zenon DEF OutOfMemory, Fail
  <2> QED
    BY <2>2, <2>3
<1>5. IF pc' = "on" THEN stacks' + 1 = stacks ELSE stacks' = stacks
  <2>1. CASE Prepare
    BY <1>2, <2>1 DEF Prepare
  <2>2. CASE OutOfMemory
    BY <2>2 DEF OutOfMemory, Fail
  <2> QED
    BY <2>1, <2>2
<1>6. Started' = Started /\ Running' = Running
  BY <1>1 DEF Started, Running
<1>7. ASSUME NEW m \in Started
      PROVE  /\ ctx[m] # next_idx /\ bootData'[ctx[m]] = bootData[ctx[m]]
             /\ NumberOK(m)' /\ SlotOK(m)' /\ TakenOK(m)'
  <2>1. NumberOK(m) /\ SlotOK(m) /\ TakenOK(m)
    BY Zenon DEF StartInv, ContextOK
  <2>2. ctx[m] \in Ids \ {0} /\ ctx[m] < next_idx /\ bootData[ctx[m]].stack > stacks
    BY <1>1, <2>1, Zenon DEF NumberOK
  <2>3. ctx[m] # next_idx
    BY <1>2, <2>2 DEF Ids
  <2>4. bootData'[ctx[m]] = bootData[ctx[m]] /\ poc'[ctx[m]] = poc[ctx[m]]
    BY <1>4, <2>2, <2>3, Zenon
  <2>5. NumberOK(m)'
    BY <1>1, <1>5, <2>2, <2>4, Zenon DEF NumberOK
  <2>6. SlotOK(m)'
    BY <1>1, <1>3, <2>1, <2>2, <2>3, <2>4, Zenon DEF SlotOK
  <2>7. TakenOK(m)'
    BY <1>1, <1>6, <2>1, <2>4, Zenon DEF TakenOK
  <2> QED
    BY <2>3, <2>4, <2>5, <2>6, <2>7
<1>8. ContextOK'
  BY <1>1, <1>6, <1>7, Zenon DEF StartInv, ContextOK
<1>9. SlotsApart'
  <2> SUFFICES ASSUME NEW m \in Started, NEW n \in Started, m # n
               PROVE  ctx[m] # ctx[n] /\ bootData'[ctx[m]].stack # bootData'[ctx[n]].stack
    BY <1>1, <1>6, Zenon DEF SlotsApart
  <2>1. bootData'[ctx[m]] = bootData[ctx[m]] /\ bootData'[ctx[n]] = bootData[ctx[n]]
    BY <1>7
  <2>2. ctx[m] # ctx[n] /\ bootData[ctx[m]].stack # bootData[ctx[n]].stack
    BY Zenon DEF StartInv, SlotsApart
  <2> QED
    BY <2>1, <2>2, Zenon
<1> QED
  BY <1>8, <1>9

\* A CPU is started with the slot the primary has just prepared.
LEMMA CpuOnContext ==
    ASSUME StartInv, CpuOn
    PROVE  ContextOK' /\ SlotsApart'
<1>1. /\ UNCHANGED <<nodes, node, next_idx, stacks, cpuData, bootData, poc, ttbr1, sp, tpidr>>
      /\ pc = "on" /\ pc' = "wait" /\ hw[Node] = "off" /\ Node' = Node
      /\ hw' = [hw EXCEPT ![Node] = "entry"] /\ ctx' = [ctx EXCEPT ![Node] = next_idx]
  BY Zenon DEF CpuOn, secondaryVars, Node
<1>2. /\ hw \in [Mpidrs -> InFlight \cup {"boot", "off", "parked"}]
      /\ ctx \in [Mpidrs -> Ids \cup {Zero}] /\ stacks \in Nat
      /\ next_idx \in Nat \ {0} /\ node \in Nat \ {0} /\ Len(nodes) \in Nat
  BY DEF StartInv, TypeOK, PrimaryTypes, SecondaryTypes
<1>3. /\ node <= Len(nodes) /\ Node # Primary /\ next_idx < MaxCpus
      /\ cpuData[CpuData(Offset(next_idx))] = [id |-> next_idx, mpidr |-> Node]
      /\ bootData[next_idx] = BootRecord(Offset(next_idx), stacks + 1, Root)
      /\ poc[next_idx] = bootData[next_idx]
  BY <1>1, Zenon DEF StartInv, SlotReady
<1>4. Node \in Mpidrs \ {Primary} /\ next_idx \in Ids \ {0}
  <2>1. node \in 1 .. Len(nodes)
    BY <1>2, <1>3
  <2>2. next_idx \in Ids \ {0}
    BY <1>2, <1>3, SmpAssumption DEF Ids
  <2> QED
    BY <1>3, <2>1, <2>2, Zenon DEF StartInv, AreasOK, Node
<1>5. /\ hw'[Node] = "entry" /\ ctx'[Node] = next_idx
      /\ \A n \in Mpidrs : n # Node => hw'[n] = hw[n] /\ ctx'[n] = ctx[n]
  BY <1>1, <1>2, <1>4, Zenon
<1>6. Started' = Started \cup {Node} /\ Node \notin Started
  BY <1>1, <1>4, <1>5, Zenon DEF Started
<1>7. Running' = Running
  BY <1>1, <1>4, <1>5, Zenon DEF Running
<1>8. NumberOK(Node)' /\ SlotOK(Node)' /\ TakenOK(Node)' /\ bootData[next_idx].stack = stacks + 1
  <2>1. /\ bootData[next_idx].stack = stacks + 1 /\ bootData[next_idx].root = Root
        /\ bootData[next_idx].offset = Offset(next_idx)
    BY <1>3, SMT DEF BootRecord
  <2>2. stacks + 1 > stacks /\ stacks + 1 \in Nat
    BY <1>2
  <2>3. NumberOK(Node)'
    BY <1>1, <1>4, <1>5, <2>1, <2>2, Zenon DEF NumberOK
  <2>4. SlotOK(Node)'
    BY <1>1, <1>3, <1>5, <2>1, <2>2, Zenon DEF SlotOK
  <2>5. TakenOK(Node)'
    BY <1>1, <1>5, <1>7, Zenon DEF TakenOK, Running
  <2> QED
    BY <2>1, <2>3, <2>4, <2>5
<1>9. ASSUME NEW m \in Started
      PROVE  /\ ctx[m] # next_idx /\ bootData[ctx[m]].stack # stacks + 1
             /\ ctx'[m] = ctx[m] /\ NumberOK(m)' /\ SlotOK(m)' /\ TakenOK(m)'
  <2>1. NumberOK(m) /\ SlotOK(m) /\ TakenOK(m)
    BY Zenon DEF StartInv, ContextOK
  <2>2. /\ ctx[m] \in Ids \ {0} /\ ctx[m] < next_idx /\ bootData[ctx[m]].stack > stacks + 1
        /\ bootData[ctx[m]].stack \in Nat
    BY <1>1, <2>1, Zenon DEF NumberOK, SlotOK
  <2>3. ctx[m] # next_idx /\ bootData[ctx[m]].stack # stacks + 1
    BY <1>2, <2>2 DEF Ids
  <2>4. m \in Mpidrs /\ m # Node /\ hw'[m] = hw[m] /\ ctx'[m] = ctx[m]
    BY <1>5, <1>6, Zenon DEF Started
  <2>5. NumberOK(m)'
    BY <1>1, <2>2, <2>4, Zenon DEF NumberOK
  <2>6. SlotOK(m)'
    BY <1>1, <2>1, <2>4, Zenon DEF SlotOK
  <2>7. TakenOK(m)'
    BY <1>1, <1>7, <2>1, <2>4, Zenon DEF TakenOK
  <2> QED
    BY <2>3, <2>4, <2>5, <2>6, <2>7
<1>10. ContextOK'
  <2>1. hw'[Primary] = "boot"
    BY <1>3, <1>5, SmpAssumption, Zenon DEF StartInv, ContextOK
  <2> QED
    BY <1>1, <1>6, <1>8, <1>9, <2>1, Zenon DEF StartInv, ContextOK
<1>11. SlotsApart'
  <2> SUFFICES ASSUME NEW m \in Started', NEW n \in Started', m # n
               PROVE  ctx'[m] # ctx'[n] /\ bootData[ctx'[m]].stack # bootData[ctx'[n]].stack
    BY <1>1, Zenon DEF SlotsApart
  <2>1. CASE m \in Started /\ n \in Started
    BY <1>9, <2>1, Zenon DEF StartInv, SlotsApart
  <2>2. CASE m = Node /\ n \in Started
    BY <1>5, <1>8, <1>9, <2>2, Zenon
  <2>3. CASE n = Node /\ m \in Started
    BY <1>5, <1>8, <1>9, <2>3, Zenon
  <2> QED
    BY <1>6, <2>1, <2>2, <2>3, Zenon
<1> QED
  BY <1>10, <1>11

\* The CPU the primary has waited for keeps its number as the next one moves on.
LEMMA WaitForContext ==
    ASSUME StartInv, WaitFor
    PROVE  ContextOK' /\ SlotsApart'
<1>1. /\ UNCHANGED <<nodes, stacks, cpuData, bootData, poc, hw, ctx, ttbr1, sp, tpidr>>
      /\ pc = "wait" /\ pc' = "walk" /\ next_idx' = next_idx + 1
  BY Zenon DEF WaitFor, secondaryVars
<1>2. next_idx \in Nat /\ next_idx < MaxCpus /\ MaxCpus \in Nat /\ stacks \in Nat
  BY <1>1, SmpAssumption DEF StartInv, SlotReady, TypeOK, PrimaryTypes
<1>3. Started' = Started /\ Running' = Running
  BY <1>1 DEF Started, Running
<1>4. ASSUME NEW m \in Started PROVE NumberOK(m)' /\ SlotOK(m)' /\ TakenOK(m)'
  <2>1. NumberOK(m) /\ SlotOK(m) /\ TakenOK(m)
    BY Zenon DEF StartInv, ContextOK
  <2>2. /\ ctx[m] \in Ids \ {0} /\ (ctx[m] = next_idx \/ ctx[m] < next_idx)
        /\ (bootData[ctx[m]].stack > stacks \/ bootData[ctx[m]].stack > stacks + 1)
        /\ bootData[ctx[m]].stack \in Nat
    BY <1>1, <2>1, Zenon DEF NumberOK, SlotOK
  <2>3. ctx[m] < next_idx + 1 /\ bootData[ctx[m]].stack > stacks
    BY <1>2, <2>2 DEF Ids
  <2>4. NumberOK(m)'
    BY <1>1, <2>2, <2>3, Zenon DEF NumberOK
  <2>5. SlotOK(m)'
    BY <1>1, <2>1, Zenon DEF SlotOK
  <2>6. TakenOK(m)'
    BY <1>1, <1>3, <2>1, Zenon DEF TakenOK
  <2> QED
    BY <2>4, <2>5, <2>6
<1>5. next_idx' <= MaxCpus
  BY <1>1, <1>2
<1>6. ContextOK'
  BY <1>1, <1>3, <1>4, <1>5, Zenon DEF StartInv, ContextOK
<1>7. SlotsApart'
  BY <1>1, <1>3, Zenon DEF StartInv, SlotsApart
<1> QED
  BY <1>6, <1>7

\* Each step of the primary preserves the invariant.
LEMMA PrimaryStepStartInv ==
    ASSUME StartInv, PrimaryStep
    PROVE  StartInv'
<1>f. Primary \in Mpidrs /\ MaxCpus \in Nat \ {0} /\ Width \in Nat \ {0}
  BY SmpAssumption
<1> USE <1>f DEF StartInv, Ids, primaryVars, secondaryVars
<1>b. AreasOK'
  <2>1. CASE PercpuInit
    <3>1. offsets' = [c \in Ids |-> Offset(c)] /\ tpidr'[Primary] = Offset(0)
      BY <2>1 DEF PercpuInit, TypeOK, SecondaryTypes
    <3> QED
      BY <2>1, <3>1 DEF PercpuInit, AreasOK
  <2>2. CASE PrimaryOnline
    <3>1. offsets[0] = Offset(0)
      BY <2>2 DEF PrimaryOnline, AreasOK
    <3>2. tpidr'[Primary] = Offset(0)
      BY <2>2, <3>1 DEF PrimaryOnline, TypeOK, SecondaryTypes
    <3> QED
      BY <2>2, <3>2 DEF PrimaryOnline, AreasOK
  <2>3. CASE ~ PercpuInit /\ ~ PrimaryOnline
    <3>1. UNCHANGED <<nodes, offsets, tpidr>> /\ pc # "percpu"
      BY <2>3, Zenon DEF PrimaryStep, FromFdt, NoPsci, DisableTtbr0, SkipPrimary, TooManyCpus,
             OutOfMemory, Fail, AtSecondary, Prepare, CpuOn, CpuOnError, WaitFor, AllUp,
             ReclaimTrampoline
    <3> QED
      BY <3>1 DEF AreasOK
  <2> QED
    BY <2>1, <2>2, <2>3
<1>c. pc # "percpu" => \A c \in Ids : offsets[c] = Offset(c)
  BY DEF AreasOK
<1>d. node \in 1 .. Len(nodes) => Node \in Mpidrs
  BY DEF AreasOK, Node
<1>e. /\ \A c \in Ids : Offset(c) \in Int /\ CpuData(Offset(c)) \in Blocks
      /\ \A c, d \in Ids : c # d => CpuData(Offset(c)) # CpuData(Offset(d))
  BY AreasApart
<1>0. CASE PercpuInit
  <2>1. TypeOK'
    BY <1>0, <1>e, SMTT(60) DEF PercpuInit, TypeOK, PrimaryTypes, SecondaryTypes
  <2>2. SlotReady'
    BY <1>0, Zenon DEF PercpuInit, SlotReady
  <2> QED
    BY <1>0, <1>b, <2>1, <2>2, QuietContext, Zenon DEF Quiet
<1>1. CASE DisableTtbr0 \/ FromFdt \/ AllUp \/ ReclaimTrampoline
  <2> USE <1>1 DEF DisableTtbr0, FromFdt, AllUp, ReclaimTrampoline
  <2>1. TypeOK'
    BY Zenon DEF TypeOK, PrimaryTypes, SecondaryTypes
  <2>2. SlotReady'
    BY Zenon DEF SlotReady
  <2> QED
    BY <1>b, <2>1, <2>2, QuietContext, Zenon DEF Quiet
<1>2. CASE PrimaryOnline
  <2> USE <1>2 DEF PrimaryOnline
  <2>a. 0 \in Ids /\ Bit(0) \in Nat /\ Primary \in Mpidrs
    BY DEF Bit
  <2>b. cpuData' \in [Blocks -> [id : Nat, mpidr : Mpidrs \cup {Zero}]]
    BY <1>c, <1>e, <2>a DEF InitCpu, TypeOK, PrimaryTypes
  <2>c. tpidr' \in [Mpidrs -> Int \cup {Zero}] /\ online' \subseteq Nat
    BY <1>c, <1>e, <2>a, Zenon DEF TypeOK, PrimaryTypes, SecondaryTypes
  <2>1. TypeOK'
    BY <2>b, <2>c, Zenon DEF TypeOK, PrimaryTypes, SecondaryTypes
  <2>2. SlotReady'
    BY Zenon DEF SlotReady
  <2>3. Started = {}
    BY Zenon DEF ContextOK
  <2>4. Started' = {}
    BY <2>3, Zenon DEF Started
  <2>5. ContextOK' /\ SlotsApart'
    BY <2>4, Zenon DEF ContextOK, SlotsApart
  <2> QED
    BY <1>b, <2>1, <2>2, <2>5
<1>3. CASE SkipPrimary
  <2> USE <1>3 DEF SkipPrimary
  <2>a. SecondaryTypes'
    BY DEF TypeOK, SecondaryTypes
  <2>b. node' \in Nat \ {0}
    BY DEF TypeOK, PrimaryTypes
  <2>c. PrimaryTypes'
    BY <2>b, Zenon DEF TypeOK, PrimaryTypes
  <2>1. TypeOK'
    BY <2>a, <2>c DEF TypeOK
  <2>2. SlotReady'
    BY Zenon DEF SlotReady
  <2> QED
    BY <1>b, <2>1, <2>2, QuietContext, Zenon DEF Quiet
<1>4. CASE NoPsci \/ TooManyCpus \/ CpuOnError
  <2> USE <1>4 DEF NoPsci, TooManyCpus, CpuOnError, Fail
  <2>1. TypeOK'
    BY Zenon DEF TypeOK, PrimaryTypes, SecondaryTypes
  <2>2. SlotReady'
    BY Zenon DEF SlotReady
  <2> QED
    BY <1>b, <2>1, <2>2, QuietContext, Zenon DEF Quiet
<1>5. CASE OutOfMemory
  <2> USE <1>5 DEF OutOfMemory, Fail, AtSecondary
  <2>0. next_idx \in Ids /\ offsets[next_idx] = Offset(next_idx) /\ Node \in Mpidrs
    BY <1>c, <1>d DEF TypeOK, PrimaryTypes
  <2>a. cpuData' \in [Blocks -> [id : Nat, mpidr : Mpidrs \cup {Zero}]]
    BY <1>e, <2>0, Zenon DEF InitCpu, TypeOK, PrimaryTypes
  <2>1. TypeOK'
    BY <2>a, Zenon DEF TypeOK, PrimaryTypes, SecondaryTypes
  <2>2. SlotReady'
    BY Zenon DEF SlotReady
  <2> QED
    BY <1>b, <2>1, <2>2, PrepareContext, Zenon
<1>6. CASE Prepare
  <2> USE <1>6 DEF Prepare, AtSecondary
  <2>0. next_idx \in Ids /\ offsets[next_idx] = Offset(next_idx) /\ Node \in Mpidrs
    BY <1>c, <1>d DEF TypeOK, PrimaryTypes
  <2>a. /\ cpuData' \in [Blocks -> [id : Nat, mpidr : Mpidrs \cup {Zero}]]
        /\ cpuData'[CpuData(Offset(next_idx))] = [id |-> next_idx, mpidr |-> Node]
    BY <1>e, <2>0, Zenon DEF InitCpu, TypeOK, PrimaryTypes
  <2>b. bootData' \in [Ids -> BootRecords] /\ poc' \in [Ids -> BootRecords]
    BY <1>e, <2>0, Zenon DEF BootRecord, BootRecords, TypeOK, PrimaryTypes
  <2>1. TypeOK'
    BY <2>a, <2>b, SMTT(60) DEF TypeOK, PrimaryTypes, SecondaryTypes
  <2>2. SlotReady'
    BY <2>0, <2>a, SMTT(60) DEF SlotReady, Node, TypeOK, PrimaryTypes
  <2> QED
    BY <1>b, <2>1, <2>2, PrepareContext, Zenon
<1>7. CASE CpuOn
  <2> USE <1>7 DEF CpuOn
  <2>0. Node \in Mpidrs /\ next_idx \in Ids
    BY <1>d DEF TypeOK, PrimaryTypes, SlotReady
  <2>1. TypeOK'
    BY <2>0, SMTT(60) DEF TypeOK, PrimaryTypes, SecondaryTypes, InFlight
  <2>2. SlotReady'
    BY Zenon DEF SlotReady, Node
  <2> QED
    BY <1>b, <2>1, <2>2, CpuOnContext, Zenon
<1>8. CASE WaitFor
  <2> USE <1>8 DEF WaitFor
  <2>1. TypeOK'
    BY SMTT(30) DEF TypeOK, PrimaryTypes, SecondaryTypes
  <2>2. SlotReady'
    BY Zenon DEF SlotReady
  <2> QED
    BY <1>b, <2>1, <2>2, WaitForContext, Zenon
<1> QED
  BY <1>0, <1>1, <1>2, <1>3, <1>4, <1>5, <1>6, <1>7, <1>8, Zenon DEF PrimaryStep

\* Each step of a secondary preserves the invariant.
LEMMA SecondaryStepStartInv ==
    ASSUME StartInv, NEW m \in Mpidrs, SecondaryStep(m)
    PROVE  StartInv'
<1>f. Primary \in Mpidrs /\ MaxCpus \in Nat \ {0} /\ Width \in Nat \ {0}
  BY SmpAssumption
<1> USE <1>f DEF StartInv, At, primaryVars, secondaryVars
<1>y. hw \in [Mpidrs -> InFlight \cup {"boot", "off", "parked"}]
  BY SMTT(30) DEF TypeOK, SecondaryTypes
<1>h. /\ hw[m] \in InFlight /\ hw' = [hw EXCEPT ![m] = hw'[m]]
      /\ UNCHANGED <<nodes, offsets, pc, node, next_idx, stacks, cpuData, bootData, poc, ctx, tables>>
  BY <1>y, Zenon DEF SecondaryStep, Enter, High, LogLock, LogUnlock, MarkOnline, InFlight
<1>p. PrimaryTypes'
  BY <1>h, Zenon DEF TypeOK, PrimaryTypes
<1>v. hw'[m] \in (InFlight \cup {"parked"}) \ {"entry"}
  BY <1>y, Zenon DEF SecondaryStep, Enter, High, LogLock, LogUnlock, MarkOnline, InFlight
<1>z. hw' \in [Mpidrs -> InFlight \cup {"boot", "off", "parked"}]
  BY <1>y, <1>h, <1>v
<1>n. \A n \in Mpidrs : n # m => hw'[n] = hw[n]
  BY <1>h, <1>y, Zenon
<1>0. m \in Started /\ m # Primary /\ NumberOK(m) /\ SlotOK(m) /\ TakenOK(m)
  BY <1>h, Zenon DEF ContextOK, Started, InFlight
<1>1. ctx[m] \in Ids \ {0}
  BY <1>0, Zenon DEF NumberOK
<1>s. SlotReady'
  BY <1>h, Zenon DEF SlotReady, Node
<1>g. Started' = Started
  BY <1>0, <1>h, <1>n, <1>v, Zenon DEF Started, InFlight
<1>q. AreasOK'
  <2>1. tpidr'[Primary] = tpidr[Primary]
    BY <1>0, Zenon DEF TypeOK, SecondaryTypes,
           SecondaryStep, Enter, High, LogLock, LogUnlock, MarkOnline
  <2> QED
    BY <1>h, <2>1, Zenon DEF AreasOK
<1>a. SlotsApart'
  BY <1>g, <1>h, Zenon DEF SlotsApart
<1>o. \A n \in Mpidrs : n # m =>
         ttbr1'[n] = ttbr1[n] /\ sp'[n] = sp[n] /\ tpidr'[n] = tpidr[n]
  BY Zenon DEF TypeOK, SecondaryTypes, SecondaryStep, Enter, High, LogLock, LogUnlock, MarkOnline
<1>k. TakenOK(m)' => ContextOK'
  <2> SUFFICES ASSUME TakenOK(m)' PROVE ContextOK'
    OBVIOUS
  <2>1. ASSUME NEW n \in Started PROVE NumberOK(n)' /\ SlotOK(n)' /\ TakenOK(n)'
    <3>1. NumberOK(n) /\ SlotOK(n) /\ TakenOK(n) /\ n \in Mpidrs
      BY Zenon DEF ContextOK, Started
    <3>2. NumberOK(n)'
      BY <1>h, <3>1, Zenon DEF NumberOK, Node
    <3>3. SlotOK(n)'
      BY <1>h, <3>1, Zenon DEF SlotOK
    <3>4. CASE n # m
      BY <1>h, <1>n, <1>o, <3>1, <3>2, <3>3, <3>4, Zenon DEF TakenOK, Running
    <3> QED
      BY <3>2, <3>3, <3>4
  <2>2. hw'[Primary] = "boot"
    BY <1>0, <1>n, Zenon DEF ContextOK
  <2> QED
    BY <1>g, <1>h, <2>1, <2>2, Zenon DEF ContextOK
<1>2. CASE Enter(m)
  <2>a. poc[ctx[m]].root = Root
    BY <1>0, Zenon DEF SlotOK
  <2>b. /\ hw'[m] = "high"
        /\ ttbr0' = [ttbr0 EXCEPT ![m] = Idmap] /\ ttbr1' = [ttbr1 EXCEPT ![m] = Root]
        /\ UNCHANGED <<sp, tpidr, uart, online>>
    BY <1>2, <1>y, <2>a, Zenon DEF Enter
  <2>1. TypeOK'
    BY <1>p, <1>z, <2>b, Zenon DEF TypeOK, SecondaryTypes
  <2>2. TakenOK(m)'
    BY <2>b, Zenon DEF TakenOK, Running, TypeOK, SecondaryTypes
  <2> QED
    BY <1>q, <1>s, <1>a, <1>k, <2>1, <2>2
<1>3. CASE High(m)
  <2>a. /\ bootData[ctx[m]].stack \in Nat /\ bootData[ctx[m]].offset = Offset(ctx[m])
        /\ Offset(ctx[m]) \in Int
    BY <1>0, <1>1, AreasApart, Zenon DEF SlotOK
  <2>b. /\ hw[m] = "high" /\ hw'[m] = "rust"
        /\ sp' = [sp EXCEPT ![m] = bootData[ctx[m]].stack]
        /\ tpidr' = [tpidr EXCEPT ![m] = Offset(ctx[m])]
        /\ UNCHANGED <<ttbr0, ttbr1, uart, online>>
    BY <1>3, <1>y, <2>a, Zenon DEF High
  <2>1. TypeOK'
    BY <1>p, <1>z, <2>a, <2>b, Zenon DEF TypeOK, SecondaryTypes
  <2>2. TakenOK(m)'
    BY <1>0, <1>h, <2>b, Zenon DEF TakenOK, TypeOK, SecondaryTypes
  <2> QED
    BY <1>q, <1>s, <1>a, <1>k, <2>1, <2>2
<1>4. CASE LogLock(m) \/ LogUnlock(m)
  <2>a. /\ hw[m] \in {"rust", "log"} /\ uart' \in Mpidrs \cup {Zero}
        /\ UNCHANGED <<ttbr0, ttbr1, sp, tpidr, online>>
    BY <1>4, <1>y, Zenon DEF LogLock, LogUnlock
  <2>1. TypeOK'
    BY <1>p, <1>z, <2>a, Zenon DEF TypeOK, SecondaryTypes
  <2>2. TakenOK(m)'
    BY <1>0, <1>h, <2>a, Zenon DEF TakenOK, Running
  <2> QED
    BY <1>q, <1>s, <1>a, <1>k, <2>1, <2>2
<1>5. CASE MarkOnline(m)
  <2>a. /\ hw[m] = "mark"
        /\ online' = online \cup {Bit(cpuData[CpuData(tpidr[m])].id)}
        /\ UNCHANGED <<ttbr0, ttbr1, sp, tpidr, uart>>
    BY <1>5, <1>y, Zenon DEF MarkOnline
  <2>b. cpuData[CpuData(tpidr[m])].id = ctx[m]
    <3>1. tpidr[m] = Offset(ctx[m])
      BY <1>0, <2>a, Zenon DEF TakenOK, Running
    <3>2. cpuData[CpuData(tpidr[m])] = [id |-> ctx[m], mpidr |-> m]
      BY <1>0, <3>1, Zenon DEF SlotOK
    <3> QED
      BY <3>2, BlockFields, Zenon
  <2>c. Bit(ctx[m]) \in Nat
    BY <1>1 DEF Bit, Ids
  <2>1. TypeOK'
    BY <1>p, <1>z, <2>a, <2>b, <2>c, Zenon DEF TypeOK, SecondaryTypes
  <2>2. TakenOK(m)'
    BY <1>0, <1>h, <2>a, Zenon DEF TakenOK, Running
  <2> QED
    BY <1>q, <1>s, <1>a, <1>k, <2>1, <2>2
<1> QED
  BY <1>2, <1>3, <1>4, <1>5, Zenon DEF SecondaryStep

\* Bring-up of any machine: bring_up_all and the secondaries preserve each
\* CPU's own number, slot and stack, whatever the device tree lists, the
\* firmware answers and the width of CPU_ONLINE is.
THEOREM StartInvariance == Spec => []StartInv
<1>1. StartInv /\ [Next]_vars => StartInv'
  <2> SUFFICES ASSUME StartInv, [Next]_vars PROVE StartInv'
    OBVIOUS
  <2>1. CASE PrimaryStep
    BY <2>1, PrimaryStepStartInv
  <2>2. CASE \E m \in Mpidrs : SecondaryStep(m)
    BY <2>2, SecondaryStepStartInv
  <2>3. CASE UNCHANGED vars
    <3>1. /\ UNCHANGED <<nodes, offsets, pc, node, next_idx, stacks, cpuData, bootData, poc, ctx, tables>>
          /\ UNCHANGED <<ttbr1, sp, tpidr, uart, online, hw, ttbr0>>
      BY <2>3, Zenon DEF vars, primaryVars, secondaryVars
    <3>2. UNCHANGED <<Node, Running, Started>>
      BY <3>1 DEF Node, Running, Started
    <3>3. TypeOK'
      BY <3>1, Zenon DEF StartInv, TypeOK, PrimaryTypes, SecondaryTypes
    <3>4. SlotReady' /\ AreasOK' /\ SlotsApart'
      BY <3>1, <3>2, Zenon DEF StartInv, SlotReady, AreasOK, SlotsApart
    <3>5. ContextOK'
      BY <3>1, <3>2, Zenon DEF StartInv, ContextOK, NumberOK, SlotOK, TakenOK
    <3> QED
      BY <3>3, <3>4, <3>5 DEF StartInv
  <2> QED
    BY <2>1, <2>2, <2>3 DEF Next
<1> QED
  BY InitStartInv, <1>1, PTL DEF Spec

\* Every running secondary has a stack, per-CPU area and control block of its
\* own, and the block holds its own identity.
THEOREM ContextsAreOwn == Spec => []OwnContext
<1>1. StartInv => OwnContext
  <2> SUFFICES ASSUME StartInv, NEW m \in Running
               PROVE  /\ ttbr1[m] = Root /\ sp[m] # Zero
                      /\ cpuData[CpuData(tpidr[m])].mpidr = m
                      /\ tpidr[m] # tpidr[Primary]
                      /\ \A n \in Running : n # m => sp[n] # sp[m] /\ tpidr[n] # tpidr[m]
    BY Zenon DEF OwnContext
  <2>0. Running \subseteq Started
    BY Zenon DEF StartInv, ContextOK, Running, Started
  <2>1. \A n \in Running :
           /\ ttbr1[n] = Root /\ sp[n] \in Nat /\ ctx[n] \in Ids \ {0}
           /\ sp[n] = bootData[ctx[n]].stack
           /\ tpidr[n] = Offset(ctx[n])
           /\ cpuData[CpuData(Offset(ctx[n]))] = [id |-> ctx[n], mpidr |-> n]
    <3> SUFFICES ASSUME NEW n \in Running
                 PROVE  /\ ttbr1[n] = Root /\ sp[n] \in Nat /\ ctx[n] \in Ids \ {0}
                        /\ sp[n] = bootData[ctx[n]].stack
                        /\ tpidr[n] = Offset(ctx[n])
                        /\ cpuData[CpuData(Offset(ctx[n]))] = [id |-> ctx[n], mpidr |-> n]
      BY Zenon
    <3>1. NumberOK(n) /\ SlotOK(n) /\ TakenOK(n) /\ hw[n] # "entry"
      BY <2>0, Zenon DEF StartInv, ContextOK, Running
    <3> QED
      BY <3>1, Zenon DEF NumberOK, SlotOK, TakenOK
  <2>2. cpuData[CpuData(tpidr[m])].mpidr = m /\ sp[m] # Zero
    <3>1. cpuData[CpuData(tpidr[m])] = [id |-> ctx[m], mpidr |-> m] /\ sp[m] \in Nat
      BY <2>1, Zenon
    <3> QED
      BY <3>1, SmpAssumption, SMTT(60)
  <2>3. tpidr[m] # tpidr[Primary]
    <3>1. 0 \in Ids
      BY SmpAssumption DEF Ids
    <3>2. tpidr[Primary] = Offset(0)
      BY <2>0, Zenon DEF StartInv, AreasOK, ContextOK
    <3>3. ctx[m] \in Ids /\ ctx[m] # 0 /\ tpidr[m] = Offset(ctx[m])
      BY <2>1, Zenon
    <3> QED
      BY <3>1, <3>2, <3>3, AreasApart, Zenon
  <2>4. ASSUME NEW n \in Running, n # m
        PROVE  sp[n] # sp[m] /\ tpidr[n] # tpidr[m]
    <3>1. ctx[n] # ctx[m] /\ bootData[ctx[n]].stack # bootData[ctx[m]].stack
      BY <2>0, <2>4, Zenon DEF StartInv, SlotsApart
    <3>2. tpidr[n] # tpidr[m]
      <4>1. ctx[n] \in Ids /\ tpidr[n] = Offset(ctx[n]) /\ ctx[m] \in Ids /\ tpidr[m] = Offset(ctx[m])
        BY <2>1, Zenon
      <4> QED
        BY <3>1, <4>1, AreasApart, Zenon
    <3> QED
      BY <2>1, <3>1, <3>2, Zenon
  <2> QED
    BY <2>1, <2>2, <2>3, <2>4, Zenon
<1> QED
  BY StartInvariance, <1>1, PTL

\* Every step keeps the record of who was started with which number, and why
\* bring-up stopped.
LEMMA LedgerStep ==
    ASSUME StartInv, LedgerOK, FailureOK, Next
    PROVE  LedgerOK' /\ FailureOK'
<1>f. Primary \in Mpidrs /\ MaxCpus \in Nat \ {0}
  BY SmpAssumption
<1> USE <1>f DEF StartInv
<1>t. /\ hw \in [Mpidrs -> InFlight \cup {"boot", "off", "parked"}]
      /\ ctx \in [Mpidrs -> Ids \cup {Zero}]
      /\ node \in Nat \ {0} /\ next_idx \in Nat \ {0} /\ Len(nodes) \in Nat
  BY DEF TypeOK, PrimaryTypes, SecondaryTypes
<1>1. ASSUME UNCHANGED <<nodes, node, next_idx, hw, ctx>>, pc # "wait",
             online' = online \/ pc' = "walk", pc' # "wait",
             pc' \in {"up", "done"} => pc \in {"up", "done"} \/ node > Len(nodes),
             pc' \in {"percpu", "low", "psci", "init"} =>
                 pc \in {"percpu", "low", "psci", "init"}
      PROVE  LedgerOK'
  <2>1. Started' = Started
    BY <1>1 DEF Started
  <2> QED
    BY <1>1, <2>1, Zenon DEF LedgerOK
<1>2. CASE PercpuInit \/ DisableTtbr0 \/ FromFdt \/ PrimaryOnline \/ Prepare \/ AllUp
           \/ ReclaimTrampoline
  <2>1. /\ UNCHANGED <<nodes, node, next_idx, hw, ctx>> /\ pc # "wait" /\ pc' \notin {"failed", "wait"}
        /\ online' = online \/ pc' = "walk"
        /\ pc' \in {"up", "done"} => pc \in {"up", "done"} \/ node > Len(nodes)
        /\ pc' \in {"percpu", "low", "psci", "init"} => pc \in {"percpu", "low", "psci", "init"}
    BY <1>2, Zenon DEF PercpuInit, DisableTtbr0, FromFdt, PrimaryOnline, Prepare, AtSecondary,
           AllUp, ReclaimTrampoline, secondaryVars
  <2> QED
    BY <1>1, <2>1, Zenon DEF FailureOK
<1>3. CASE NoPsci \/ TooManyCpus \/ OutOfMemory \/ CpuOnError
  <2>1. /\ UNCHANGED <<nodes, node, next_idx, hw, ctx, online>> /\ pc # "wait" /\ pc' = "failed"
    BY <1>3, Zenon DEF NoPsci, TooManyCpus, OutOfMemory, CpuOnError, Fail, AtSecondary
  <2>2. LedgerOK'
    BY <1>1, <2>1
  <2>3. FailureOK'
    <3>1. CASE NoPsci
      BY <2>1, <3>1, Zenon DEF NoPsci, Fail, FailureOK, LedgerOK
    <3>2. CASE TooManyCpus
      BY <2>1, <3>2, Zenon DEF TooManyCpus, Fail, FailureOK
    <3>3. CASE OutOfMemory
      BY <2>1, <3>3, Zenon DEF OutOfMemory, Fail, FailureOK
    <3>4. CASE CpuOnError
      <4>1. PICK code \in Codes \ {0} :
               /\ pc = "on" /\ (code = -4) = (hw[Node] # "off")
               /\ error' = [kind |-> "Psci", cpu |-> Node, why |-> FromCode(code)]
        BY <3>4, Zenon DEF CpuOnError, Fail
      <4>2. code \in Int
        BY SmpAssumption
      <4>3. (FromCode(code).name = "AlreadyOn") = (code = -4)
        BY <4>2 DEF FromCode
      <4>4. node \in 1 .. Len(nodes) /\ Node # Primary
        BY <1>t, <4>1, SMTT(60) DEF SlotReady
      <4>5. Node' = Node
        BY <2>1 DEF Node
      <4>6. error'.kind = "Psci" /\ error'.cpu = Node /\ error'.why = FromCode(code)
        BY <4>1, Zenon
      <4>7. (error'.why.name = "AlreadyOn") = (hw[Node] # "off")
        BY <4>1, <4>3, <4>6, Zenon
      <4> QED
        BY <2>1, <4>4, <4>5, <4>6, <4>7, Zenon DEF FailureOK
    <3> QED
      BY <1>3, <3>1, <3>2, <3>3, <3>4
  <2> QED
    BY <2>2, <2>3, SMTT(30)
<1>4. CASE SkipPrimary
  <2>1. /\ UNCHANGED <<nodes, next_idx, hw, ctx, online>> /\ pc = "walk" /\ pc' = "walk"
        /\ node' = node + 1 /\ Mpidr(nodes[node]) = Primary
    BY <1>4 DEF SkipPrimary, Node
  <2>2. \A j \in 1 .. Len(nodes) : j < node' <=> j < node \/ j = node
    BY <1>t, <2>1, SMTT(30)
  <2>3. next_idx < node'
    <3>1. next_idx <= node
      BY Zenon DEF LedgerOK
    <3> QED
      BY <1>t, <2>1, <3>1
  <2>4. next_idx <= node'
    BY <1>t, <2>1, <2>3
  <2>5. Started' = Started
    BY <2>1 DEF Started
  <2> QED
    BY <2>1, <2>2, <2>3, <2>4, <2>5, Zenon DEF LedgerOK, FailureOK
<1>5. CASE CpuOn
  <2>1. /\ pc = "on" /\ pc' = "wait" /\ hw[Node] = "off" /\ UNCHANGED <<nodes, node, next_idx, online>>
        /\ hw' = [hw EXCEPT ![Node] = "entry"] /\ ctx' = [ctx EXCEPT ![Node] = next_idx]
    BY <1>5 DEF CpuOn
  <2>2. Node' = Node
    BY <2>1 DEF Node
  <2>3. \A m \in Mpidrs : m # Node => hw'[m] = hw[m] /\ ctx'[m] = ctx[m]
    BY <1>t, <2>1
  <2>4. Started \subseteq Started' /\ Started' \subseteq Started \cup {Node} /\ Node \notin Started
    BY <2>1, <2>3, Zenon DEF Started
  <2>5. \A m \in Started : ctx'[m] = ctx[m] /\ hw'[m] = hw[m]
    BY <2>3, <2>4, Zenon DEF Started
  <2>6. Node \in Started' /\ hw'[Node] # "boot"
    <3>1. node \in 1 .. Len(nodes) /\ Node # Primary
      BY <1>t, <2>1, SMTT(60) DEF SlotReady
    <3>2. Node \in Mpidrs
      BY <3>1, Zenon DEF AreasOK, Node
    <3>3. hw'[Node] = "entry"
      BY <1>t, <2>1, <3>2
    <3> QED
      BY <3>1, <3>2, <3>3, Zenon DEF Started
  <2>7. \A m \in Started' : hw'[m] # "boot"
    BY <2>4, <2>5, <2>6, Zenon DEF LedgerOK
  <2>8. \A m \in Started' : \/ m = Node
                            \/ \E j \in 1 .. Len(nodes) : j < node /\ Mpidr(nodes[j]) = m
    BY <2>1, <2>4, Zenon DEF LedgerOK
  <2>9. \A c \in Ids \ {0} : c < next_idx => \E m \in Started' : ctx'[m] = c
    BY <2>4, <2>5, Zenon DEF LedgerOK
  <2>10. \A j \in 1 .. Len(nodes) :
            j < node => Mpidr(nodes[j]) = Primary \/ Mpidr(nodes[j]) \in Started'
    BY <2>4, Zenon DEF LedgerOK
  <2>11. LedgerOK'
    BY <2>1, <2>2, <2>6, <2>7, <2>8, <2>9, <2>10, Zenon DEF LedgerOK
  <2> QED
    BY <2>1, <2>11, Zenon DEF FailureOK
<1>6. CASE WaitFor
  <2>1. /\ pc = "wait" /\ pc' = "walk" /\ UNCHANGED <<nodes, hw, ctx, online>>
        /\ node' = node + 1 /\ next_idx' = next_idx + 1
    BY <1>6, Zenon DEF WaitFor
  <2>2. next_idx \in Ids /\ node \in 1 .. Len(nodes) /\ Node # Primary
    BY <1>t, <2>1, SMTT(60) DEF SlotReady, Ids
  <2>3. Node \in Started /\ ctx[Node] = next_idx
    BY <2>1, <2>2, Zenon DEF LedgerOK, ContextOK, NumberOK
  <2>4. \A j \in 1 .. Len(nodes) : j < node' <=> j < node \/ j = node
    BY <1>t, <2>1
  <2>5. \A c \in Ids \ {0} : c < next_idx' => c < next_idx \/ c = next_idx
    BY <1>t, <2>1 DEF Ids
  <2>6. Started' = Started
    BY <2>1 DEF Started
  <2>7. next_idx' <= node'
    <3>1. next_idx <= node
      BY Zenon DEF LedgerOK
    <3> QED
      BY <1>t, <2>1, <3>1
  <2>8. (\E j \in 1 .. Len(nodes) : j < node' /\ Mpidr(nodes[j]) = Primary) => next_idx' < node'
    <3> SUFFICES ASSUME \E j \in 1 .. Len(nodes) : j < node' /\ Mpidr(nodes[j]) = Primary
                 PROVE  next_idx' < node'
      OBVIOUS
    <3>1. \E j \in 1 .. Len(nodes) : j < node /\ Mpidr(nodes[j]) = Primary
      BY <2>2, <2>4, Zenon DEF Node
    <3>2. next_idx < node
      BY <3>1, Zenon DEF LedgerOK
    <3> QED
      BY <1>t, <2>1, <3>2
  <2> QED
    BY <2>1, <2>2, <2>3, <2>4, <2>5, <2>6, <2>7, <2>8, Zenon DEF LedgerOK, FailureOK, Node
<1>7. CASE \E m \in Mpidrs : SecondaryStep(m)
  <2>1. PICK m \in Mpidrs : SecondaryStep(m)
    BY <1>7
  <2>2. /\ hw[m] \in InFlight /\ hw' = [hw EXCEPT ![m] = hw'[m]] /\ hw'[m] \notin {"off", "boot"}
        /\ UNCHANGED <<nodes, pc, node, next_idx, ctx, error>>
    BY <1>t, <2>1, Zenon DEF SecondaryStep, At, Enter, High, LogLock, LogUnlock, MarkOnline,
           primaryVars, InFlight
  <2>3. Started' = Started /\ Node' = Node /\ m \in Started
    <3>1. hw[m] # "off" /\ \A n \in Mpidrs : n # m => hw'[n] = hw[n]
      BY <1>t, <2>2, Zenon DEF InFlight
    <3>2. Started' = Started /\ Node' = Node
      BY <2>2, <3>1, Zenon DEF Started, Node
    <3>3. m # Primary
      BY <2>2, Zenon DEF ContextOK, InFlight
    <3> QED
      BY <3>1, <3>2, <3>3, Zenon DEF Started
  <2>4. pc \notin {"percpu", "low", "psci", "init"}
    BY <2>3, Zenon DEF ContextOK
  <2>5. LedgerOK'
    <3>1. \A n \in Started : hw'[n] # "boot"
      BY <1>t, <2>2, Zenon DEF LedgerOK, Started
    <3> QED
      BY <2>2, <2>3, <2>4, <3>1, Zenon DEF LedgerOK
  <2>6. ~ (error.kind = "NoPsci" /\ node = 1 /\ online = {}) \/ pc # "failed"
    <3>1. ASSUME pc = "failed", node = 1 PROVE FALSE
      <4>1. PICK j \in 1 .. Len(nodes) : j < node
        BY <2>3, <3>1, Zenon DEF LedgerOK
      <4> QED
        BY <3>1, <4>1
    <3> QED
      BY <3>1
  <2>7. ASSUME pc = "failed", error.kind = "Psci", error.cpu = Node,
               node \in 1 .. Len(nodes), Node # Primary
        PROVE  (hw'[Node] # "off") = (hw[Node] # "off")
    <3>1. Node \in Mpidrs
      BY <2>7, Zenon DEF AreasOK, Node
    <3> QED
      BY <2>3, <2>7, <3>1, Zenon DEF Started
  <2>8. FailureOK'
    BY <2>2, <2>3, <2>6, <2>7, Zenon DEF FailureOK
  <2> QED
    BY <2>5, <2>8
<1> QED
  BY <1>2, <1>3, <1>4, <1>5, <1>6, <1>7, Zenon DEF Next, PrimaryStep

\* On a machine with no more CPUs than bits, the number the primary is about
\* to give out, or waits for, has a bit of its own.
LEMMA OwnBit ==
    ASSUME StartInv, LedgerOK, Counted, pc \in {"on", "wait"}
    PROVE  next_idx \in Nat /\ Bit(next_idx) = next_idx
<1>t. node \in Nat \ {0} /\ next_idx \in Nat \ {0} /\ Len(nodes) \in Nat /\ Width \in Nat \ {0}
  BY SmpAssumption DEF StartInv, TypeOK, PrimaryTypes
<1>1. node \in 1 .. Len(nodes) /\ Node # Primary
  BY <1>t, SMTT(60) DEF StartInv, SlotReady
<1>2. next_idx <= node
  BY Zenon DEF LedgerOK
<1>3. next_idx < Width
  <2>1. CASE Len(nodes) < Width
    BY <1>t, <1>1, <1>2, <2>1
  <2>2. CASE Len(nodes) = Width /\ \E j \in 1 .. Len(nodes) : Affinity(nodes[j]) = Affinity(PrimaryReg)
    <3>1. PICK j \in 1 .. Len(nodes) : Mpidr(nodes[j]) = Primary
      BY <2>2, Zenon DEF Affinity, Mpidr, Primary
    <3>2. j # node
      BY <1>1, <3>1, Zenon DEF Node
    <3>3. CASE j < node
      <4>1. next_idx < node
        BY <3>1, <3>3, Zenon DEF LedgerOK
      <4> QED
        BY <1>t, <1>1, <2>2, <4>1
    <3>4. CASE j > node
      BY <1>t, <1>1, <1>2, <2>2, <3>1, <3>4
    <3> QED
      BY <1>t, <3>1, <3>2, <3>3, <3>4
  <2> QED
    BY <2>1, <2>2, Zenon DEF Counted
<1> QED
  BY <1>t, <1>3, SMT DEF Bit

\* On such a machine every step keeps starts serial and bits own.
LEMMA SerialStep ==
    ASSUME IInv, Next
    PROVE  OneAtATime' /\ BitsOK'
<1> USE DEF IInv, StartInv
<1>t. /\ hw \in [Mpidrs -> InFlight \cup {"boot", "off", "parked"}]
      /\ node \in Nat \ {0} /\ next_idx \in Nat \ {0} /\ Len(nodes) \in Nat
      /\ online \subseteq Nat
  BY DEF TypeOK, PrimaryTypes, SecondaryTypes
<1>n. UNCHANGED nodes
  BY Zenon DEF Next, PrimaryStep, PercpuInit, DisableTtbr0, FromFdt, PrimaryOnline, Prepare, AllUp,
         ReclaimTrampoline, NoPsci, TooManyCpus, OutOfMemory, CpuOnError, Fail, SkipPrimary, CpuOn,
         WaitFor, AtSecondary, SecondaryStep, At, Enter, High, LogLock, LogUnlock, MarkOnline,
         primaryVars
<1> SUFFICES ASSUME Counted
             PROVE  /\ \A m \in Mpidrs : hw'[m] \in InFlight => pc' = "wait" /\ m = Node'
                    /\ \A b \in online' : \/ b < next_idx'
                                          \/ b = next_idx' /\ pc' = "wait" /\ hw'[Node'] = "parked"
  BY <1>n, Zenon DEF OneAtATime, BitsOK, Counted
<1>s. \A m \in Mpidrs : hw[m] \in InFlight => pc = "wait" /\ m = Node
  BY Zenon DEF OneAtATime
<1>b. \A b \in online : b < next_idx \/ (b = next_idx /\ pc = "wait" /\ hw[Node] = "parked")
  BY Zenon DEF BitsOK
<1>1. CASE PercpuInit \/ DisableTtbr0 \/ FromFdt \/ Prepare \/ AllUp \/ ReclaimTrampoline
           \/ NoPsci \/ TooManyCpus \/ OutOfMemory \/ CpuOnError \/ SkipPrimary
  <2>1. UNCHANGED <<next_idx, hw, online>> /\ pc # "wait"
    BY <1>1, Zenon DEF PercpuInit, DisableTtbr0, FromFdt, Prepare, AtSecondary, AllUp, ReclaimTrampoline,
           NoPsci, TooManyCpus, OutOfMemory, CpuOnError, Fail, SkipPrimary, secondaryVars
  <2> QED
    BY <1>s, <1>b, <2>1, Zenon
<1>2. CASE PrimaryOnline
  <2>1. UNCHANGED <<next_idx, hw>> /\ online' = online \cup {Bit(0)} /\ pc = "init"
    BY <1>2, Zenon DEF PrimaryOnline
  <2>2. Bit(0) < next_idx
    BY <1>t, SmpAssumption, SMT DEF Bit
  <2> QED
    BY <1>s, <1>b, <2>1, <2>2, Zenon
<1>3. CASE CpuOn
  <2>1. /\ pc = "on" /\ pc' = "wait" /\ UNCHANGED <<node, next_idx, online>>
        /\ hw' = [hw EXCEPT ![Node] = "entry"]
    BY <1>3 DEF CpuOn
  <2>2. Node' = Node
    BY <1>n, <2>1 DEF Node
  <2>3. \A m \in Mpidrs : m # Node => hw'[m] = hw[m]
    BY <1>t, <2>1
  <2> QED
    BY <1>s, <1>b, <2>1, <2>2, <2>3, Zenon
<1>4. CASE WaitFor
  <2>1. /\ pc = "wait" /\ UNCHANGED <<hw, online>>
        /\ next_idx' = next_idx + 1 /\ Bit(next_idx) \in online
    BY <1>4, Zenon DEF WaitFor
  <2>2. next_idx \in online /\ ~ next_idx < next_idx
    BY <1>t, <2>1, OwnBit
  <2>3. hw[Node] = "parked"
    BY <1>b, <2>2, Zenon
  <2>4. \A m \in Mpidrs : hw[m] \notin InFlight
    BY <1>s, <2>3, Zenon DEF InFlight
  <2>5. \A b \in online : b < next_idx'
    BY <1>t, <1>b, <2>1
  <2> QED
    BY <2>1, <2>4, <2>5, Zenon
<1>5. CASE \E m \in Mpidrs : SecondaryStep(m)
  <2>1. PICK m \in Mpidrs : SecondaryStep(m)
    BY <1>5
  <2>2. /\ hw[m] \in InFlight /\ hw' = [hw EXCEPT ![m] = hw'[m]]
        /\ UNCHANGED <<pc, node, next_idx>>
        /\ \/ online' = online
           \/ hw'[m] = "parked" /\ online' = online \cup {Bit(cpuData[CpuData(tpidr[m])].id)} /\ hw[m] = "mark"
    BY <1>t, <2>1, Zenon DEF SecondaryStep, At, Enter, High, LogLock, LogUnlock, MarkOnline,
           primaryVars
  <2>3. Node' = Node /\ pc = "wait" /\ m = Node
    BY <1>n, <1>s, <2>2, Zenon DEF Node
  <2>4. \A n \in Mpidrs : n # m => hw'[n] = hw[n]
    BY <1>t, <2>2, Zenon
  <2>5. \A n \in Mpidrs : hw'[n] \in InFlight => n = Node
    BY <1>s, <2>3, <2>4, Zenon
  <2>6. \A b \in online : b < next_idx
    BY <1>b, <2>2, <2>3, Zenon DEF InFlight
  <2>7. CASE online' = online
    BY <2>2, <2>3, <2>5, <2>6, <2>7, Zenon
  <2>8. CASE hw'[m] = "parked" /\ online' = online \cup {Bit(cpuData[CpuData(tpidr[m])].id)} /\ hw[m] = "mark"
    <3>1. m \in Started /\ m \in Running
      BY <2>1, <2>8, Zenon DEF ContextOK, Started, Running
    <3>2. NumberOK(m) /\ SlotOK(m) /\ TakenOK(m)
      BY <3>1, Zenon DEF ContextOK
    <3>3. cpuData[CpuData(tpidr[m])] = [id |-> ctx[m], mpidr |-> m] /\ ctx[m] = next_idx
      BY <2>3, <3>1, <3>2, Zenon DEF NumberOK, SlotOK, TakenOK
    <3>4. cpuData[CpuData(tpidr[m])].id = next_idx
      BY <3>3, BlockFields, Zenon
    <3>5. Bit(next_idx) = next_idx
      BY <2>3, OwnBit
    <3>6. online' = online \cup {next_idx}
      BY <2>8, <3>4, <3>5, Zenon
    <3> QED
      BY <2>2, <2>3, <2>5, <2>6, <2>8, <3>6, Zenon
  <2> QED
    BY <2>2, <2>7, <2>8
<1> QED
  BY <1>1, <1>2, <1>3, <1>4, <1>5, Zenon DEF Next, PrimaryStep

\* The whole invariant.
THEOREM Invariance == Spec => []IInv
<1>1. Init => LedgerOK /\ FailureOK /\ OneAtATime /\ BitsOK
  <2> SUFFICES ASSUME Init PROVE LedgerOK /\ FailureOK /\ OneAtATime /\ BitsOK
    OBVIOUS
  <2>1. /\ pc = "percpu" /\ online = {} /\ node = 1 /\ next_idx = 1
        /\ \A m \in Mpidrs : hw[m] = IF m = Primary THEN "boot" ELSE "off"
    BY Zenon DEF Init
  <2>2. Started = {} /\ \A m \in Mpidrs : hw[m] \notin InFlight
    BY <2>1 DEF Started, InFlight
  <2>3. next_idx <= node /\ (\A c \in Ids \ {0} : ~ c < next_idx) /\ \A j \in 1 .. Len(nodes) : ~ j < node
    BY <2>1, SmpAssumption, SMTT(60) DEF Ids
  <2> QED
    BY <2>1, <2>2, <2>3, Zenon DEF LedgerOK, FailureOK, OneAtATime, BitsOK
<1>2. IInv /\ StartInv' /\ [Next]_vars => IInv'
  <2> SUFFICES ASSUME IInv, StartInv', [Next]_vars PROVE IInv'
    OBVIOUS
  <2>1. CASE Next
    <3>1. StartInv /\ LedgerOK /\ FailureOK
      BY DEF IInv
    <3> QED
      BY <2>1, <3>1, LedgerStep, SerialStep DEF IInv
  <2>2. CASE UNCHANGED vars
    <3>1. UNCHANGED <<nodes, error, pc, node, next_idx, ctx, online, hw>>
      BY <2>2, Zenon DEF vars, primaryVars
    <3>2. Node' = Node /\ Started' = Started /\ Counted' = Counted
      BY <3>1, Zenon DEF Node, Started, Counted
    <3> QED
      BY <3>1, <3>2, Zenon DEF IInv, LedgerOK, FailureOK, OneAtATime, BitsOK
  <2> QED
    BY <2>1, <2>2
<1>3. Init => IInv
  BY <1>1, InitStartInv DEF IInv
<1> QED
  BY StartInvariance, <1>2, <1>3, PTL DEF Spec

\* On a machine with no more CPUs than CPU_ONLINE has bits, every CPU listed
\* before the primary's node that is not its own is online, unless the primary
\* waits.
LEMMA BeforeIsOnline ==
    ASSUME IInv, Counted, pc # "wait", NEW m \in Started
    PROVE  hw[m] = "parked"
<1>1. hw[m] \in InFlight \cup {"boot", "off", "parked"} /\ m \in Mpidrs /\ m # Primary /\ hw[m] # "off"
  BY DEF IInv, StartInv, TypeOK, SecondaryTypes, Started
<1>2. hw[m] \notin InFlight
  BY <1>1, Zenon DEF IInv, OneAtATime
<1>3. hw[m] # "boot"
  BY <1>1, Zenon DEF IInv, LedgerOK
<1> QED
  BY <1>1, <1>2, <1>3

\* bring_up_all returns Ok only when every CPU the device tree lists has
\* called mark_online (smp.rs:194), on every machine with no more CPUs than
\* CPU_ONLINE has bits, whatever MAX_CPUS is.
THEOREM UpIsComplete == Spec => []UpMeansAllOnline
<1>1. IInv => UpMeansAllOnline
  <2> SUFFICES ASSUME IInv, Counted, pc \in {"up", "done"}, NEW j \in 1 .. Len(nodes),
                      Mpidr(nodes[j]) # Primary
               PROVE  hw[Mpidr(nodes[j])] = "parked"
    BY Zenon DEF UpMeansAllOnline, ReturnsOnceOnline, Requested, Affinity, Mpidr, Primary
  <2>1. j < node
    <3>1. node > Len(nodes)
      BY DEF IInv, LedgerOK
    <3>2. node \in Nat /\ Len(nodes) \in Nat
      BY DEF IInv, StartInv, TypeOK, PrimaryTypes
    <3> QED
      BY <3>1, <3>2
  <2>2. Mpidr(nodes[j]) \in Started
    BY <2>1, Zenon DEF IInv, LedgerOK
  <2> QED
    BY <2>2, BeforeIsOnline, Zenon
<1> QED
  BY Invariance, <1>1, PTL

\* On such a machine two secondaries are never in the trampoline or its Rust
\* half together, nor does the primary go on while one is.
THEOREM StartsAreSerial == Spec => []OneAtATime
<1>1. IInv => OneAtATime
  BY DEF IInv
<1> QED
  BY Invariance, <1>1, PTL

\* Bring-up that stops half way has started the CPUs listed before the one at
\* fault and no other, and reports that CPU with the true reason.
THEOREM FailuresArePrecise == Spec => []FailureIsPrecise
<1>1. IInv => FailureIsPrecise
  <2> SUFFICES ASSUME IInv, pc = "failed" PROVE FailureIsPrecise
    BY Zenon DEF FailureIsPrecise
  <2> USE DEF IInv, StartInv
  <2>t. /\ hw \in [Mpidrs -> InFlight \cup {"boot", "off", "parked"}]
        /\ node \in Nat \ {0} /\ next_idx \in Nat \ {0} /\ Len(nodes) \in Nat
    BY DEF TypeOK, PrimaryTypes, SecondaryTypes
  <2>a. \A raw : Affinity(raw) = Mpidr(raw)
    BY DEF Affinity, Mpidr
  <2>1. ASSUME NEW m \in Mpidrs \ {Primary}
        PROVE  /\ (hw[m] # "off") = \E j \in 1 .. Len(nodes) : j < node /\ Affinity(nodes[j]) = m
               /\ Counted /\ (\E j \in 1 .. Len(nodes) : j < node /\ Affinity(nodes[j]) = m)
                    => hw[m] = "parked"
    <3>1. ASSUME \E j \in 1 .. Len(nodes) : j < node /\ Mpidr(nodes[j]) = m
          PROVE  m \in Started /\ hw[m] # "off" /\ (Counted => hw[m] = "parked")
      <4>1. m \in Started
        BY <3>1, Zenon DEF LedgerOK
      <4> QED
        BY <4>1, BeforeIsOnline, Zenon DEF Started
    <3>2. ASSUME ~ \E j \in 1 .. Len(nodes) : j < node /\ Mpidr(nodes[j]) = m
          PROVE  hw[m] = "off"
      <4>1. m \notin Started
        BY <3>2, Zenon DEF LedgerOK
      <4> QED
        BY <4>1, Zenon DEF Started
    <3> QED
      BY <2>a, <3>1, <3>2, Zenon
  <2>3. ASSUME error.kind = "Psci"
        PROVE  /\ error.cpu \in Requested
               /\ (error.why.name = "AlreadyOn") = (hw[error.cpu] # "off")
    <3>1. /\ error.cpu = Node /\ node \in 1 .. Len(nodes) /\ Node # Primary
          /\ (error.why.name = "AlreadyOn") = (hw[Node] # "off")
      BY <2>3, Zenon DEF FailureOK
    <3>2. Node \in Requested
      BY <2>a, <3>1, Zenon DEF Requested, Node, Primary
    <3> QED
      BY <3>1, <3>2, Zenon
  <2>4. ASSUME error.kind = "TooManyCpus"
        PROVE  \A c \in Ids \ {0} : \E m \in Started : ctx[m] = c
    <3>1. next_idx >= MaxCpus
      BY <2>4, Zenon DEF FailureOK
    <3>2. \A c \in Ids \ {0} : c < next_idx
      BY <2>t, <3>1, SmpAssumption DEF Ids
    <3> QED
      BY <3>2, Zenon DEF LedgerOK
  <2>5. ASSUME error.kind = "NoPsci" PROVE Started = {} /\ online = {}
    <3>1. node = 1 /\ online = {}
      BY <2>5, Zenon DEF FailureOK
    <3>2. \A j \in 1 .. Len(nodes) : ~ j < node
      BY <2>t, <3>1
    <3>3. \A m : m \notin Started
      BY <3>2, Zenon DEF LedgerOK
    <3> QED
      BY <3>1, <3>3, Zenon
  <2> QED
    BY <2>1, <2>3, <2>4, <2>5, Zenon DEF FailureIsPrecise
<1> QED
  BY Invariance, <1>1, PTL

-----------------------------------------------------------------------------
(* SpinLock.                                                               *)

\* A new lock is free and its data has no history.
LEMMA LockInitInv == LockInit => LockInv
<1> SUFFICES ASSUME LockInit PROVE LockInv
  OBVIOUS
<1>1. writes \in Seq(Nat) /\ Len(writes) = 0
  BY DEF LockInit
<1>2. Critical = {}
  BY DEF LockInit, Critical
<1>3. LockTypeOK
  <2>1. 0 \in 0 .. Len(writes)
    BY <1>1
  <2>2. locked \in BOOLEAN
    BY Zenon DEF LockInit
  <2>3. QED
    BY <1>1, <2>1, <2>2, Zenon DEF LockInit, LockTypeOK
<1>4. NoLostUpdates
  BY <1>1 DEF NoLostUpdates
<1>5. \A c \in Cpus : at[c] # "write"
  BY Zenon DEF LockInit
<1>6. locked <=> Critical # {}
  BY <1>2 DEF LockInit
<1>7. QED
  BY <1>1, <1>2, <1>3, <1>4, <1>5, <1>6 DEF LockInit, LockInv, MutualExclusion

\* Whoever is bound to see the whole history reads the last write.
LEMMA HolderReadsLast ==
    ASSUME LockInv, NEW c \in Critical, NEW n \in view[c] .. Len(writes)
    PROVE  Data(n) = Len(writes)
<1>1. writes \in Seq(Nat) /\ Len(writes) \in Nat /\ view[c] = Len(writes)
  BY DEF LockInv, LockTypeOK
<1>2. n = Len(writes)
  BY <1>1
<1>3. QED
  BY <1>1, <1>2 DEF LockInv, NoLostUpdates, Data

\* The call only makes the caller a waiter.
LEMMA LockCallInv ==
    ASSUME LockInv, NEW c \in Cpus, Lock(c)
    PROVE  LockInv'
<1>1. Critical' = Critical
  BY Zenon DEF Lock, Critical, LockInv, LockTypeOK, Joined
<1>2. QED
  BY <1>1, Zenon DEF Lock, LockInv, LockTypeOK, MutualExclusion, NoLostUpdates, Joined

\* The view a CPU holds after an Acquire is still a position in the history.
LEMMA JoinedView ==
    ASSUME LockInv, NEW c \in Cpus
    PROVE  /\ MaxOf(view[c], lockView) \in 0 .. Len(writes)
           /\ ~locked => MaxOf(view[c], lockView) = Len(writes)
<1>1. view[c] \in 0 .. Len(writes) /\ lockView \in 0 .. Len(writes)
      /\ Len(writes) \in Nat /\ (~locked => lockView = Len(writes))
  BY DEF LockInv, LockTypeOK
<1>2. QED
  BY <1>1 DEF MaxOf

\* The CPU whose swap returned false becomes the only holder, and sees all.
LEMMA AcquireInv ==
    ASSUME LockInv, NEW c \in Cpus, Acquire(c)
    PROVE  LockInv'
<1>1. /\ at[c] = "spin" /\ ~locked /\ locked' = TRUE
      /\ view' = [view EXCEPT ![c] = MaxOf(view[c], lockView)]
      /\ at' = [at EXCEPT ![c] = "read"]
      /\ lockView' = lockView /\ writes' = writes /\ tmp' = tmp
  BY DEF Acquire, Joined
<1>2. Critical = {}
  BY <1>1, Zenon DEF LockInv
<1>3. Critical' = {c}
  BY <1>1, <1>2, Zenon DEF Critical, LockInv, LockTypeOK
<1>4. /\ view' \in [Cpus -> 0 .. Len(writes)] /\ view'[c] = Len(writes)
  BY <1>1, JoinedView, Zenon DEF LockInv, LockTypeOK
<1>5. LockTypeOK'
  BY <1>1, <1>4, Zenon DEF LockInv, LockTypeOK
<1>6. QED
  BY <1>1, <1>3, <1>4, <1>5, Zenon DEF LockInv, MutualExclusion, NoLostUpdates, LockTypeOK

\* A failed swap changes nothing but the waiter's view.
LEMMA LockSpinInv ==
    ASSUME LockInv, NEW c \in Cpus, LockSpin(c)
    PROVE  LockInv'
<1>1. /\ at[c] = "spin" /\ locked /\ locked' = locked
      /\ view' = [view EXCEPT ![c] = MaxOf(view[c], lockView)]
      /\ lockView' = lockView /\ writes' = writes /\ tmp' = tmp /\ at' = at
  BY DEF LockSpin, LockInv, LockTypeOK, Joined
<1>2. Critical' = Critical /\ c \notin Critical
  BY <1>1 DEF Critical
<1>3. view' \in [Cpus -> 0 .. Len(writes)] /\ \A d \in Critical : view'[d] = view[d]
  BY <1>1, <1>2, JoinedView DEF LockInv, LockTypeOK
<1>4. QED
  BY <1>1, <1>2, <1>3, Zenon DEF LockInv, LockTypeOK, MutualExclusion, NoLostUpdates

\* The holder reads the last write.
LEMMA DerefInv ==
    ASSUME LockInv, NEW c \in Cpus, Deref(c)
    PROVE  LockInv'
<1>1. PICK n \in view[c] .. Len(writes) :
         /\ at[c] = "read"
         /\ tmp' = [tmp EXCEPT ![c] = Data(n)]
         /\ at' = [at EXCEPT ![c] = "write"]
         /\ UNCHANGED <<locked, lockView, writes, view>>
  BY Zenon DEF Deref, Joined
<1>2. c \in Critical /\ Critical' = Critical
  BY <1>1, Zenon DEF Critical, LockInv, LockTypeOK
<1>3. Data(n) = Len(writes) /\ Len(writes) \in Nat
  BY <1>2, HolderReadsLast DEF LockInv, LockTypeOK
<1>4. QED
  BY <1>1, <1>2, <1>3, SMTT(60) DEF LockInv, LockTypeOK, MutualExclusion, NoLostUpdates, Critical

\* The holder's write is one more than the last, and it sees its own write.
LEMMA DerefMutInv ==
    ASSUME LockInv, NEW c \in Cpus, DerefMut(c)
    PROVE  LockInv'
<1>1. /\ at[c] = "write"
      /\ writes' = Append(writes, tmp[c] + 1)
      /\ view' = [view EXCEPT ![c] = Len(writes) + 1]
      /\ at' = [at EXCEPT ![c] = "drop"]
      /\ locked' = locked /\ lockView' = lockView /\ tmp' = tmp
  BY DEF DerefMut, Joined
<1>2. c \in Critical /\ Critical' = Critical
  BY <1>1, Zenon DEF Critical, LockInv, LockTypeOK
<1>3. /\ writes \in Seq(Nat) /\ Len(writes) \in Nat /\ tmp[c] = Len(writes)
      /\ locked /\ Critical = {c}
  BY <1>1, <1>2, Zenon DEF LockInv, LockTypeOK, MutualExclusion
<1>4. /\ writes' \in Seq(Nat) /\ Len(writes') = Len(writes) + 1
      /\ writes'[Len(writes) + 1] = Len(writes) + 1
      /\ \A n \in 1 .. Len(writes) : writes'[n] = writes[n]
  BY <1>1, <1>3
<1>5. NoLostUpdates'
  BY <1>3, <1>4, SMTT(60) DEF LockInv, NoLostUpdates
<1>6. /\ view' \in [Cpus -> 0 .. Len(writes')] /\ view'[c] = Len(writes')
      /\ lockView' \in 0 .. Len(writes')
  <2>1. view \in [Cpus -> 0 .. Len(writes)] /\ lockView \in 0 .. Len(writes)
    BY DEF LockInv, LockTypeOK
  <2>2. QED
    BY <2>1, <1>1, <1>3, <1>4
<1>7. LockTypeOK'
  BY <1>1, <1>4, <1>6, Zenon DEF LockInv, LockTypeOK
<1>8. \A d \in Cpus : at'[d] # "write"
  BY <1>1, <1>3, Zenon DEF Critical, LockInv, LockTypeOK
<1>9. QED
  BY <1>1, <1>2, <1>3, <1>5, <1>6, <1>7, <1>8, Zenon DEF LockInv, MutualExclusion

\* The Release store hands the complete view to the next holder.
LEMMA DropInv ==
    ASSUME LockInv, NEW c \in Cpus, Drop(c)
    PROVE  LockInv'
<1>1. /\ at[c] = "drop" /\ locked' = FALSE /\ lockView' = view[c]
      /\ at' = [at EXCEPT ![c] = "out"]
      /\ writes' = writes /\ view' = view /\ tmp' = tmp
  BY Zenon DEF Drop, Joined
<1>2. c \in Critical /\ view[c] = Len(writes)
  BY <1>1, Zenon DEF Critical, LockInv
<1>3. Critical = {c}
  BY <1>2, Zenon DEF LockInv, MutualExclusion
<1>4. Critical' = {}
  BY <1>1, <1>3, Zenon DEF Critical, LockInv, LockTypeOK
<1>5. LockTypeOK'
  BY <1>1, <1>2, Zenon DEF LockInv, LockTypeOK
<1>6. QED
  BY <1>1, <1>2, <1>4, <1>5, Zenon DEF LockInv, MutualExclusion, NoLostUpdates, LockTypeOK

\* The lock's invariant holds in every reachable state, whatever the number of
\* CPUs and of critical sections.
THEOREM LockInvariance == LockSpec => []LockInv
<1>1. LockInit => LockInv
  BY LockInitInv
<1>2. LockInv /\ [LockNext]_lockVars => LockInv'
  <2> SUFFICES ASSUME LockInv, [LockNext]_lockVars PROVE LockInv'
    OBVIOUS
  <2>1. CASE UNCHANGED lockVars
    BY <2>1, Zenon DEF lockVars, LockInv, LockTypeOK, MutualExclusion, NoLostUpdates, Critical
  <2>2. CASE LockNext
    BY <2>2, LockCallInv, AcquireInv, LockSpinInv, DerefInv, DerefMutInv, DropInv, Zenon
       DEF LockNext, Step
  <2>3. QED
    BY <2>1, <2>2
<1>3. QED
  BY <1>1, <1>2, PTL DEF LockSpec

\* lock() never returns a second guard while one is alive.
THEOREM Exclusive == LockSpec => []MutualExclusion
<1>1. LockInv => MutualExclusion
  BY Zenon DEF LockInv
<1>2. QED
  BY <1>1, LockInvariance, PTL

\* The Acquire of the swap and the Release of the drop are enough: each
\* critical section sees the data as the previous one left it.
THEOREM UpdatesAreKept == LockSpec => []NoLostUpdates
<1>1. LockInv => NoLostUpdates
  BY Zenon DEF LockInv
<1>2. QED
  BY <1>1, LockInvariance, PTL

-----------------------------------------------------------------------------
(* Once.                                                                   *)

USE ValuesAssumption DEF UNINIT, RUNNING, READY

\* The elements of a sequence.
LEMMA SeqElement ==
    ASSUME NEW S, NEW s \in Seq(S), NEW i \in 1 .. Len(s)
    PROVE  s[i] \in S
OBVIOUS

\* A new cell is UNINIT and nobody is in a call.
LEMMA InitIInv == OnceInit => OnceInv
<1> SUFFICES ASSUME OnceInit PROVE OnceInv
  OBVIOUS
<1>1. values \in Seq(Cpus) /\ Len(values) = 0 /\ 0 \in 0 .. Len(values)
  BY DEF OnceInit
<1>2. Initialising = {}
  BY DEF OnceInit, Initialising
<1>3. OnceTypeOK
  BY <1>1, Zenon DEF OnceInit, OnceTypeOK
<1>4. QED
  BY <1>1, <1>2, <1>3 DEF OnceInit, OnceInv

\* An Acquire load leaves the CPU bound to see the value if it returned READY.
LEMMA LoadFacts ==
    ASSUME OnceInv, NEW c \in Cpus, NEW t \in {UNINIT, RUNNING, READY}, AcquireLoad(c, t)
    PROVE  /\ seen' = [seen EXCEPT ![c] = t] /\ seen[c] <= t /\ t <= state
           /\ bound' \in [Cpus -> 0 .. Len(values)]
           /\ \A d \in Cpus : d # c => bound'[d] = bound[d]
           /\ bound[c] = 1 => bound'[c] = 1
           /\ t = READY => bound'[c] = 1
<1>1. /\ t \in seen[c] .. state
      /\ seen' = [seen EXCEPT ![c] = t]
      /\ bound' = [bound EXCEPT ![c] = MaxOf(bound[c], msgView[t])]
  BY Zenon DEF AcquireLoad, Joined
<1>2. /\ bound[c] \in 0 .. Len(values) /\ msgView[t] \in 0 .. Len(values)
      /\ Len(values) \in Nat /\ bound \in [Cpus -> 0 .. Len(values)]
      /\ state \in {UNINIT, RUNNING, READY} /\ seen[c] \in {UNINIT, RUNNING, READY}
  BY SMTT(60) DEF OnceInv, OnceTypeOK
<1>3. Len(values) <= 1
  <2>1. state = UNINIT => Len(values) = 0
    BY Zenon DEF OnceInv
  <2>2. state = RUNNING => Len(values) \in {0, 1}
    BY Zenon DEF OnceInv
  <2>3. state = READY => Len(values) = 1
    BY Zenon DEF OnceInv
  <2>4. Len(values) \in {0, 1}
    BY <2>1, <2>2, <2>3, <1>2, Zenon
  <2>5. \A n \in Nat : n \in {0, 1} => n <= 1
    OBVIOUS
  <2>6. QED
    BY <2>4, <2>5, <1>2, Zenon
<1>4. t = READY => state = READY /\ msgView[t] = 1
  <2>1. t = READY => state = READY
    BY <1>1, <1>2
  <2>2. QED
    BY <2>1, Zenon DEF OnceInv
<1>5. MaxOf(bound[c], msgView[t]) \in 0 .. Len(values)
  BY <1>2, Zenon DEF MaxOf
<1>6. (bound[c] = 1 => MaxOf(bound[c], msgView[t]) = 1)
      /\ (msgView[t] = 1 => MaxOf(bound[c], msgView[t]) = 1)
  BY <1>2, <1>3, SMTT(60) DEF MaxOf
<1>7. QED
  BY <1>1, <1>2, <1>4, <1>5, <1>6, SMTT(60)

\* A load that only changes seen and view, and a jump between places outside
\* the initialising branch, keep the invariant.
LEMMA LoadIInv ==
    ASSUME OnceInv, NEW c \in Cpus, NEW t \in {UNINIT, RUNNING, READY}, AcquireLoad(c, t),
           UNCHANGED <<state, msgView, values, runs>>,
           NEW to \in {"out", "cas", "spin", "read"}, phase' = [phase EXCEPT ![c] = to],
           c \notin Initialising, to = "read" => t = READY,
           \/ got' = got
           \/ got' = [got EXCEPT ![c] = None]
    PROVE  OnceInv'
<1>1. /\ seen' = [seen EXCEPT ![c] = t] /\ seen[c] <= t /\ t <= state
      /\ bound' \in [Cpus -> 0 .. Len(values)]
      /\ \A d \in Cpus : d # c => bound'[d] = bound[d]
      /\ bound[c] = 1 => bound'[c] = 1
      /\ t = READY => bound'[c] = 1
  BY LoadFacts, Zenon
<1>2. OnceTypeOK'
  BY <1>1, Zenon DEF OnceInv, OnceTypeOK
<1>3. /\ Initialising' = Initialising
      /\ \A d \in Cpus, x \in {"init", "publish"} : phase'[d] = x <=> phase[d] = x
  BY Zenon DEF OnceInv, OnceTypeOK, Initialising
<1>4. \A d \in Cpus : seen'[d] <= state'
  BY <1>1, Zenon DEF OnceInv, OnceTypeOK
<1>5. \A d \in Cpus : phase'[d] = "publish" \/ seen'[d] = READY => bound'[d] = 1
  <2>1. ASSUME NEW d \in Cpus, d # c, phase'[d] = "publish" \/ seen'[d] = READY
        PROVE  bound'[d] = 1
    BY <2>1, <1>1, <1>3, SMTT(60) DEF OnceInv, OnceTypeOK
  <2>2. phase'[c] = "publish" \/ seen'[c] = READY => bound'[c] = 1
    BY <1>1, Zenon DEF OnceInv, OnceTypeOK
  <2>3. QED
    BY <2>1, <2>2, Zenon
<1>6. \A d \in Cpus : phase'[d] = "read" \/ got'[d] # None => seen'[d] = READY
  <2>1. ASSUME NEW d \in Cpus, d # c, phase'[d] = "read" \/ got'[d] # None
        PROVE  seen'[d] = READY
    BY <2>1, <1>1, Zenon DEF OnceInv, OnceTypeOK
  <2>2. ASSUME phase'[c] = "read" \/ got'[c] # None PROVE seen'[c] = READY
    <3>1. CASE phase'[c] = "read"
      BY <3>1, <1>1, Zenon DEF OnceInv, OnceTypeOK
    <3>2. CASE got'[c] # None
      <4>1. got[c] # None
        BY <3>2, Zenon DEF OnceInv, OnceTypeOK
      <4>2. seen[c] = READY
        BY <4>1, Zenon DEF OnceInv
      <4>3. QED
        BY <4>2, <1>1, SMTT(60) DEF OnceInv, OnceTypeOK
    <3>3. QED
      BY <2>2, <3>1, <3>2, Zenon
  <2>3. QED
    BY <2>1, <2>2, Zenon
<1>7. \A d \in Cpus : got'[d] # None => got'[d] = values'[1]
  BY Zenon DEF OnceInv, OnceTypeOK
<1>8. (\E d \in Cpus : phase'[d] = "init") <=> (\E d \in Cpus : phase[d] = "init")
  BY <1>3
<1>9. (\E d \in Cpus : phase'[d] = "publish") <=> (\E d \in Cpus : phase[d] = "publish")
  BY <1>3
<1>10. /\ state' = UNINIT => Initialising' = {} /\ runs' = 0 /\ Len(values') = 0
       /\ state' = READY => /\ Initialising' = {} /\ runs' = 1
                            /\ Len(values') = 1 /\ msgView'[READY] = 1
  BY <1>3, Zenon DEF OnceInv
<1>11. state' = RUNNING =>
          /\ \E d \in Initialising' : Initialising' = {d}
          /\ runs' = IF \E d \in Cpus : phase'[d] = "init" THEN 0 ELSE 1
          /\ Len(values') = IF \E d \in Cpus : phase'[d] = "publish" THEN 1 ELSE 0
  BY <1>3, <1>8, <1>9, Zenon DEF OnceInv
<1>12. QED
  BY <1>2, <1>4, <1>5, <1>6, <1>7, <1>10, <1>11, Zenon DEF OnceInv

\* Entering call_once.
LEMMA CallIInv ==
    ASSUME OnceInv, NEW c \in Cpus, Call(c)
    PROVE  OnceInv'
<1>1. /\ phase[c] = "out" /\ phase' = [phase EXCEPT ![c] = "cas"]
      /\ UNCHANGED <<state, msgView, seen, values, bound, runs, got>>
  BY Zenon DEF Call
<1>2. /\ Initialising' = Initialising
      /\ \A d \in Cpus, x \in {"init", "publish", "read"} : phase'[d] = x <=> phase[d] = x
  BY <1>1, Zenon DEF OnceInv, OnceTypeOK, Initialising
<1>3. OnceTypeOK'
  BY <1>1, Zenon DEF OnceInv, OnceTypeOK
<1>4. /\ (\E d \in Cpus : phase'[d] = "init") <=> (\E d \in Cpus : phase[d] = "init")
      /\ (\E d \in Cpus : phase'[d] = "publish") <=> (\E d \in Cpus : phase[d] = "publish")
  BY <1>2, Zenon
<1>5. QED
  BY <1>1, <1>2, <1>3, <1>4, Zenon DEF OnceInv

\* While the cell is UNINIT nobody has seen or read anything.
LEMMA UninitFacts ==
    ASSUME OnceInv, state = UNINIT
    PROVE  /\ values \in Seq(Cpus) /\ Len(values) = 0 /\ runs = 0 /\ Initialising = {}
           /\ \A d \in Cpus : /\ seen[d] = UNINIT /\ bound[d] = 0 /\ got[d] = None
                             /\ phase[d] \in {"out", "cas", "spin"}
           /\ \A s \in {UNINIT, RUNNING, READY} : msgView[s] = 0
<1>1. /\ values \in Seq(Cpus) /\ Len(values) = 0 /\ runs = 0 /\ Initialising = {}
  BY Zenon DEF OnceInv, OnceTypeOK
<1>2. \A d \in Cpus : seen[d] = UNINIT
  BY SMTT(60) DEF OnceInv, OnceTypeOK
<1>3. /\ \A d \in Cpus : bound[d] \in 0 .. 0
      /\ \A s \in {UNINIT, RUNNING, READY} : msgView[s] \in 0 .. 0
  BY <1>1, Zenon DEF OnceInv, OnceTypeOK
<1>4. \A d \in Cpus : got[d] = None /\ phase[d] # "read"
  BY <1>2, Zenon DEF OnceInv
<1>5. \A d \in Cpus : phase[d] \in {"out", "cas", "spin"}
  <2>1. /\ phase \in [Cpus -> {"out", "cas", "init", "write", "publish", "spin", "read"}]
        /\ \A d \in Cpus : phase[d] \notin {"init", "write", "publish"}
    BY <1>1, Zenon DEF OnceInv, OnceTypeOK, Initialising
  <2>2. QED
    BY <2>1, <1>4, Zenon
<1>6. /\ \A d \in Cpus : bound[d] = 0
      /\ \A s \in {UNINIT, RUNNING, READY} : msgView[s] = 0
  BY <1>3, SMT
<1>7. QED
  BY <1>1, <1>2, <1>4, <1>5, <1>6, Zenon

\* The winner of the compare_exchange is alone in the initialising branch.
LEMMA CasWinIInv ==
    ASSUME OnceInv, NEW c \in Cpus, CasWin(c)
    PROVE  OnceInv'
<1>1. /\ phase[c] = "cas" /\ state = UNINIT /\ state' = RUNNING
      /\ seen' = [seen EXCEPT ![c] = RUNNING]
      /\ bound' = [bound EXCEPT ![c] = MaxOf(bound[c], msgView[UNINIT])]
      /\ msgView' = [msgView EXCEPT ![RUNNING] = msgView[UNINIT]]
      /\ phase' = [phase EXCEPT ![c] = "init"]
      /\ values' = values /\ runs' = runs /\ got' = got
  BY Zenon DEF CasWin, Joined
<1>2. /\ values \in Seq(Cpus) /\ Len(values) = 0 /\ runs = 0 /\ Initialising = {}
      /\ \A d \in Cpus : /\ seen[d] = UNINIT /\ bound[d] = 0 /\ got[d] = None
                        /\ phase[d] \in {"out", "cas", "spin"}
      /\ \A s \in {UNINIT, RUNNING, READY} : msgView[s] = 0
  BY <1>1, UninitFacts, Zenon
<1>3. MaxOf(bound[c], msgView[UNINIT]) = 0
  BY <1>2, Zenon DEF MaxOf
<1>4. /\ bound' = bound /\ msgView' = msgView
  BY <1>1, <1>2, <1>3, SMTT(60) DEF OnceInv, OnceTypeOK
<1>5. OnceTypeOK'
  BY <1>1, <1>4, Zenon DEF OnceInv, OnceTypeOK
<1>6. Initialising' = {c} /\ phase'[c] = "init" /\ \A d \in Cpus : phase'[d] \notin {"publish", "read"}
  BY <1>1, <1>2, SMTT(60) DEF OnceInv, OnceTypeOK, Initialising
<1>7. \A d \in Cpus : seen'[d] <= RUNNING
  BY <1>1, <1>2, SMTT(60) DEF OnceInv, OnceTypeOK
<1>8. QED
  BY <1>1, <1>2, <1>5, <1>6, <1>7, SMTT(60) DEF OnceInv

\* Inside the initialising branch the CPU is alone.
LEMMA InitialisingFacts ==
    ASSUME OnceInv, NEW c \in Initialising
    PROVE  /\ state = RUNNING /\ Initialising = {c}
           /\ runs = IF phase[c] = "init" THEN 0 ELSE 1
           /\ Len(values) = IF phase[c] = "publish" THEN 1 ELSE 0
           /\ \A d \in Cpus : /\ seen[d] # READY /\ got[d] = None
                             /\ d # c => phase[d] \in {"out", "cas", "spin"}
<1>1. state = RUNNING
  BY Zenon DEF OnceInv, OnceTypeOK
<1>2. Initialising = {c}
  BY <1>1, Zenon DEF OnceInv
<1>3. \A d \in Cpus : seen[d] # READY /\ got[d] = None /\ phase[d] # "read"
  BY <1>1, SMTT(60) DEF OnceInv, OnceTypeOK
<1>4. \A d \in Cpus : d # c => phase[d] \in {"out", "cas", "spin"}
  BY <1>2, <1>3, SMTT(60) DEF OnceInv, OnceTypeOK, Initialising
<1>5. c \in Cpus
  BY Zenon DEF Initialising
<1>6. /\ (\E d \in Cpus : phase[d] = "init") <=> phase[c] = "init"
      /\ (\E d \in Cpus : phase[d] = "publish") <=> phase[c] = "publish"
  BY <1>4, <1>5, Zenon
<1>7. QED
  BY <1>1, <1>2, <1>3, <1>4, <1>6, Zenon DEF OnceInv

\* The initialiser runs.
LEMMA RunInitIInv ==
    ASSUME OnceInv, NEW c \in Cpus, RunInit(c)
    PROVE  OnceInv'
<1>1. /\ phase[c] = "init" /\ runs' = runs + 1 /\ phase' = [phase EXCEPT ![c] = "write"]
      /\ UNCHANGED <<state, msgView, seen, values, bound, got>>
  BY Zenon DEF RunInit
<1>2. c \in Initialising
  BY <1>1, Zenon DEF Initialising
<1>3. /\ state = RUNNING /\ Initialising = {c} /\ runs = 0 /\ Len(values) = 0
      /\ \A d \in Cpus : /\ seen[d] # READY /\ got[d] = None
                        /\ d # c => phase[d] \in {"out", "cas", "spin"}
  BY <1>1, <1>2, InitialisingFacts, Zenon
<1>4. OnceTypeOK'
  BY <1>1, SMTT(60) DEF OnceInv, OnceTypeOK
<1>5. /\ Initialising' = {c} /\ runs' = 1
      /\ \A d \in Cpus : phase'[d] \notin {"init", "publish", "read"}
  BY <1>1, <1>3, SMTT(60) DEF OnceInv, OnceTypeOK, Initialising
<1>6. QED
  BY <1>1, <1>3, <1>4, <1>5, Zenon DEF OnceInv

\* The value is written, by the only CPU that may.
LEMMA WriteIInv ==
    ASSUME OnceInv, NEW c \in Cpus, Write(c)
    PROVE  OnceInv'
<1>1. /\ phase[c] = "write" /\ values' = Append(values, c)
      /\ bound' = [bound EXCEPT ![c] = Len(values) + 1]
      /\ phase' = [phase EXCEPT ![c] = "publish"]
      /\ UNCHANGED <<state, msgView, seen, runs, got>>
  BY Zenon DEF Write
<1>2. c \in Initialising
  BY <1>1 DEF Initialising
<1>3. /\ state = RUNNING /\ Initialising = {c} /\ runs = 1 /\ Len(values) = 0
      /\ \A d \in Cpus : /\ seen[d] # READY /\ got[d] = None
                        /\ d # c => phase[d] \in {"out", "cas", "spin"}
  BY <1>1, <1>2, InitialisingFacts, Zenon
<1>4. values' \in Seq(Cpus) /\ Len(values') = 1
  <2>1. values \in Seq(Cpus)
    BY Zenon DEF OnceInv, OnceTypeOK
  <2>2. QED
    BY <2>1, <1>1, <1>3, SMTT(60)
<1>5. OnceTypeOK'
  <2>1. /\ bound \in [Cpus -> 0 .. 0] /\ msgView \in [{UNINIT, RUNNING, READY} -> 0 .. 0]
    BY <1>3, Zenon DEF OnceInv, OnceTypeOK
  <2>2. /\ bound' \in [Cpus -> 0 .. 1] /\ msgView' \in [{UNINIT, RUNNING, READY} -> 0 .. 1]
    BY <2>1, <1>1, <1>3, SMTT(60)
  <2>3. QED
    BY <2>2, <1>1, <1>4, Zenon DEF OnceInv, OnceTypeOK
<1>6. /\ Initialising' = {c} /\ phase'[c] = "publish" /\ bound'[c] = 1
      /\ \A d \in Cpus : phase'[d] \notin {"init", "read"} /\ (d # c => phase'[d] # "publish")
  BY <1>1, <1>3, SMTT(60) DEF OnceInv, OnceTypeOK, Initialising
<1>7. QED
  BY <1>1, <1>3, <1>4, <1>5, <1>6, SMTT(60) DEF OnceInv

\* READY carries the value with it.
LEMMA PublishIInv ==
    ASSUME OnceInv, NEW c \in Cpus, Publish(c)
    PROVE  OnceInv'
<1>1. /\ phase[c] = "publish" /\ state' = READY
      /\ seen' = [seen EXCEPT ![c] = READY]
      /\ msgView' = [msgView EXCEPT ![READY] = bound[c]]
      /\ phase' = [phase EXCEPT ![c] = "read"]
      /\ values' = values /\ bound' = bound /\ runs' = runs /\ got' = got
  BY Zenon DEF Publish
<1>2. c \in Initialising /\ bound[c] = 1
  BY <1>1, Zenon DEF Initialising, OnceInv
<1>3. /\ Initialising = {c} /\ runs = 1 /\ Len(values) = 1
      /\ \A d \in Cpus : /\ seen[d] # READY /\ got[d] = None
                        /\ d # c => phase[d] \in {"out", "cas", "spin"}
  BY <1>1, <1>2, InitialisingFacts, Zenon
<1>4. OnceTypeOK'
  BY <1>1, Zenon DEF OnceInv, OnceTypeOK
<1>5. /\ Initialising' = {} /\ msgView'[READY] = 1
      /\ \A d \in Cpus : /\ phase'[d] # "publish"
                        /\ d # c => phase'[d] # "read" /\ seen'[d] # READY
  BY <1>1, <1>2, <1>3, SMTT(60) DEF OnceInv, OnceTypeOK, Initialising
<1>6. seen'[c] = READY /\ \A d \in Cpus : seen'[d] <= READY
  <2>1. \A s \in {UNINIT, RUNNING, READY} : s <= READY
    OBVIOUS
  <2>2. seen'[c] = READY /\ \A d \in Cpus : seen'[d] \in {UNINIT, RUNNING, READY}
    BY <1>1, Zenon DEF OnceInv, OnceTypeOK
  <2>3. QED
    BY <2>1, <2>2, Zenon
<1>7. QED
  BY <1>1, <1>2, <1>3, <1>4, <1>5, <1>6, SMTT(60) DEF OnceInv

\* A CPU that reads has seen READY, so it reads the value that was written.
LEMMA ReadFacts ==
    ASSUME OnceInv, NEW c \in Cpus, Read(c)
    PROVE  /\ got' = [got EXCEPT ![c] = values[1]] /\ values[1] \in Cpus
           /\ phase[c] = "read" /\ seen[c] = READY /\ state = READY
           /\ phase' = [phase EXCEPT ![c] = "out"]
           /\ UNCHANGED <<state, msgView, seen, values, bound, runs>>
<1>1. PICK n \in bound[c] .. Len(values) :
        /\ phase[c] = "read"
        /\ got' = [got EXCEPT ![c] = Content(n)]
        /\ phase' = [phase EXCEPT ![c] = "out"]
        /\ UNCHANGED <<state, msgView, seen, values, bound, runs>>
  BY Zenon DEF Read
<1>2. seen[c] = READY
  BY <1>1, Zenon DEF OnceInv
<1>3. bound[c] = 1 /\ state = READY
  BY <1>2, SMTT(60) DEF OnceInv, OnceTypeOK
<1>4. Len(values) = 1 /\ values \in Seq(Cpus)
  BY <1>3, Zenon DEF OnceInv, OnceTypeOK
<1>5. n = 1 /\ Content(n) = values[1] /\ values[1] \in Cpus
  BY <1>3, <1>4 DEF Content
<1>6. QED
  BY <1>1, <1>2, <1>3, <1>5, Zenon

\* Reading the value keeps the invariant.
LEMMA ReadIInv ==
    ASSUME OnceInv, NEW c \in Cpus, Read(c)
    PROVE  OnceInv'
<1>1. /\ got' = [got EXCEPT ![c] = values[1]] /\ values[1] \in Cpus
      /\ phase[c] = "read" /\ seen[c] = READY /\ state = READY
      /\ phase' = [phase EXCEPT ![c] = "out"]
      /\ UNCHANGED <<state, msgView, seen, values, bound, runs>>
  BY ReadFacts, Zenon
<1>2. OnceTypeOK'
  BY <1>1, Zenon DEF OnceInv, OnceTypeOK
<1>3. /\ Initialising' = {}
      /\ \A d \in Cpus : phase'[d] # "publish" /\ (phase'[d] = "read" => phase[d] = "read")
  BY <1>1, Zenon DEF OnceInv, OnceTypeOK, Initialising
<1>4. \A d \in Cpus : /\ got'[d] # None => got'[d] = values[1]
                      /\ got'[d] # None => seen[d] = READY
  BY <1>1, Zenon DEF OnceInv, OnceTypeOK
<1>5. QED
  BY <1>1, <1>2, <1>3, <1>4, Zenon DEF OnceInv

\* The steps that only load state.
LEMMA LoadSteps ==
    ASSUME OnceInv, NEW c \in Cpus,
           CasLose(c) \/ Spin(c) \/ SpinExit(c) \/ GetNone(c) \/ GetSome(c)
    PROVE  OnceInv'
<1>1. CASE CasLose(c)
  <2>1. PICK t \in {UNINIT, RUNNING, READY} : phase[c] = "cas" /\ AcquireLoad(c, t)
        /\ phase' = [phase EXCEPT ![c] = "spin"] /\ UNCHANGED <<state, msgView, values, runs, got>>
    BY <1>1, Zenon DEF CasLose
  <2>2. QED
    BY <2>1, LoadIInv, Zenon DEF Initialising
<1>2. CASE Spin(c)
  <2>1. PICK t \in {UNINIT, RUNNING, READY} : phase[c] = "spin" /\ AcquireLoad(c, t)
        /\ phase' = phase /\ UNCHANGED <<state, msgView, values, runs, got>>
    BY <1>2, Zenon DEF Spin
  <2>2. phase' = [phase EXCEPT ![c] = "spin"]
    BY <2>1, Zenon DEF OnceInv, OnceTypeOK
  <2>3. QED
    BY <2>1, <2>2, LoadIInv, Zenon DEF Initialising
<1>3. CASE SpinExit(c)
  BY <1>3, LoadIInv, Zenon DEF SpinExit, Initialising
<1>4. CASE GetNone(c)
  <2>1. PICK t \in {UNINIT, RUNNING, READY} : phase[c] = "out" /\ AcquireLoad(c, t)
        /\ phase' = phase /\ got' = [got EXCEPT ![c] = None]
        /\ UNCHANGED <<state, msgView, values, runs>>
    BY <1>4, Zenon DEF GetNone
  <2>2. phase' = [phase EXCEPT ![c] = "out"]
    BY <2>1, Zenon DEF OnceInv, OnceTypeOK
  <2>3. QED
    BY <2>1, <2>2, LoadIInv, Zenon DEF Initialising
<1>5. CASE GetSome(c)
  BY <1>5, LoadIInv, Zenon DEF GetSome, Initialising
<1>6. QED
  BY <1>1, <1>2, <1>3, <1>4, <1>5

\* Every step of call_once and get keeps the invariant.
LEMMA NextIInv == OnceInv /\ [OnceNext]_onceVars => OnceInv'
<1> SUFFICES ASSUME OnceInv, [OnceNext]_onceVars PROVE OnceInv'
  OBVIOUS
<1>1. CASE UNCHANGED onceVars
  BY <1>1, Zenon DEF onceVars, OnceInv, OnceTypeOK, Initialising
<1>2. CASE OnceNext
  BY <1>2, CallIInv, CasWinIInv, RunInitIInv, WriteIInv, PublishIInv, ReadIInv, LoadSteps,
     Zenon DEF OnceNext, Advance
<1>3. QED
  BY <1>1, <1>2

\* The invariant of the cell holds in every reachable state.
THEOREM OnceInvariance == OnceSpec => []OnceInv
BY InitIInv, NextIInv, PTL DEF OnceSpec

\* "call_once runs the initialiser exactly once across all CPUs": never twice,
\* and it has run by the time anyone sees READY.
THEOREM RunsOnce == OnceSpec => []InitOnce
<1>1. OnceInv => InitOnce
  <2> SUFFICES ASSUME OnceInv PROVE InitOnce
    OBVIOUS
  <2>1. state \in {UNINIT, RUNNING, READY}
    BY Zenon DEF OnceInv, OnceTypeOK
  <2>2. runs \in {0, 1} /\ Len(values) \in {0, 1}
    <3>1. state = UNINIT => runs = 0 /\ Len(values) = 0
      BY Zenon DEF OnceInv
    <3>2. state = RUNNING => runs \in {0, 1} /\ Len(values) \in {0, 1}
      BY Zenon DEF OnceInv
    <3>3. state = READY => runs = 1 /\ Len(values) = 1
      BY Zenon DEF OnceInv
    <3>4. QED
      BY <2>1, <3>1, <3>2, <3>3
  <2>3. \A c \in Cpus : seen[c] = READY => runs = 1
    BY <2>1, SMTT(60) DEF OnceInv
  <2>4. runs \in Nat /\ Len(values) \in Nat
    BY SMTT(60) DEF OnceInv, OnceTypeOK
  <2>5. \A n \in Nat : n \in {0, 1} => n <= 1
    OBVIOUS
  <2>6. QED
    BY <2>2, <2>3, <2>4, <2>5, Zenon DEF InitOnce
<1>2. QED
  BY <1>1, OnceInvariance, PTL

\* call_once and get return the value the one initialiser produced.
THEOREM ReadsInitialised == OnceSpec => []OneValue
<1>1. OnceInv => OneValue
  <2> SUFFICES ASSUME OnceInv, NEW c \in Cpus, NEW d \in Cpus
               PROVE  /\ got[c] # Uninit
                      /\ got[c] # None /\ got[d] # None => got[c] = got[d]
    BY Zenon DEF OneValue
  <2>1. ASSUME got[c] # None PROVE got[c] \in Cpus
    <3>1. state = READY
      BY <2>1, SMTT(60) DEF OnceInv, OnceTypeOK
    <3>2. Len(values) = 1 /\ values \in Seq(Cpus) /\ got[c] = values[1]
      BY <2>1, <3>1, Zenon DEF OnceInv, OnceTypeOK
    <3>3. 1 \in 1 .. Len(values)
      BY <3>2
    <3>4. values[1] \in Cpus
      BY <3>2, <3>3, SeqElement, Zenon
    <3>5. QED
      BY <3>2, <3>3, <3>4, Zenon
  <2>2. QED
    BY <2>1, SMTT(60) DEF OnceInv
<1>2. QED
  BY <1>1, OnceInvariance, PTL

\* A CPU that once had the value never gets None, nor another value.
THEOREM StaysReady == OnceSpec => ReadyIsStable
<1>1. OnceInv /\ [OnceNext]_onceVars => [\A c \in Cpus : got[c] # None => got'[c] = got[c]]_onceVars
  <2> SUFFICES ASSUME OnceInv, OnceNext, NEW c \in Cpus, got[c] # None
               PROVE  got'[c] = got[c]
    BY Zenon
  <2>1. seen[c] = READY /\ got[c] = values[1]
    BY Zenon DEF OnceInv
  <2>2. PICK d \in Cpus : Call(d) \/ Advance(d) \/ Spin(d) \/ GetNone(d) \/ GetSome(d)
    BY Zenon DEF OnceNext
  <2>3. CASE Read(d)
    BY <2>1, <2>3, ReadFacts, Zenon DEF OnceInv, OnceTypeOK
  <2>4. CASE GetNone(d)
    <3>1. c # d
      BY <2>1, <2>4, SMTT(60) DEF GetNone, AcquireLoad
    <3>2. QED
      BY <3>1, <2>4, Zenon DEF GetNone, OnceInv, OnceTypeOK
  <2>5. CASE ~Read(d) /\ ~GetNone(d)
    BY <2>2, <2>5, Zenon DEF Advance, Call, CasWin, CasLose, RunInit, Write, Publish,
       Spin, SpinExit, GetSome
  <2>6. QED
    BY <2>3, <2>4, <2>5, Zenon
<1>2. QED
  BY <1>1, OnceInvariance, PTL DEF OnceSpec, ReadyIsStable

-----------------------------------------------------------------------------
(* BuddyCell.                                                              *)

\* The page allocator's lock, reached through its cell, is a SpinLock and a
\* Once, whatever the CPUs do with the other half: what is proved of either
\* holds of BUDDY.
THEOREM CellIsBoth == CellSpec => LockSpec /\ OnceSpec
<1>1. CellInit => LockInit /\ OnceInit
  BY Zenon DEF CellInit
<1>2. [CellNext]_cellVars => [LockNext]_lockVars /\ [OnceNext]_onceVars
  <2> SUFFICES ASSUME [CellNext]_cellVars PROVE [LockNext]_lockVars /\ [OnceNext]_onceVars
    OBVIOUS
  <2>1. CASE UNCHANGED cellVars
    BY <2>1, Zenon DEF cellVars
  <2>2. ASSUME NEW c \in Cpus, UseOnce(c) PROVE OnceNext /\ UNCHANGED lockVars
    BY <2>2, Zenon DEF UseOnce, OnceNext
  <2>3. ASSUME NEW c \in Cpus, UseLock(c) PROVE LockNext /\ UNCHANGED onceVars
    BY <2>3, Zenon DEF UseLock, LockNext
  <2> QED
    BY <2>1, <2>2, <2>3, Zenon DEF CellNext
<1> QED
  BY <1>1, <1>2, PTL DEF CellSpec, LockSpec, OnceSpec
=============================================================================
