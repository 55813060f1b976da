-------------------------------- MODULE Smp --------------------------------
(***************************************************************************)
(* SMP bring-up (kernel/cpu/smp.rs, psci.rs, asm/secondary.s), from kmain's *)
(* set-up of the per-CPU areas (kernel/arch/percpu.rs) to the moment it    *)
(* gives the trampoline's page tables to the page allocator.               *)
(*                                                                         *)
(* Actors: the primary, in bring_up_all; each secondary, from its first    *)
(* instruction to its wfe loop; and the firmware, which answers CPU_ON.    *)
(* A word of MPIDR_EL1 or of a cpus node is the set of its one bits.  Zero *)
(* is what a static holds before it is written.                            *)
(***************************************************************************)
EXTENDS Integers, Sequences

CONSTANTS Mpidrs,      \* hardware identities of the CPUs: their affinity bits
          PrimaryReg,  \* MPIDR_EL1 of the one that boots
          NodeLists,   \* the cpus nodes a device tree may list: reg words
          PsciNodes,   \* the /psci nodes it may have: [method, cpu_on]
          Codes,       \* what the firmware may answer
          Area,        \* addresses of AREAS' elements
          PERCPU_MAX,  \* their size
          PercpuStart, PercpuEnd,   \* __percpu_start, __percpu_end
          CPU_DATA,    \* address of CPU_DATA in the template
          MaxCpus,     \* MAX_CPUS
          Width,       \* bits of CPU_ONLINE
          Stacks,      \* the most stacks the page allocator can supply
          Root,        \* the kernel's page-table root
          Idmap,       \* __idmap_l0, in .boot.bss
          Zero

Ids == 0 .. MaxCpus - 1

\* Mutant: AFF3 is cut off.
MpidrLow(raw) == raw \cap (0 .. 23)

\* Mpidr::new keeps AFF0 to AFF2 and AFF3.
Mpidr(raw) == raw \cap (0 .. 23 \cup 32 .. 39)

Primary == Mpidr(PrimaryReg)

\* A CPU's hardware identity is its affinity; AREAS is an array.
ASSUME SmpAssumption ==
    /\ Primary \in Mpidrs
    /\ \A l \in NodeLists : l \in Seq(SUBSET Nat) /\ \A j \in 1 .. Len(l) : Mpidr(l[j]) \in Mpidrs
    /\ Codes \subseteq Int
    /\ MaxCpus \in Nat \ {0} /\ Width \in Nat \ {0} /\ Stacks \in Nat
    /\ PERCPU_MAX \in Nat \ {0} /\ PercpuStart \in Int /\ CPU_DATA \in Int
    /\ Area \in [Ids -> Int]
    /\ \A c, d \in Ids : c < d => Area[c] + PERCPU_MAX <= Area[d]
    /\ Zero \notin Mpidrs \cup Int \cup {Root, Idmap}

VARIABLES nodes,      \* fdt.cpus()
          psci,       \* its /psci node
          error,      \* the error bring-up stopped with
          offsets,    \* OFFSETS
          pc,         \* where the primary is in kmain and bring_up_all
          node,       \* the cpus node at hand
          next_idx,
          stacks,     \* stacks the page allocator still has
          online,     \* CPU_ONLINE, as the set of its set bits
          cpuData,    \* the copies of CPU_DATA, by address
          bootData,   \* BOOT_DATA as cached
          poc,        \* BOOT_DATA in memory, as a CPU with its MMU off reads it
          hw,         \* where each CPU is
          ctx,        \* x0 of each secondary: which BOOT_DATA slot
          ttbr0, ttbr1, sp, tpidr,
          uart,       \* holder of the console lock
          tables      \* .boot.bss: "reserved", or "free" once donated

primaryVars == <<nodes, psci, error, offsets, pc, node, next_idx, stacks, cpuData, bootData, poc, ctx, tables>>
secondaryVars == <<ttbr1, sp, tpidr, uart>>
vars == <<primaryVars, secondaryVars, online, hw, ttbr0>>

\* 1u64 << cpu: the release build masks the shift amount to the width.
Bit(cpu) == cpu % Width

InFlight == {"entry", "high", "rust", "log", "mark"}

BootRecord(offset, stack, root) == [offset |-> offset, stack |-> stack, root |-> root]

\* per_cpu_ptr!(.., CPU_DATA) and this_cpu_ptr!(CPU_DATA), for an offset.
CpuData(offset) == offset + CPU_DATA

Offset(c) == Area[c] - PercpuStart

Blocks == {CpuData(Offset(c)) : c \in Ids}

Init ==
    /\ nodes \in NodeLists /\ psci \in PsciNodes
    /\ error = [kind |-> "None"] /\ offsets = [c \in Ids |-> Zero]
    /\ pc = "percpu" /\ node = 1 /\ next_idx = 1 /\ stacks \in 0 .. Stacks
    /\ online = {}
    /\ cpuData = [b \in Blocks |-> [id |-> 0, mpidr |-> Zero]]
    /\ bootData = [c \in Ids |-> BootRecord(Zero, Zero, Zero)]
    /\ poc = bootData
    /\ hw = [m \in Mpidrs |-> IF m = Primary THEN "boot" ELSE "off"]
    /\ ctx = [m \in Mpidrs |-> Zero]
    /\ ttbr0 = [m \in Mpidrs |-> IF m = Primary THEN Idmap ELSE Zero]
    /\ ttbr1 = [m \in Mpidrs |-> IF m = Primary THEN Root ELSE Zero]
    /\ sp = [m \in Mpidrs |-> Zero]
    /\ tpidr = [m \in Mpidrs |-> Zero]
    /\ uart = Zero
    /\ tables = "reserved"

-----------------------------------------------------------------------------
(* The primary.                                                            *)

Node == Mpidr(nodes[node])

AtSecondary == pc = "walk" /\ node <= Len(nodes) /\ Node # Primary

\* percpu::init; an assert stops the boot if the template is too large.
PercpuInit ==
    /\ pc = "percpu" /\ pc' = "low"
    /\ PercpuEnd - PercpuStart <= PERCPU_MAX
    /\ offsets' = [c \in Ids |-> Offset(c)]
    /\ tpidr' = [tpidr EXCEPT ![Primary] = offsets'[0]]
    /\ UNCHANGED <<nodes, psci, error, node, next_idx, stacks, cpuData, bootData, poc, ctx, tables>>
    /\ UNCHANGED <<ttbr0, ttbr1, sp, uart, online, hw>>

DisableTtbr0 ==
    /\ pc = "low" /\ pc' = "psci"
    /\ ttbr0' = [ttbr0 EXCEPT ![Primary] = Zero]
    /\ UNCHANGED <<nodes, psci, error, offsets, node, next_idx, stacks, cpuData, bootData, poc, ctx, tables>>
    /\ UNCHANGED <<secondaryVars, online, hw>>

\* An error: kmain's expect panics and the primary stops.
Fail(e) ==
    /\ pc' = "failed" /\ error' = e
    /\ UNCHANGED <<nodes, psci, offsets, node, next_idx, stacks, bootData, poc, ctx, tables>>
    /\ UNCHANGED <<secondaryVars, online, hw, ttbr0>>

\* Psci::from_fdt: Some, if the node has a known method and a call number.
HasPsci == psci.method \in {"hvc", "smc"} /\ psci.cpu_on # Zero

FromFdt ==
    /\ pc = "psci" /\ HasPsci /\ pc' = "init"
    /\ UNCHANGED <<nodes, psci, error, offsets, node, next_idx, stacks, cpuData, bootData, poc, ctx>>
    /\ UNCHANGED <<tables, secondaryVars, online, hw, ttbr0>>

NoPsci == pc = "psci" /\ ~HasPsci /\ Fail([kind |-> "NoPsci"]) /\ UNCHANGED cpuData

InitCpu(c, m) == cpuData' = [cpuData EXCEPT ![CpuData(offsets[c])] = [id |-> c, mpidr |-> m]]

\* init_cpu, install_current and mark_online for CPU 0.
PrimaryOnline ==
    /\ pc = "init" /\ pc' = "walk"
    /\ InitCpu(0, Primary)
    /\ tpidr' = [tpidr EXCEPT ![Primary] = offsets[0]]
    /\ online' = online \cup {Bit(0)}
    /\ UNCHANGED <<nodes, psci, error, offsets, node, next_idx, stacks, bootData, poc, ctx, tables>>
    /\ UNCHANGED <<ttbr0, ttbr1, sp, uart, hw>>

SkipPrimary ==
    /\ pc = "walk" /\ node <= Len(nodes) /\ Node = Primary
    /\ node' = node + 1
    /\ UNCHANGED <<nodes, psci, error, offsets, pc, next_idx, stacks, cpuData, bootData, poc, ctx, tables>>
    /\ UNCHANGED <<secondaryVars, online, hw, ttbr0>>

TooManyCpus == AtSecondary /\ next_idx >= MaxCpus /\ UNCHANGED cpuData
               /\ Fail([kind |-> "TooManyCpus"])

OutOfMemory == AtSecondary /\ next_idx < MaxCpus /\ InitCpu(next_idx, Node) /\ stacks = 0
               /\ Fail([kind |-> "OutOfMemory"])

\* Mutant: the boot data stays in the cache.
PrepareUncleaned ==
    /\ AtSecondary /\ next_idx < MaxCpus /\ InitCpu(next_idx, Node)
    /\ stacks > 0 /\ stacks' = stacks - 1
    /\ bootData' = [bootData EXCEPT ![next_idx] = BootRecord(offsets[next_idx], stacks, Root)]
    /\ pc' = "on"
    /\ UNCHANGED <<nodes, psci, error, offsets, node, next_idx, poc, ctx, tables>>
    /\ UNCHANGED <<secondaryVars, online, hw, ttbr0>>

\* init_cpu, alloc_stack, prepare_boot_data and clean_dcache.
Prepare ==
    /\ AtSecondary /\ next_idx < MaxCpus /\ InitCpu(next_idx, Node)
    /\ stacks > 0 /\ stacks' = stacks - 1
    /\ bootData' = [bootData EXCEPT ![next_idx] = BootRecord(offsets[next_idx], stacks, Root)]
    /\ poc' = [poc EXCEPT ![next_idx] = BootRecord(offsets[next_idx], stacks, Root)]
    /\ pc' = "on"
    /\ UNCHANGED <<nodes, psci, error, offsets, node, next_idx, ctx, tables>>
    /\ UNCHANGED <<secondaryVars, online, hw, ttbr0>>

\* PsciError::from_code
FromCode(code) ==
    IF -code \in 1 .. 9
    THEN [name |-> <<"NotSupported", "InvalidParameters", "Denied", "AlreadyOn", "OnPending",
                     "InternalFailure", "NotPresent", "Disabled", "InvalidAddress">>[-code]]
    ELSE [name |-> "Unknown", code |-> code]

\* cpu_on: the firmware starts the CPU, with the slot's address in x0 ...
CpuOn ==
    /\ pc = "on" /\ hw[Node] = "off" /\ 0 \in Codes
    /\ hw' = [hw EXCEPT ![Node] = "entry"]
    /\ ctx' = [ctx EXCEPT ![Node] = next_idx]
    /\ pc' = "wait"
    /\ UNCHANGED <<nodes, psci, error, offsets, node, next_idx, stacks, cpuData, bootData, poc, tables>>
    /\ UNCHANGED <<secondaryVars, online, ttbr0>>

\* ... or refuses, for a reason it likes; "already on" is one if the CPU is.
CpuOnError ==
    \E code \in Codes \ {0} :
        /\ pc = "on" /\ (code = -4) = (hw[Node] # "off")
        /\ Fail([kind |-> "Psci", cpu |-> Node, why |-> FromCode(code)])
        /\ UNCHANGED cpuData

\* Mutant: wait_for is gone.
WaitForNobody ==
    /\ pc = "wait"
    /\ next_idx' = next_idx + 1 /\ node' = node + 1 /\ pc' = "walk"
    /\ UNCHANGED <<nodes, psci, error, offsets, stacks, cpuData, bootData, poc, ctx, tables>>
    /\ UNCHANGED <<secondaryVars, online, hw, ttbr0>>

\* Mutant: next_idx stays as it is.
WaitForReusing ==
    /\ pc = "wait" /\ Bit(next_idx) \in online
    /\ node' = node + 1 /\ pc' = "walk"
    /\ UNCHANGED <<nodes, psci, error, offsets, next_idx, stacks, cpuData, bootData, poc, ctx, tables>>
    /\ UNCHANGED <<secondaryVars, online, hw, ttbr0>>

\* wait_for has seen the CPU's bit.
WaitFor ==
    /\ pc = "wait" /\ Bit(next_idx) \in online
    /\ next_idx' = next_idx + 1 /\ node' = node + 1 /\ pc' = "walk"
    /\ UNCHANGED <<nodes, psci, error, offsets, stacks, cpuData, bootData, poc, ctx, tables>>
    /\ UNCHANGED <<secondaryVars, online, hw, ttbr0>>

\* bring_up_all returns Ok.
AllUp ==
    /\ pc = "walk" /\ node > Len(nodes)
    /\ pc' = "up"
    /\ UNCHANGED <<nodes, psci, error, offsets, node, next_idx, stacks, cpuData, bootData, poc, ctx, tables>>
    /\ UNCHANGED <<secondaryVars, online, hw, ttbr0>>

\* reclaim_trampoline; its log line takes the console lock.
ReclaimTrampoline ==
    /\ pc = "up" /\ uart = Zero
    /\ tables' = "free" /\ pc' = "done"
    /\ UNCHANGED <<nodes, psci, error, offsets, node, next_idx, stacks, cpuData, bootData, poc, ctx>>
    /\ UNCHANGED <<secondaryVars, online, hw, ttbr0>>

PrimaryStep ==
    \/ PercpuInit \/ DisableTtbr0 \/ FromFdt \/ NoPsci
    \/ PrimaryOnline \/ SkipPrimary \/ TooManyCpus \/ OutOfMemory
    \/ Prepare \/ CpuOn \/ CpuOnError \/ WaitFor \/ AllUp \/ ReclaimTrampoline

-----------------------------------------------------------------------------
(* A secondary.                                                            *)

At(m, from, to) == hw[m] = from /\ hw' = [hw EXCEPT ![m] = to]

\* secondary_entry, up to the jump to the upper half: the MMU is off, so the
\* boot data comes from memory.  CPACR_EL1, MAIR_EL1 and TCR_EL1 get the same
\* constants on every CPU and the TLB has nothing of this CPU's to lose: left out.
Enter(m) ==
    /\ At(m, "entry", "high")
    /\ ttbr0' = [ttbr0 EXCEPT ![m] = Idmap]
    /\ ttbr1' = [ttbr1 EXCEPT ![m] = poc[ctx[m]].root]
    /\ UNCHANGED <<primaryVars, sp, tpidr, uart, online>>

\* secondary_high: stack and per-CPU offset, now through the page tables and so
\* as the primary sees them: both CPUs set SCTLR_EL1.M and leave C alone.
\* VBAR_EL1, the same on every CPU, is left out.
High(m) ==
    /\ At(m, "high", "rust")
    /\ sp' = [sp EXCEPT ![m] = bootData[ctx[m]].stack]
    /\ tpidr' = [tpidr EXCEPT ![m] = bootData[ctx[m]].offset]
    /\ UNCHANGED <<primaryVars, ttbr0, ttbr1, uart, online>>

\* secondary_cpu_main: kernel_log under the console lock.
LogLock(m) ==
    /\ At(m, "rust", "log")
    /\ uart = Zero /\ uart' = m
    /\ UNCHANGED <<primaryVars, ttbr0, ttbr1, sp, tpidr, online>>

LogUnlock(m) ==
    /\ At(m, "log", "mark")
    /\ uart' = Zero
    /\ UNCHANGED <<primaryVars, ttbr0, ttbr1, sp, tpidr, online>>

\* Mutant: the CPU goes to sleep without reporting in.
MarkNothing(m) ==
    /\ At(m, "mark", "parked")
    /\ UNCHANGED <<primaryVars, secondaryVars, ttbr0, online>>

\* mark_online(current().cpu_id), then the wfe loop.
MarkOnline(m) ==
    /\ At(m, "mark", "parked")
    /\ online' = online \cup {Bit(cpuData[CpuData(tpidr[m])].id)}
    /\ UNCHANGED <<primaryVars, secondaryVars, ttbr0>>

SecondaryStep(m) ==
    Enter(m) \/ High(m) \/ LogLock(m) \/ LogUnlock(m) \/ MarkOnline(m)

Next == PrimaryStep \/ \E m \in Mpidrs : SecondaryStep(m)

Spec == Init /\ [][Next]_vars

\* The primary and every started CPU keep executing.
FairSpec ==
    /\ Spec
    /\ WF_vars(PrimaryStep)
    /\ \A m \in Mpidrs : WF_vars(SecondaryStep(m))

-----------------------------------------------------------------------------
Affinity(raw) == raw \cap (0 .. 23 \cup 32 .. 39)

Requested == {Affinity(nodes[j]) : j \in 1 .. Len(nodes)} \ {Affinity(PrimaryReg)}

Running == {m \in Mpidrs : hw[m] \in {"rust", "log", "mark", "parked"}}

BootRecords == [offset : Int \cup {Zero}, stack : Nat \cup {Zero}, root : {Root, Zero}]

PrimaryTypes ==
    /\ nodes \in Seq(SUBSET Nat) /\ node \in Nat \ {0} /\ next_idx \in Nat \ {0}
    /\ pc \in {"percpu", "low", "psci", "init", "walk", "on", "wait", "up", "done", "failed"}
    /\ stacks \in Nat
    /\ offsets \in [Ids -> Int \cup {Zero}]
    /\ cpuData \in [Blocks -> [id : Nat, mpidr : Mpidrs \cup {Zero}]]
    /\ bootData \in [Ids -> BootRecords] /\ poc \in [Ids -> BootRecords]
    /\ ctx \in [Mpidrs -> Ids \cup {Zero}]
    /\ tables \in {"reserved", "free"}

SecondaryTypes ==
    /\ hw \in [Mpidrs -> InFlight \cup {"boot", "off", "parked"}]
    /\ ttbr0 \in [Mpidrs -> {Idmap, Zero}]
    /\ ttbr1 \in [Mpidrs -> {Root, Zero}]
    /\ sp \in [Mpidrs -> Nat \cup {Zero}]
    /\ tpidr \in [Mpidrs -> Int \cup {Zero}]
    /\ uart \in Mpidrs \cup {Zero} /\ online \subseteq Nat

TypeOK == PrimaryTypes /\ SecondaryTypes

\* After percpu::init the offsets stay as they are, and TPIDR_EL1 of the
\* primary leads to CPU 0's area.
AreasOK ==
    /\ \A j \in 1 .. Len(nodes) : Mpidr(nodes[j]) \in Mpidrs
    /\ pc # "percpu" => /\ offsets = [c \in Ids |-> Offset(c)]
                        /\ tpidr[Primary] = Offset(0)

\* What the primary has prepared for the CPU it starts.
SlotReady ==
    pc \in {"on", "wait"} =>
        /\ node <= Len(nodes) /\ Node # Primary /\ next_idx < MaxCpus
        /\ cpuData[CpuData(Offset(next_idx))] = [id |-> next_idx, mpidr |-> Node]
        /\ bootData[next_idx] = BootRecord(Offset(next_idx), stacks + 1, Root)
        /\ poc[next_idx] = bootData[next_idx]

\* The secondaries the firmware has started.
Started == {m \in Mpidrs \ {Primary} : hw[m] # "off"}

\* A started CPU's number is below the next one, or the next one while the
\* primary waits for it; and its stack came before those still to be had.
NumberOK(m) ==
    /\ ctx[m] \in Ids \ {0}
    /\ IF pc = "wait" /\ m = Node
       THEN ctx[m] = next_idx /\ bootData[ctx[m]].stack > stacks
       ELSE /\ ctx[m] < next_idx
            /\ bootData[ctx[m]].stack > IF pc \in {"on", "wait"} THEN stacks + 1 ELSE stacks

\* Its slot and its control block stay as the primary prepared them.
SlotOK(m) ==
    /\ cpuData[CpuData(Offset(ctx[m]))] = [id |-> ctx[m], mpidr |-> m]
    /\ bootData[ctx[m]].offset = Offset(ctx[m])
    /\ bootData[ctx[m]].root = Root
    /\ bootData[ctx[m]].stack \in Nat
    /\ poc[ctx[m]] = bootData[ctx[m]]

\* What it has taken from them so far, however late it came to it.
TakenOK(m) ==
    /\ hw[m] # "entry" => ttbr1[m] = Root
    /\ m \in Running => sp[m] = bootData[ctx[m]].stack /\ tpidr[m] = Offset(ctx[m])

ContextOK ==
    /\ hw[Primary] = "boot" /\ next_idx <= MaxCpus
    /\ pc \in {"percpu", "low", "psci", "init"} => Started = {}
    /\ \A m \in Started : NumberOK(m) /\ SlotOK(m) /\ TakenOK(m)

\* No two started CPUs share a number or a stack.
SlotsApart ==
    \A m, n \in Started :
        m # n => ctx[m] # ctx[n] /\ bootData[ctx[m]].stack # bootData[ctx[n]].stack

\* bring_up_all gives each CPU its own number, boot data, stack and control
\* block, and none of them is touched again.
StartInv == TypeOK /\ AreasOK /\ SlotReady /\ ContextOK /\ SlotsApart

\* The walk over the cpus nodes: who has been started, with which number, and
\* that the numbers given out do not outrun the nodes.
LedgerOK ==
    /\ pc \in {"percpu", "low", "psci", "init"} =>
          node = 1 /\ next_idx = 1 /\ online = {}
    /\ pc \in {"up", "done"} => node > Len(nodes)
    /\ pc = "wait" => Node \in Started
    /\ next_idx <= node
    /\ (\E j \in 1 .. Len(nodes) : j < node /\ Mpidr(nodes[j]) = Primary) => next_idx < node
    /\ \A j \in 1 .. Len(nodes) :
          j < node => Mpidr(nodes[j]) = Primary \/ Mpidr(nodes[j]) \in Started
    /\ \A m \in Started : hw[m] # "boot"
    /\ \A m \in Started :
          \/ pc = "wait" /\ m = Node
          \/ \E j \in 1 .. Len(nodes) : j < node /\ Mpidr(nodes[j]) = m
    /\ \A c \in Ids \ {0} : c < next_idx => \E m \in Started : ctx[m] = c

\* What the primary knew when it stopped.
FailureOK ==
    pc = "failed" =>
        \/ error.kind = "NoPsci" /\ node = 1 /\ online = {}
        \/ error.kind = "TooManyCpus" /\ next_idx >= MaxCpus
        \/ error.kind = "OutOfMemory"
        \/ /\ error.kind = "Psci" /\ error.cpu = Node
           /\ node \in 1 .. Len(nodes) /\ Node # Primary
           /\ (error.why.name = "AlreadyOn") = (hw[Node] # "off")

\* The machine has no more CPUs than CPU_ONLINE has bits: the device tree lists
\* fewer, or as many with the boot CPU among them.  MAX_CPUS does not enforce it.
Counted ==
    \/ Len(nodes) < Width
    \/ Len(nodes) = Width /\ \E j \in 1 .. Len(nodes) : Affinity(nodes[j]) = Affinity(PrimaryReg)

\* A CPU between CPU_ON and mark_online is the one the primary waits for: two
\* never start at the same time, nor does the primary stop while one starts.
OneAtATime ==
    Counted => \A m \in Mpidrs : hw[m] \in InFlight => pc = "wait" /\ m = Node

\* With a bit per CPU, a bit is set only for a number already given out.
BitsOK ==
    Counted => \A b \in online :
        b < next_idx \/ (b = next_idx /\ pc = "wait" /\ hw[Node] = "parked")

\* The inductive invariant.
IInv == StartInv /\ LedgerOK /\ FailureOK /\ OneAtATime /\ BitsOK

\* "Returns once every requested CPU has reached secondary_cpu_main and called
\* mark_online" (smp.rs:194).
ReturnsOnceOnline ==
    pc \in {"up", "done"} => \A m \in Requested : hw[m] = "parked"

\* bring_up_all keeps that promise on a machine with no more CPUs than bits,
\* CPUs that differ in AFF3 alone included.
UpMeansAllOnline == Counted => ReturnsOnceOnline

\* A CPU in Rust code runs on a stack nobody else has, under the kernel's page
\* tables, and finds its own identity in the control block TPIDR_EL1 leads to,
\* which is neither the primary's nor another CPU's.  This needs no bit of its
\* own: a CPU the primary did not wait for still finds its slot as prepared.
OwnContext ==
    \A m \in Running :
        /\ ttbr1[m] = Root /\ sp[m] # Zero
        /\ cpuData[CpuData(tpidr[m])].mpidr = m
        /\ tpidr[m] # tpidr[Primary]
        /\ \A n \in Running : n # m => sp[n] # sp[m] /\ tpidr[n] # tpidr[m]

\* When bring-up stops half way, the error says where: the CPUs listed before
\* that node were started, and are online if each has its bit; no other was
\* started, not even the one at fault; and the reason given is the true one.
FailureIsPrecise ==
    pc = "failed" =>
        /\ \A m \in Mpidrs \ {Primary} :
              LET before == \E j \in 1 .. Len(nodes) : j < node /\ Affinity(nodes[j]) = m
              IN  (hw[m] # "off") = before /\ (Counted /\ before => hw[m] = "parked")
        /\ error.kind = "Psci" =>
              /\ error.cpu \in Requested
              /\ (error.why.name = "AlreadyOn") = (hw[error.cpu] # "off")
        /\ error.kind = "TooManyCpus" =>
              \A c \in Ids \ {0} : \E m \in Started : ctx[m] = c
        /\ error.kind = "NoPsci" => Started = {} /\ online = {}

\* "After this returns, the trampoline page tables in .boot.bss are no longer
\* referenced and may be reclaimed" (mmu.rs:56): once they are handed to the
\* page allocator, no CPU's TTBR0_EL1 points at them.
TrampolineUnreferenced ==
    tables = "free" => \A m \in Mpidrs : ttbr0[m] # Idmap

\* Bring-up ends: the primary gets through or stops with an error, it does not
\* wait for ever for a CPU the firmware has started.
BringUpEnds == <>(pc \in {"done", "failed"})
=============================================================================
