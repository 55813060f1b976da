------------------------------ MODULE Console -------------------------------
(***************************************************************************)
(* The console and the exception path that reports through it:             *)
(* kernel/builtin/uart.rs, kernel/exceptions/ and the decoders of          *)
(* kernel/arch/exceptions.rs and reg.rs.                                   *)
(*                                                                         *)
(* A CPU's kernel stack is a sequence of activations.  The first is the    *)
(* kernel proper, which logs through the UART lock; a synchronous          *)
(* exception or a panic adds one on top, at any instruction, the lock held *)
(* or not, and so may an exception inside a handler.  Only the last        *)
(* activation runs.                                                        *)
(*                                                                         *)
(* el1_sync is the one vector taken here.  Nothing runs at EL0.  boot.s    *)
(* masks interrupts and SErrors when it is entered at EL2, and PSCI starts *)
(* a secondary with them masked; a loader that enters at EL1 with them     *)
(* unmasked keeps them so, and is left out: el1_irq, el1_fiq and           *)
(* el1_serror end in the same dump and wfe loop as an el1_sync that is no  *)
(* abort.                                                                  *)
(*                                                                         *)
(* A line is its number of bytes.  ESR_EL1, SPSR_EL1 and the UART's flag   *)
(* register are the sets of their one bits.  ELR_EL1 is the depth of the   *)
(* activation that was interrupted, FAR_EL1 that of the one whose access   *)
(* faulted.                                                                *)
(***************************************************************************)
EXTENDS Integers, Sequences, FiniteSetsExt

CONSTANTS Cpus,
          LineBytes,    \* bytes of a log line
          ReportBytes,  \* bytes of a report
          Depth,        \* of the transmit FIFO
          Workloads,    \* what may happen to each CPU, see Workload
          None

VARIABLES work,    \* the workload, constant in a behaviour
          lock,    \* the holder of the lock in UART
          fifo,    \* bytes in the transmit FIFO
          stack,   \* the activations of each CPU
          logs,    \* lines each CPU has begun
          esr, elr, far, spsr,  \* the registers of each CPU
          lost,    \* history: the CPUs a byte of which was dropped
          last     \* history: the last byte written under the lock

sysregs == <<esr, elr, far, spsr>>
vars == <<work, lock, fifo, stack, logs, sysregs, lost, last>>

-----------------------------------------------------------------------------
(* Causes and what the processor makes of them.                            *)

Levelled == <<"AddressSize", "Translation", "AccessFlag", "Permission">>

Accesses == {"execute", "read", "write"}

\* The exceptions that are no aborts, and their class.
Others == [udf |-> 0, fp |-> 7, svc |-> 21, pc |-> 34, sp |-> 38, brk |-> 60, step |-> 51]

\* A cause is an access with the fault it met, or one of the others.
Cause == [access : Accesses, level : 0 .. 3, far : BOOLEAN, fault : Range(Levelled)]
         \cup [access : Accesses, level : {None}, far : BOOLEAN, fault : {"Alignment", "Other"}]
         \cup [access : DOMAIN Others, level : {None}, far : {FALSE}, fault : {None}]

\* The bounds on a behaviour: for each CPU the lines it logs at most, its
\* activations at most, and what may raise an exception on it.
Workload == [Cpus -> [logs : Nat, nesting : Nat, causes : SUBSET Cause]]

ASSUME ConsoleAssumption ==
    /\ {LineBytes, ReportBytes, Depth} \subseteq Nat \ {0}
    /\ None \notin Cpus
    /\ \A w \in DOMAIN Workloads : Workloads[w] \in Workload

Work(c) == Workloads[work][c]

\* The bits of an n-bit number, from bit lo on, and back.
Field(n, lo) == {lo + k : k \in {k \in 0 .. 5 : (n \div 2 ^ k) % 2 = 1}}
Bits(word, lo) ==
    LET bit(k) == IF lo + k \in word THEN 2 ^ k ELSE 0
    IN  bit(0) + bit(1) + bit(2) + bit(3) + bit(4) + bit(5)

\* The syndromes the architecture may report for a cause: EC, IL, and for an
\* abort FnV, WnR (of data aborts only; any value otherwise) and the status.
Syndromes(cause) ==
    IF cause.access \notin Accesses
    THEN {Field(Others[cause.access], 26) \cup {25} \cup iss : iss \in {{}, 0 .. 15}}
    ELSE {Field(IF cause.access = "execute" THEN 33 ELSE 37, 26) \cup {25}
          \cup (IF cause.far THEN {} ELSE {10})
          \cup (IF wnr THEN {6} ELSE {})
          \cup Field(CASE cause.fault \in Range(Levelled) ->
                            4 * (CHOOSE k \in 1 .. 4 : Levelled[k] = cause.fault)
                              - 4 + cause.level
                      [] cause.fault = "Alignment" -> 33
                      [] OTHER -> 16, 0) :
              wnr \in IF cause.access = "execute" THEN BOOLEAN ELSE {cause.access = "write"}}

-----------------------------------------------------------------------------
(* Decoders.                                                               *)

\* Esr: ec_raw, dfsc, is_write, far_valid.
EcRaw(e) == Bits(e, 26)
Dfsc(e) == Bits(e, 0)
IsWrite(e) == 6 \in e
FarValid(e) == 10 \notin e

\* ExceptionClass::from_ec.
FromEc(ec) ==
    CASE ec = 0 -> "Unknown" [] ec = 7 -> "TrappedFp" [] ec = 21 -> "SvcAArch64"
      [] ec = 32 -> "InstrAbortLowerEl" [] ec = 33 -> "InstrAbortSameEl"
      [] ec = 34 -> "PcAlignment"
      [] ec = 36 -> "DataAbortLowerEl" [] ec = 37 -> "DataAbortSameEl"
      [] ec = 38 -> "SpAlignment" [] ec = 47 -> "TrappedWfi" [] ec = 60 -> "Brk"
      [] OTHER -> "Other"

\* FaultStatus::from_dfsc and level.
FromDfsc(d) == IF d <= 15 THEN [fault |-> Levelled[d \div 4 + 1], level |-> d % 4]
               ELSE [fault |-> IF d = 33 THEN "Alignment" ELSE "Other", level |-> None]

\* SpsrMode::from_bits.
SpsrMode(word) ==
    LET m == word \cap (0 .. 4) IN
    CASE m = {} -> "El0t" [] m = {2} -> "El1t" [] m = {0, 2} -> "El1h" [] m = {3} -> "El2t"
      [] m = {0, 3} -> "El2h" [] m = {2, 3} -> "El3t" [] m = {0, 2, 3} -> "El3h"
      [] 4 \in m -> "AArch32" [] OTHER -> "Unknown"

\* handle_page_fault: the access kind is taken from the class first.
AccessKind(e) ==
    IF FromEc(EcRaw(e)) \in {"InstrAbortSameEl", "InstrAbortLowerEl"} THEN "execute"
    ELSE IF IsWrite(e) THEN "write" ELSE "read"

-----------------------------------------------------------------------------
(* Activations.                                                            *)

\* pc: "run", "lock", "poll", "put", "unlock" in the kernel; "save",
\* "dispatch", "fault" or "dump", "poll", "put", "done", "park" in a handler;
\* "panic" stands for "save" to "dump" in a panic.
Activation(kind, pc, cause) ==
    [kind |-> kind, pc |-> pc, left |-> 0, cause |-> cause, frame |-> None,
     report |-> None]

Top(c) == stack[c][Len(stack[c])]

At(c, pc) == Top(c).pc = pc

\* The running activation becomes a.
Becomes(c, a) == stack' = [stack EXCEPT ![c] = [@ EXCEPT ![Len(@)] = a]]

Goto(c, pc) == Becomes(c, [Top(c) EXCEPT !.pc = pc])

\* CPU c is past the point where it writes without the lock.
Raw(c) == Len(stack[c]) > 1

Init ==
    /\ work \in DOMAIN Workloads
    /\ lock = None /\ fifo = 0 /\ lost = {} /\ last = None
    /\ stack = [c \in Cpus |-> <<Activation("kernel", "run", None)>>]
    /\ logs = [c \in Cpus |-> 0]
    /\ esr = [c \in Cpus |-> {}] /\ elr = [c \in Cpus |-> None]
    /\ far = [c \in Cpus |-> None] /\ spsr = [c \in Cpus |-> {}]

-----------------------------------------------------------------------------
(* Writing.                                                                *)

\* kernel_log!: a line, to be written under the lock.
KernelLog(c) ==
    /\ At(c, "run") /\ logs[c] < Work(c).logs
    /\ logs' = [logs EXCEPT ![c] = @ + 1]
    /\ Becomes(c, [Top(c) EXCEPT !.pc = "lock", !.left = LineBytes])
    /\ UNCHANGED <<work, lock, fifo, sysregs, lost, last>>

\* Mutant: the line goes straight to the registers.
LockSkipped(c) ==
    /\ At(c, "lock") /\ lock' = c
    /\ Goto(c, "poll")
    /\ UNCHANGED <<work, fifo, logs, sysregs, lost, last>>

\* UART.lock().
Lock(c) ==
    /\ At(c, "lock") /\ lock = None /\ lock' = c
    /\ Goto(c, "poll")
    /\ UNCHANGED <<work, fifo, logs, sysregs, lost, last>>

\* Mutant: write_byte does not wait for room.
PollOnce(c) ==
    /\ At(c, "poll")
    /\ Goto(c, "put")
    /\ UNCHANGED <<work, lock, fifo, logs, sysregs, lost, last>>

\* FrFlags::contains and UART_FR as the UART shows it.
TXFF == {5}
TXFE == {7}
HasFlags(flags, other) == flags \cap other = other
UartFr == (IF fifo = Depth THEN TXFF ELSE {}) \cup (IF fifo = 0 THEN TXFE ELSE {})

\* UartRaw::write_byte: flag TXFF is clear.
Poll(c) ==
    /\ At(c, "poll") /\ ~ HasFlags(UartFr, TXFF)
    /\ Goto(c, "put")
    /\ UNCHANGED <<work, lock, fifo, logs, sysregs, lost, last>>

\* UartRaw::write_byte: the byte goes to the data register, and write_str to
\* the next one.  A full FIFO drops it.
Put(c) ==
    LET a == Top(c) IN
    /\ At(c, "put")
    /\ IF fifo < Depth THEN fifo' = fifo + 1 /\ UNCHANGED lost
       ELSE lost' = lost \cup {c} /\ UNCHANGED fifo
    /\ last' = IF a.kind = "kernel" THEN [cpu |-> c, left |-> a.left - 1] ELSE last
    /\ Becomes(c, [a EXCEPT !.left = @ - 1,
                            !.pc = IF a.left > 1 THEN "poll"
                                   ELSE IF a.kind = "kernel" THEN "unlock" ELSE "done"])
    /\ UNCHANGED <<work, lock, logs, sysregs>>

\* The guard is dropped at the end of kernel_log!.
Unlock(c) ==
    /\ At(c, "unlock") /\ lock' = None
    /\ Goto(c, "run")
    /\ UNCHANGED <<work, fifo, logs, sysregs, lost, last>>

\* The UART sends a byte.
Drain ==
    /\ fifo > 0 /\ fifo' = fifo - 1
    /\ UNCHANGED <<work, lock, stack, logs, sysregs, lost, last>>

-----------------------------------------------------------------------------
(* Exceptions and panics.                                                  *)

\* A synchronous exception at EL1, on SP_EL1: the processor sets ESR_EL1,
\* ELR_EL1, SPSR_EL1 and, for an abort, FAR_EL1, and takes slot el1_sync of the
\* vector table.  Without a valid address FAR_EL1 is unknown.
Trap(c) ==
    /\ ~ At(c, "park") /\ Len(stack[c]) < Work(c).nesting
    /\ \E cause \in Work(c).causes :
          /\ \E e \in Syndromes(cause) : esr' = [esr EXCEPT ![c] = e]
          /\ stack' = [stack EXCEPT ![c] = Append(@, Activation("trap", "save", cause))]
          /\ far' = [far EXCEPT ![c] = IF cause.access \notin Accesses THEN @
                                       ELSE IF cause.far THEN Len(stack[c]) ELSE None]
    /\ elr' = [elr EXCEPT ![c] = Len(stack[c])]
    /\ spsr' = [spsr EXCEPT ![c] = {0, 2} \cup 6 .. 9]
    /\ UNCHANGED <<work, lock, fifo, logs, lost, last>>

\* save_context.
SaveContext(c) ==
    /\ At(c, "save")
    /\ Becomes(c, [Top(c) EXCEPT !.pc = "dispatch", !.frame = [elr |-> elr[c], spsr |-> spsr[c]]])
    /\ UNCHANGED <<work, lock, fifo, logs, sysregs, lost, last>>

\* el1_sync_handler: aborts go to handle_page_fault, the rest is dumped.
Dispatch(c) ==
    /\ At(c, "dispatch")
    /\ Goto(c, IF FromEc(EcRaw(esr[c])) \in {"DataAbortSameEl", "InstrAbortSameEl"}
               THEN "fault" ELSE "dump")
    /\ UNCHANGED <<work, lock, fifo, logs, sysregs, lost, last>>

\* A report is composed, to be written at pc.
Compose(c, report, pc) ==
    /\ Becomes(c, [Top(c) EXCEPT !.pc = pc, !.left = ReportBytes, !.report = report])
    /\ UNCHANGED <<work, lock, fifo, logs, sysregs, lost, last>>

FaultReport(c) ==
    [label |-> "PAGE FAULT", status |-> FromDfsc(Dfsc(esr[c])),
     access |-> AccessKind(esr[c]), far |-> IF FarValid(esr[c]) THEN far[c] ELSE None,
     elr |-> Top(c).frame.elr]

\* Mutant: the report is logged with kernel_log!.
PageFaultLocked(c) == At(c, "fault") /\ Compose(c, FaultReport(c), "lock")

\* handle_page_fault reads ESR_EL1 anew; ELR_EL1 is the frame's.
HandlePageFault(c) == At(c, "fault") /\ Compose(c, FaultReport(c), "poll")

\* TrapFrame::dump, for the other classes. FAR_EL1, printed too, is left out.
Dump(c) ==
    /\ At(c, "dump")
    /\ Compose(c, [label |-> "EL1 SYNC EXCEPTION", class |-> FromEc(EcRaw(esr[c])),
                   elr |-> Top(c).frame.elr, mode |-> SpsrMode(Top(c).frame.spsr)], "poll")

\* The kernel panics, the lock held or not; panic_dump is called.
Panic(c) ==
    /\ Len(stack[c]) = 1 /\ Len(stack[c]) < Work(c).nesting
    /\ stack' = [stack EXCEPT ![c] = Append(@, Activation("panic", "panic", None))]
    /\ UNCHANGED <<work, lock, fifo, logs, sysregs, lost, last>>

\* panic_dump reports the registers as they are, stale or not.
PanicDump(c) ==
    /\ At(c, "panic")
    /\ Compose(c, [label |-> "KERNEL PANIC", class |-> FromEc(EcRaw(esr[c])), elr |-> elr[c],
                   far |-> far[c], mode |-> SpsrMode(spsr[c])], "poll")

\* Mutant: the handler returns, through common_exit, to what it interrupted.
CommonExit(c) ==
    /\ At(c, "done") /\ Top(c).kind = "trap"
    /\ stack' = [stack EXCEPT ![c] = SubSeq(@, 1, Len(@) - 1)]
    /\ elr' = [elr EXCEPT ![c] = Top(c).frame.elr]
    /\ spsr' = [spsr EXCEPT ![c] = Top(c).frame.spsr]
    /\ UNCHANGED <<work, lock, fifo, logs, esr, far, lost, last>>

\* wfe_loop!, which ends every handler and the panic.
WfeLoop(c) ==
    /\ At(c, "done")
    /\ Goto(c, "park")
    /\ UNCHANGED <<work, lock, fifo, logs, sysregs, lost, last>>

-----------------------------------------------------------------------------
\* The steps a CPU makes by itself, with nothing going wrong.
Run(c) ==
    \/ Lock(c) \/ Poll(c) \/ Put(c) \/ Unlock(c)
    \/ SaveContext(c) \/ Dispatch(c) \/ HandlePageFault(c) \/ Dump(c)
    \/ PanicDump(c) \/ WfeLoop(c)

Next == Drain \/ \E c \in Cpus : Run(c) \/ KernelLog(c) \/ Trap(c) \/ Panic(c)

Spec == Init /\ [][Next]_vars

\* Every CPU runs and the UART sends.
FairSpec == Spec /\ WF_vars(Drain) /\ \A c \in Cpus : WF_vars(Run(c))

-----------------------------------------------------------------------------
\* Among the bytes written under the lock, lines logged with kernel_log! are
\* whole: between two bytes of one no other CPU's line begins, even when the
\* writer dies in the middle, because it takes the lock with it.  (A report,
\* which is written past the lock, may come in between.)
LinesWhole ==
    [][last' # last /\ last # None /\ last.left > 0 =>
          last'.cpu = last.cpu /\ last'.left = last.left - 1]_vars

\* write_byte tests TXFF and then writes, which is safe under the lock: a byte
\* is dropped only when two CPUs write at once, one of them without the lock.
\* A CPU on its own drops none, although its handlers interrupt write_byte
\* between the two.
LossNeedsRaw ==
    \A c \in lost : \E d \in Cpus \ {c} : Raw(d) \/ (Raw(c) /\ logs[d] > 0)

\* The inductive invariant behind the two.  The kernel's activation is the
\* first of each CPU's and the only one that takes the lock; it holds it from
\* the first byte of a line to the last, and `last' says how far it is.  A CPU
\* about to write has room, or another has come in its way.
StackOK ==
    \A c \in Cpus :
        /\ stack[c][1].kind = "kernel"
        /\ stack[c][1].pc \in {"run", "lock", "poll", "put", "unlock"}
        /\ stack[c][1].pc # "run" => logs[c] > 0
        /\ \A k \in 2 .. Len(stack[c]) : stack[c][k].kind # "kernel"
        /\ \A k \in 2 .. Len(stack[c]) : stack[c][k].pc \notin {"run", "lock", "unlock"}

LockOK ==
    \A c \in Cpus : lock = c <=> stack[c][1].pc \in {"poll", "put", "unlock"}

LineOK ==
    /\ \A c \in Cpus : stack[c][1].pc \in {"poll", "put"} =>
          stack[c][1].left > 0 /\ (last # None /\ last.left > 0 => last.left = stack[c][1].left)
    /\ \A c \in Cpus : stack[c][1].pc = "lock" => stack[c][1].left > 0
    /\ last # None /\ last.left > 0 =>
          last.cpu \in Cpus /\ stack[last.cpu][1].pc \in {"poll", "put"}

RoomOK ==
    \A c \in Cpus : At(c, "put") /\ fifo >= Depth =>
        \E d \in Cpus \ {c} : Raw(d) \/ (Raw(c) /\ logs[d] > 0)

WriteInv == StackOK /\ LockOK /\ LineOK /\ RoomOK /\ LossNeedsRaw

\* What a report must say of the exception that caused it.
Expected(cause, depth) ==
    IF cause.access \in DOMAIN Others
    THEN [label |-> "EL1 SYNC EXCEPTION", elr |-> depth, mode |-> "El1h",
          class |-> [udf |-> "Unknown", fp |-> "TrappedFp", svc |-> "SvcAArch64",
                     pc |-> "PcAlignment", sp |-> "SpAlignment", brk |-> "Brk",
                     step |-> "Other"][cause.access]]
    ELSE [label |-> "PAGE FAULT", access |-> cause.access,
          far |-> IF cause.far THEN depth ELSE None,
          status |-> [fault |-> cause.fault, level |-> cause.level], elr |-> depth]

\* A handler reports the exception it was entered for, although it reads
\* ESR_EL1 twice and FAR_EL1 from the registers and a nested exception overwrites
\* them: the nested handler parks the CPU before the outer one reads again.
ReportIsOwn ==
    \A c \in Cpus : \A k \in DOMAIN stack[c] :
        LET a == stack[c][k] IN
        a.kind = "trap" /\ a.report # None => a.report = Expected(a.cause, k - 1)

\* An exception or a panic is always reported to the end, whoever holds the
\* console lock, the CPU itself included: the reports take no lock.
ReportsEnd == \A c \in Cpus : Raw(c) ~> At(c, "park")

=============================================================================
