------------------------------- MODULE MCSmp -------------------------------
(* Device trees of up to four cpus nodes, in any order, with and without the *)
(* boot CPU, with a CPU listed twice, and with CPUs that differ only in AFF0 *)
(* or only in AFF3.  MPIDR_EL1 also has its bit 31 set.                      *)
EXTENDS Smp

MCMpidrs == {{}, {0}, {32}, {0, 32}}
MCPrimaryReg == {0, 31}
MCNodeLists == UNION {[1 .. n -> Mpidrs] : n \in 0 .. 4}
MCOneList == {<<Primary>> \o s : s \in {t \in [1 .. 3 -> Mpidrs \ {Primary}] :
                                  \A a, b \in 1 .. 3 : a # b => t[a] # t[b]}}
MCPsci == {[method |-> m, cpu_on |-> f] : m \in {"hvc", "smc", "other"}, f \in {1, Zero}}
MCOnePsci == {[method |-> "hvc", cpu_on |-> 1]}
MCCodes == {0, -2, -4, -9, -10, 1}
MCArea == [c \in Ids |-> 100 + 8 * c]
=============================================================================
