----------------------------- MODULE MCConsole ------------------------------
(***************************************************************************)
(* Console for TLC, with two workloads.  "busy": both CPUs log, and each   *)
(* faults or panics once.  "faults": one CPU, which does not log, meets    *)
(* every cause, also inside a handler or a panic.                          *)
(***************************************************************************)
EXTENDS Console, TLC

CONSTANTS c1, c2

OneCause == {[access |-> "write", fault |-> "Permission", level |-> 2, far |-> TRUE]}

\* An address is missing only for external aborts.
AllCauses == {cause \in Cause : cause.far <=> cause.fault \notin {"Other", None}}

MCWorkloads ==
    [busy   |-> [c \in {c1, c2} |-> [logs |-> 2, nesting |-> 2, causes |-> OneCause]],
     faults |-> (c1 :> [logs |-> 0, nesting |-> 3, causes |-> AllCauses])
                @@ (c2 :> [logs |-> 0, nesting |-> 1, causes |-> {}])]
=============================================================================
