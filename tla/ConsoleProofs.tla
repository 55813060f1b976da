--------------------------- MODULE ConsoleProofs ---------------------------
(***************************************************************************)
(* Theorems about Console, for any number of CPUs, any lengths of lines    *)
(* and reports, any FIFO depth and any workload.                           *)
(*                                                                         *)
(* The inductive invariant of the writing is WriteInv of Console with the  *)
(* shape of the stacks.  What an activation's cause, frame and report hold *)
(* plays no part in it; that is ReportInv, inductive relative to the       *)
(* first, and it rests on the decoders being right.                        *)
(***************************************************************************)
EXTENDS Console, TLAPS

\* What the proofs need of the constants.
LEMMA Constants == LineBytes \in Nat \ {0} /\ ReportBytes \in Nat \ {0} /\ Depth \in Nat \ {0}
                   /\ None \notin Cpus
BY ConsoleAssumption DEF ConsoleAssumption

IsActivation(a) ==
    /\ a = [kind |-> a.kind, pc |-> a.pc, left |-> a.left, cause |-> a.cause,
            frame |-> a.frame, report |-> a.report]
    /\ a.left \in Int

IsStack(s) ==
    /\ \E S : s \in Seq(S)
    /\ s # << >>
    /\ \A k \in 1 .. Len(s) : IsActivation(s[k])

ShapeOK ==
    /\ stack = [c \in Cpus |-> stack[c]] /\ \A c \in Cpus : IsStack(stack[c])
    /\ logs \in [Cpus -> Nat] /\ fifo \in 0 .. Depth /\ lost \subseteq Cpus
    /\ last # None => last.left \in Int

IInv == ShapeOK /\ WriteInv

-----------------------------------------------------------------------------
(* The two ways a stack changes.                                           *)

\* An activation on top (an exception or a panic) leaves those below alone.
LEMMA Push ==
    ASSUME NEW s, IsStack(s), NEW a, IsActivation(a)
    PROVE  /\ IsStack(Append(s, a)) /\ Len(s) \in Nat \ {0} /\ Len(Append(s, a)) = Len(s) + 1
           /\ Append(s, a)[Len(s) + 1] = a
           /\ \A k \in 1 .. Len(s) : Append(s, a)[k] = s[k]
<1> DEFINE t == Append(s, a)
<1>1. PICK S : s \in Seq(S)
  BY DEF IsStack
<1>2. s \in Seq(S \cup {a}) /\ Len(s) \in Nat \ {0}
  BY <1>1 DEF IsStack
<1>3. /\ t \in Seq(S \cup {a}) /\ t # << >> /\ Len(t) = Len(s) + 1
      /\ t[Len(s) + 1] = a /\ \A k \in 1 .. Len(s) : t[k] = s[k]
  BY <1>2
<1>4. ASSUME NEW k \in 1 .. Len(t) PROVE IsActivation(t[k])
  <2>1. CASE k = Len(s) + 1
    BY <1>3, <2>1
  <2>2. CASE k \in 1 .. Len(s)
    BY <1>3, <2>2 DEF IsStack
  <2> QED
    BY <1>2, <1>3, <2>1, <2>2
<1> HIDE DEF t
<1>5. IsStack(t)
  BY <1>3, <1>4 DEF IsStack
<1> QED
  BY <1>2, <1>3, <1>5 DEF t

\* A step of the running activation changes the last element only.
LEMMA Replace ==
    ASSUME NEW s, IsStack(s), NEW a, IsActivation(a)
    PROVE  LET t == [s EXCEPT ![Len(s)] = a] IN
           /\ IsStack(t) /\ Len(s) \in Nat \ {0} /\ Len(t) = Len(s) /\ t[Len(s)] = a
           /\ \A k \in 1 .. Len(s) : k # Len(s) => t[k] = s[k]
<1> DEFINE t == [s EXCEPT ![Len(s)] = a]
<1>1. PICK S : s \in Seq(S)
  BY DEF IsStack
<1>2. s \in Seq(S \cup {a}) /\ Len(s) \in Nat \ {0}
  BY <1>1 DEF IsStack
<1>3. t \in Seq(S \cup {a}) /\ Len(t) = Len(s)
  BY <1>2
<1>4. t[Len(s)] = a /\ \A k \in 1 .. Len(s) : k # Len(s) => t[k] = s[k]
  BY <1>2
<1>5. ASSUME NEW k \in 1 .. Len(t) PROVE IsActivation(t[k])
  <2>1. CASE k = Len(s)
    BY <1>4, <2>1
  <2>2. CASE k # Len(s)
    BY <1>3, <1>4, <2>2, Zenon DEF IsStack
  <2> QED
    BY <2>1, <2>2
<1> HIDE DEF t
<1>6. IsStack(t)
  BY <1>2, <1>3, <1>5 DEF IsStack
<1> QED
  BY <1>2, <1>3, <1>4, <1>6, Zenon DEF t

\* The same for the stack of a CPU that takes a step.
LEMMA BecomesStep ==
    ASSUME ShapeOK, NEW c \in Cpus
    PROVE  \A a : IsActivation(a) /\ Becomes(c, a) =>
              /\ stack' = [d \in Cpus |-> stack'[d]] /\ \A d \in Cpus : IsStack(stack'[d])
              /\ \A d \in Cpus : d # c => stack'[d] = stack[d]
              /\ Len(stack[c]) \in Nat \ {0} /\ Len(stack'[c]) = Len(stack[c])
              /\ stack'[c][Len(stack[c])] = a
              /\ \A k \in 1 .. Len(stack[c]) : k # Len(stack[c]) => stack'[c][k] = stack[c][k]
<1> SUFFICES ASSUME NEW a, IsActivation(a), Becomes(c, a)
             PROVE  /\ stack' = [d \in Cpus |-> stack'[d]] /\ \A d \in Cpus : IsStack(stack'[d])
                    /\ \A d \in Cpus : d # c => stack'[d] = stack[d]
                    /\ Len(stack[c]) \in Nat \ {0} /\ Len(stack'[c]) = Len(stack[c])
                    /\ stack'[c][Len(stack[c])] = a
                    /\ \A k \in 1 .. Len(stack[c]) :
                          k # Len(stack[c]) => stack'[c][k] = stack[c][k]
  OBVIOUS
<1>1. stack = [d \in Cpus |-> stack[d]] /\ \A d \in Cpus : IsStack(stack[d])
  BY DEF ShapeOK
<1>2. stack' = [stack EXCEPT ![c] = [stack[c] EXCEPT ![Len(stack[c])] = a]]
  BY DEF Becomes
<1>3. stack'[c] = [stack[c] EXCEPT ![Len(stack[c])] = a] /\ \A d \in Cpus : d # c => stack'[d] = stack[d]
  BY <1>1, <1>2
<1>4. stack' = [d \in Cpus |-> stack'[d]]
  BY <1>1, <1>2, Zenon
<1> QED
  BY <1>1, <1>3, <1>4, Replace

\* The same for the entry of a handler, which Trap and Panic push.
LEMMA PushStep ==
    ASSUME ShapeOK, NEW c \in Cpus
    PROVE  \A a : IsActivation(a) /\ stack' = [stack EXCEPT ![c] = Append(@, a)] =>
              /\ stack' = [d \in Cpus |-> stack'[d]] /\ \A d \in Cpus : IsStack(stack'[d])
              /\ \A d \in Cpus : d # c => stack'[d] = stack[d]
              /\ Len(stack[c]) \in Nat \ {0} /\ Len(stack'[c]) = Len(stack[c]) + 1
              /\ stack'[c][Len(stack[c]) + 1] = a
              /\ \A k \in 1 .. Len(stack[c]) : stack'[c][k] = stack[c][k]
<1> SUFFICES ASSUME NEW a, IsActivation(a), stack' = [stack EXCEPT ![c] = Append(stack[c], a)]
             PROVE  /\ stack' = [d \in Cpus |-> stack'[d]] /\ \A d \in Cpus : IsStack(stack'[d])
                    /\ \A d \in Cpus : d # c => stack'[d] = stack[d]
                    /\ Len(stack[c]) \in Nat \ {0} /\ Len(stack'[c]) = Len(stack[c]) + 1
                    /\ stack'[c][Len(stack[c]) + 1] = a
                    /\ \A k \in 1 .. Len(stack[c]) : stack'[c][k] = stack[c][k]
  BY Zenon
<1>1. stack = [d \in Cpus |-> stack[d]] /\ \A d \in Cpus : IsStack(stack[d])
  BY DEF ShapeOK
<1>2. stack'[c] = Append(stack[c], a) /\ \A d \in Cpus : d # c => stack'[d] = stack[d]
  BY <1>1
<1>3. stack' = [d \in Cpus |-> stack'[d]]
  BY <1>1, Zenon
<1> QED
  BY <1>1, <1>2, <1>3, Push

\* Setting one field of an activation, pc, keeps the others.
LEMMA SetPc ==
    ASSUME NEW t, IsActivation(t), NEW x
    PROVE  LET u == [t EXCEPT !.pc = x] IN
           /\ IsActivation(u) /\ u.kind = t.kind /\ u.pc = x /\ u.left = t.left
           /\ u.cause = t.cause /\ u.frame = t.frame /\ u.report = t.report
BY DEF IsActivation

\* The same for the bytes write_str still has to write.
LEMMA SetLeft ==
    ASSUME NEW t, IsActivation(t), NEW x \in Int
    PROVE  LET u == [t EXCEPT !.left = x] IN
           /\ IsActivation(u) /\ u.kind = t.kind /\ u.pc = t.pc /\ u.left = x
           /\ u.cause = t.cause /\ u.frame = t.frame /\ u.report = t.report
BY DEF IsActivation

\* The same for the frame save_context stores.
LEMMA SetFrame ==
    ASSUME NEW t, IsActivation(t), NEW x
    PROVE  LET u == [t EXCEPT !.frame = x] IN
           /\ IsActivation(u) /\ u.kind = t.kind /\ u.pc = t.pc /\ u.left = t.left
           /\ u.cause = t.cause /\ u.frame = x /\ u.report = t.report
BY DEF IsActivation

\* The same for the report.
LEMMA SetReport ==
    ASSUME NEW t, IsActivation(t), NEW x
    PROVE  LET u == [t EXCEPT !.report = x] IN
           /\ IsActivation(u) /\ u.kind = t.kind /\ u.pc = t.pc /\ u.left = t.left
           /\ u.cause = t.cause /\ u.frame = t.frame /\ u.report = x
BY DEF IsActivation

\* The running activation.
LEMMA TopIs ==
    ASSUME ShapeOK, NEW c \in Cpus
    PROVE  /\ Len(stack[c]) \in Nat \ {0} /\ Top(c) = stack[c][Len(stack[c])]
           /\ IsActivation(Top(c))
<1>1. IsStack(stack[c])
  BY DEF ShapeOK
<1>2. Len(stack[c]) \in Nat \ {0}
  BY <1>1 DEF IsStack
<1>3. Top(c) = stack[c][Len(stack[c])]
  BY DEF Top
<1> QED
  BY <1>1, <1>2, <1>3 DEF IsStack

\* The same of the running activation.
LEMMA GotoIs ==
    ASSUME NEW c, IsActivation(Top(c))
    PROVE  \A pc : Goto(c, pc) =>
              \E a : IsActivation(a) /\ a.kind = Top(c).kind /\ Becomes(c, a)
                     /\ a.pc = pc /\ a.left = Top(c).left
                     /\ a.cause = Top(c).cause /\ a.frame = Top(c).frame /\ a.report = Top(c).report
<1> SUFFICES ASSUME NEW pc, Goto(c, pc)
             PROVE  \E a : IsActivation(a) /\ a.kind = Top(c).kind /\ Becomes(c, a)
                           /\ a.pc = pc /\ a.left = Top(c).left
                           /\ a.cause = Top(c).cause /\ a.frame = Top(c).frame /\ a.report = Top(c).report
  OBVIOUS
<1> DEFINE u == [Top(c) EXCEPT !.pc = pc]
<1>1. /\ IsActivation(u) /\ u.kind = Top(c).kind /\ u.pc = pc /\ u.left = Top(c).left
      /\ u.cause = Top(c).cause /\ u.frame = Top(c).frame /\ u.report = Top(c).report
  BY SetPc
<1>2. Becomes(c, u)
  BY DEF Goto
<1> HIDE DEF u
<1> QED
  BY <1>1, <1>2, Zenon

\* What kernel_log! makes of it: a line to write, at the lock.
LEMMA KernelLogIs ==
    ASSUME NEW c, IsActivation(Top(c)), KernelLog(c)
    PROVE  \E a : IsActivation(a) /\ a.kind = Top(c).kind /\ Becomes(c, a)
                  /\ a.pc = "lock" /\ a.left = LineBytes
<1> DEFINE p == [Top(c) EXCEPT !.pc = "lock"]
           u == [p EXCEPT !.left = LineBytes]
<1>1. Becomes(c, u)
  BY DEF KernelLog
<1>2. IsActivation(p) /\ p.kind = Top(c).kind /\ p.pc = "lock"
  BY SetPc
<1> HIDE DEF p
<1>3. IsActivation(u) /\ u.kind = p.kind /\ u.pc = p.pc /\ u.left = LineBytes
  BY <1>2, SetLeft, Constants
<1> HIDE DEF u
<1> QED
  BY <1>1, <1>2, <1>3, Zenon

\* What save_context makes of it: the frame is stored.
LEMMA SaveContextIs ==
    ASSUME NEW c, IsActivation(Top(c)), SaveContext(c)
    PROVE  \E a : IsActivation(a) /\ a.kind = Top(c).kind /\ Becomes(c, a) /\ a.pc = "dispatch"
                  /\ a.cause = Top(c).cause /\ a.frame = [elr |-> elr[c], spsr |-> spsr[c]]
                  /\ a.report = Top(c).report
<1> DEFINE f == [elr |-> elr[c], spsr |-> spsr[c]]
           p == [Top(c) EXCEPT !.pc = "dispatch"]
           u == [p EXCEPT !.frame = f]
<1>1. Becomes(c, u)
  BY DEF SaveContext
<1>2. /\ IsActivation(p) /\ p.kind = Top(c).kind /\ p.pc = "dispatch"
      /\ p.cause = Top(c).cause /\ p.report = Top(c).report
  BY SetPc
<1> HIDE DEF p, f
<1>3. /\ IsActivation(u) /\ u.kind = p.kind /\ u.pc = p.pc
      /\ u.cause = p.cause /\ u.frame = f /\ u.report = p.report
  BY <1>2, SetFrame
<1> HIDE DEF u
<1> QED
  BY <1>1, <1>2, <1>3, Zenon DEF f

\* What a handler makes of it: a report to write, past the lock.
LEMMA ComposeIs ==
    ASSUME NEW c, IsActivation(Top(c))
    PROVE  \A r, pc : Compose(c, r, pc) =>
              \E a : IsActivation(a) /\ a.kind = Top(c).kind /\ Becomes(c, a) /\ a.pc = pc
                     /\ a.cause = Top(c).cause /\ a.report = r
<1> SUFFICES ASSUME NEW r, NEW pc, Compose(c, r, pc)
             PROVE  \E a : IsActivation(a) /\ a.kind = Top(c).kind /\ Becomes(c, a) /\ a.pc = pc
                     /\ a.cause = Top(c).cause /\ a.report = r
  OBVIOUS
<1> DEFINE p == [Top(c) EXCEPT !.pc = pc]
           l == [p EXCEPT !.left = ReportBytes]
           u == [l EXCEPT !.report = r]
<1>1. Becomes(c, u)
  BY DEF Compose
<1>2. IsActivation(p) /\ p.kind = Top(c).kind /\ p.pc = pc /\ p.cause = Top(c).cause
  BY SetPc
<1> HIDE DEF p
<1>3. IsActivation(l) /\ l.kind = p.kind /\ l.pc = p.pc /\ l.cause = p.cause
  BY <1>2, SetLeft, Constants
<1> HIDE DEF l
<1>4. IsActivation(u) /\ u.kind = l.kind /\ u.pc = l.pc /\ u.cause = l.cause /\ u.report = r
  BY <1>3, SetReport
<1> HIDE DEF u
<1> QED
  BY <1>1, <1>2, <1>3, <1>4, Zenon

\* What write_byte makes of it: one byte less, and on to the next or the end.
LEMMA PutIs ==
    ASSUME NEW c, IsActivation(Top(c)), Put(c)
    PROVE  \E a : IsActivation(a) /\ a.kind = Top(c).kind /\ Becomes(c, a)
                  /\ a.left = Top(c).left - 1
                  /\ a.cause = Top(c).cause /\ a.report = Top(c).report
                  /\ a.pc = IF Top(c).left > 1 THEN "poll"
                            ELSE IF Top(c).kind = "kernel" THEN "unlock" ELSE "done"
<1> DEFINE next == IF Top(c).left > 1 THEN "poll"
                   ELSE IF Top(c).kind = "kernel" THEN "unlock" ELSE "done"
           l == [Top(c) EXCEPT !.left = @ - 1]
           u == [l EXCEPT !.pc = next]
<1>1. Becomes(c, u)
  BY DEF Put
<1> HIDE DEF next
<1>2. /\ IsActivation(l) /\ l.kind = Top(c).kind /\ l.left = Top(c).left - 1
      /\ l.cause = Top(c).cause /\ l.report = Top(c).report
  <2>1. Top(c).left - 1 \in Int /\ l = [Top(c) EXCEPT !.left = Top(c).left - 1]
    BY DEF IsActivation
  <2> QED
    BY <2>1, SetLeft
<1> HIDE DEF l
<1>3. /\ IsActivation(u) /\ u.kind = l.kind /\ u.pc = next /\ u.left = l.left
      /\ u.cause = l.cause /\ u.report = l.report
  BY <1>2, SetPc
<1> HIDE DEF u
<1>4. \E a : IsActivation(a) /\ a.kind = Top(c).kind /\ Becomes(c, a)
             /\ a.left = Top(c).left - 1 /\ a.pc = next
             /\ a.cause = Top(c).cause /\ a.report = Top(c).report
  BY <1>1, <1>2, <1>3, Zenon
<1> QED
  BY <1>4, Zenon DEF next

-----------------------------------------------------------------------------
(* Invariance.                                                             *)

\* The invariant holds at reset: no line, no lock, an empty FIFO.
LEMMA InitIInv == Init => IInv
<1> SUFFICES ASSUME Init PROVE IInv
  OBVIOUS
<1> DEFINE b == Activation("kernel", "run", None)
<1>1. IsActivation(b) /\ b.kind = "kernel" /\ b.pc = "run"
  BY DEF Activation, IsActivation
<1>2. \A c \in Cpus : stack[c] = <<b>>
  BY DEF Init
<1> HIDE DEF b
<1>3. <<b>> \in Seq({b}) /\ <<b>> # << >> /\ Len(<<b>>) = 1 /\ <<b>>[1] = b
  OBVIOUS
<1>4. IsStack(<<b>>)
  <2>1. \A k \in 1 .. Len(<<b>>) : IsActivation(<<b>>[k])
    BY <1>1, <1>3
  <2>2. \E S : <<b>> \in Seq(S)
    BY <1>3, Zenon
  <2> QED
    BY <1>3, <2>1, <2>2, Zenon DEF IsStack
<1>5. ShapeOK
  <2>1. stack = [c \in Cpus |-> stack[c]]
    BY DEF Init
  <2> QED
    BY <1>2, <1>4, <2>1, Constants DEF ShapeOK, Init
<1>6. StackOK /\ LockOK /\ LineOK
  BY <1>1, <1>2, <1>3, Constants DEF StackOK, LockOK, LineOK, Init
<1>7. RoomOK /\ LossNeedsRaw
  BY Constants DEF RoomOK, LossNeedsRaw, Init
<1> QED
  BY <1>5, <1>6, <1>7 DEF IInv, WriteInv

\* A handler's step that writes nothing, or its next poll of the flag.
LEMMA HandlerStep ==
    ASSUME IInv, NEW c \in Cpus, Top(c).pc \notin {"run", "lock", "poll", "put", "unlock"},
           UNCHANGED <<lock, fifo, logs, lost, last>>
    PROVE  \A a : IsActivation(a) /\ a.kind = Top(c).kind /\ Becomes(c, a)
                   /\ a.pc \notin {"run", "lock", "put", "unlock"} => IInv'
<1> SUFFICES ASSUME NEW a, IsActivation(a), a.kind = Top(c).kind, Becomes(c, a),
                    a.pc \notin {"run", "lock", "put", "unlock"}
             PROVE  IInv'
  OBVIOUS
<1> DEFINE n == Len(stack[c])
<1>1. ShapeOK /\ StackOK /\ LockOK /\ LineOK /\ RoomOK /\ LossNeedsRaw
  BY DEF IInv, WriteInv
<1>2. /\ stack' = [d \in Cpus |-> stack'[d]] /\ \A d \in Cpus : IsStack(stack'[d])
      /\ \A d \in Cpus : d # c => stack'[d] = stack[d]
      /\ n \in Nat \ {0} /\ Len(stack'[c]) = n /\ stack'[c][n] = a
      /\ \A k \in 1 .. n : k # n => stack'[c][k] = stack[c][k]
  BY <1>1, BecomesStep
<1>3. n > 1 /\ Top(c) = stack[c][n]
  BY <1>1, <1>2, TopIs DEF StackOK
<1>4. \A d \in Cpus : stack'[d][1] = stack[d][1] /\ Len(stack'[d]) = Len(stack[d])
  BY <1>2, <1>3
<1>5. ShapeOK'
  BY <1>1, <1>2 DEF ShapeOK
<1>6. StackOK'
  <2> SUFFICES ASSUME NEW d \in Cpus, NEW k \in 2 .. Len(stack'[d])
               PROVE  stack'[d][k].kind # "kernel" /\ stack'[d][k].pc \notin {"run", "lock", "unlock"}
    BY <1>1, <1>4 DEF StackOK
  <2>1. CASE d = c /\ k = n
    BY <1>1, <1>2, <1>3, <2>1 DEF StackOK
  <2>2. CASE ~(d = c /\ k = n)
    BY <1>1, <1>2, <1>3, <1>4, <2>2 DEF StackOK
  <2> QED
    BY <2>1, <2>2
<1>7. LockOK' /\ LineOK'
  BY <1>1, <1>4, Zenon DEF LockOK, LineOK
<1>8. RoomOK'
  <2>1. \A d \in Cpus : At(d, "put")' => At(d, "put")
    BY <1>2 DEF At, Top
  <2>2. \A d \in Cpus : Raw(d)' = Raw(d)
    BY <1>4 DEF Raw
  <2> QED
    BY <1>1, <2>1, <2>2 DEF RoomOK
<1>9. LossNeedsRaw'
  BY <1>1, <1>4, Zenon DEF LossNeedsRaw, Raw, ShapeOK
<1> QED
  BY <1>5, <1>6, <1>7, <1>8, <1>9 DEF IInv, WriteInv

\* An exception or a panic.
LEMMA EntryStep ==
    ASSUME IInv, NEW c \in Cpus, UNCHANGED <<lock, fifo, logs, lost, last>>
    PROVE  \A a : IsActivation(a) /\ a.kind # "kernel" /\ a.pc \in {"save", "panic"}
                   /\ stack' = [stack EXCEPT ![c] = Append(@, a)] => IInv'
<1> SUFFICES ASSUME NEW a, IsActivation(a), a.kind # "kernel", a.pc \in {"save", "panic"},
                    stack' = [stack EXCEPT ![c] = Append(@, a)]
             PROVE  IInv'
  BY Zenon
<1> DEFINE n == Len(stack[c])
<1>1. ShapeOK /\ StackOK /\ LockOK /\ LineOK /\ RoomOK /\ LossNeedsRaw
  BY DEF IInv, WriteInv
<1>2. /\ stack' = [d \in Cpus |-> stack'[d]] /\ \A d \in Cpus : IsStack(stack'[d])
      /\ \A d \in Cpus : d # c => stack'[d] = stack[d]
      /\ n \in Nat \ {0} /\ Len(stack'[c]) = n + 1 /\ stack'[c][n + 1] = a
      /\ \A k \in 1 .. n : stack'[c][k] = stack[c][k]
  BY <1>1, PushStep, Zenon
<1>3. \A d \in Cpus : stack'[d][1] = stack[d][1] /\ (Raw(d) => Raw(d)')
  BY <1>2 DEF Raw
<1>4. ShapeOK'
  BY <1>1, <1>2 DEF ShapeOK
<1>5. StackOK'
  <2> SUFFICES ASSUME NEW d \in Cpus, NEW k \in 2 .. Len(stack'[d])
               PROVE  stack'[d][k].kind # "kernel" /\ stack'[d][k].pc \notin {"run", "lock", "unlock"}
    BY <1>1, <1>3 DEF StackOK
  <2>1. CASE d = c /\ k = n + 1
    BY <1>2, <2>1
  <2>2. CASE d = c /\ k # n + 1
    BY <1>1, <1>2, <2>2 DEF StackOK
  <2>3. CASE d # c
    BY <1>1, <1>2, <2>3, Zenon DEF StackOK
  <2> QED
    BY <2>1, <2>2, <2>3, Zenon
<1>6. LockOK' /\ LineOK'
  BY <1>1, <1>3 DEF LockOK, LineOK
<1>7. RoomOK'
  <2>1. \A d \in Cpus : At(d, "put")' => d # c /\ At(d, "put") /\ (Raw(d)' = Raw(d))
    BY <1>2 DEF At, Top, Raw
  <2> QED
    BY <1>1, <1>3, <2>1 DEF RoomOK
<1>8. LossNeedsRaw'
  BY <1>1, <1>3 DEF LossNeedsRaw, ShapeOK
<1> QED
  BY <1>4, <1>5, <1>6, <1>7, <1>8 DEF IInv, WriteInv

\* What a CPU's step on its running activation leaves to show.
LEMMA StepFrame ==
    ASSUME IInv, NEW c \in Cpus
    PROVE  \A a : IsActivation(a) /\ a.kind = Top(c).kind /\ Becomes(c, a) =>
               /\ stack' = [d \in Cpus |-> stack'[d]] /\ \A d \in Cpus : IsStack(stack'[d])
               /\ \A d \in Cpus : d # c => stack'[d] = stack[d]
               /\ \A d \in Cpus : Raw(d)' = Raw(d)
               /\ \A d \in Cpus : d # c => At(d, "put")' = At(d, "put")
               /\ At(c, "put")' = (a.pc = "put")
               /\ ~ Raw(c) => stack[c][1] = Top(c) /\ stack'[c][1] = a
               /\ Raw(c) => stack'[c][1] = stack[c][1]
               /\ \A k \in 2 .. Len(stack'[c]) :
                     stack'[c][k].kind # "kernel" /\ stack'[c][k].pc \in {stack[c][k].pc, a.pc}
<1> SUFFICES ASSUME NEW a, IsActivation(a), a.kind = Top(c).kind, Becomes(c, a)
             PROVE  /\ stack' = [d \in Cpus |-> stack'[d]] /\ \A d \in Cpus : IsStack(stack'[d])
                    /\ \A d \in Cpus : d # c => stack'[d] = stack[d]
                    /\ \A d \in Cpus : Raw(d)' = Raw(d)
                    /\ \A d \in Cpus : d # c => At(d, "put")' = At(d, "put")
                    /\ At(c, "put")' = (a.pc = "put")
                    /\ ~ Raw(c) => stack[c][1] = Top(c) /\ stack'[c][1] = a
                    /\ Raw(c) => stack'[c][1] = stack[c][1]
                    /\ \A k \in 2 .. Len(stack'[c]) :
                          stack'[c][k].kind # "kernel" /\ stack'[c][k].pc \in {stack[c][k].pc, a.pc}
  BY Zenon
<1> DEFINE n == Len(stack[c])
<1>1. ShapeOK /\ StackOK
  BY DEF IInv, WriteInv
<1>2. /\ stack' = [d \in Cpus |-> stack'[d]] /\ \A d \in Cpus : IsStack(stack'[d])
      /\ \A d \in Cpus : d # c => stack'[d] = stack[d]
      /\ n \in Nat \ {0} /\ Len(stack'[c]) = n /\ stack'[c][n] = a
      /\ \A k \in 1 .. n : k # n => stack'[c][k] = stack[c][k]
  BY <1>1, BecomesStep
<1>3. Top(c) = stack[c][n]
  BY <1>1, TopIs
<1>4. \A d \in Cpus : Raw(d)' = Raw(d)
  BY <1>2 DEF Raw
<1>5. \A d \in Cpus : d # c => At(d, "put")' = At(d, "put")
  BY <1>2 DEF At, Top
<1>6. At(c, "put")' = (a.pc = "put")
  BY <1>2 DEF At, Top
<1>7. ~ Raw(c) => stack[c][1] = Top(c) /\ stack'[c][1] = a
  BY <1>2, <1>3 DEF Raw
<1>8. Raw(c) => stack'[c][1] = stack[c][1]
  BY <1>2 DEF Raw
<1>9. ASSUME NEW k \in 2 .. Len(stack'[c])
      PROVE  stack'[c][k].kind # "kernel" /\ stack'[c][k].pc \in {stack[c][k].pc, a.pc}
  <2>1. CASE k = n
    BY <1>1, <1>2, <1>3, <2>1 DEF StackOK
  <2>2. CASE k # n
    BY <1>1, <1>2, <2>2 DEF StackOK
  <2> QED
    BY <2>1, <2>2, Zenon
<1> QED
  BY <1>2, <1>4, <1>5, <1>6, <1>7, <1>8, <1>9, Zenon

\* Only the kernel's own activation is at these points, or is the kernel's.
LEMMA BaseRuns ==
    ASSUME IInv, NEW c \in Cpus
    PROVE  /\ Top(c).pc \in {"run", "lock", "unlock"} => ~ Raw(c)
           /\ Top(c).kind = "kernel" <=> ~ Raw(c)
           /\ IsActivation(Top(c))
           /\ ~ Raw(c) => Top(c) = stack[c][1]
<1>1. ShapeOK /\ StackOK
  BY DEF IInv, WriteInv
<1>2. Len(stack[c]) \in Nat \ {0} /\ Top(c) = stack[c][Len(stack[c])] /\ IsActivation(Top(c))
  BY <1>1, TopIs
<1> QED
  BY <1>1, <1>2 DEF StackOK, Raw

\* StackOK after a step that begins no line.
LEMMA StackOneStep ==
    ASSUME IInv, NEW c \in Cpus, UNCHANGED logs, Top(c).pc # "run"
    PROVE  \A a : IsActivation(a) /\ a.kind = Top(c).kind /\ Becomes(c, a)
                   /\ (Raw(c) => a.pc \notin {"run", "lock", "unlock"})
                   /\ (~ Raw(c) => a.pc \in {"run", "lock", "poll", "put", "unlock"})
                   => StackOK'
<1> SUFFICES ASSUME NEW a, IsActivation(a), a.kind = Top(c).kind, Becomes(c, a),
                    Raw(c) => a.pc \notin {"run", "lock", "unlock"},
                    ~ Raw(c) => a.pc \in {"run", "lock", "poll", "put", "unlock"}
             PROVE  StackOK'
  OBVIOUS
<1>1. ShapeOK /\ StackOK
  BY DEF IInv, WriteInv
<1>2. /\ \A d \in Cpus : IsStack(stack'[d])
      /\ \A d \in Cpus : d # c => stack'[d] = stack[d]
      /\ \A d \in Cpus : Raw(d)' = Raw(d)
      /\ ~ Raw(c) => stack[c][1] = Top(c) /\ stack'[c][1] = a
      /\ Raw(c) => stack'[c][1] = stack[c][1]
      /\ \A k \in 2 .. Len(stack'[c]) :
            stack'[c][k].kind # "kernel" /\ stack'[c][k].pc \in {stack[c][k].pc, a.pc}
  BY StepFrame, Zenon
<1>3. ASSUME NEW k \in 2 .. Len(stack'[c]) PROVE k \in 2 .. Len(stack[c]) /\ Raw(c)
  <2>1. Len(stack'[c]) = Len(stack[c]) /\ Len(stack[c]) \in Nat
    BY <1>1, BecomesStep
  <2> QED
    BY <2>1 DEF Raw
<1>4. \A k \in 2 .. Len(stack'[c]) : stack'[c][k].pc \notin {"run", "lock", "unlock"}
  BY <1>1, <1>2, <1>3, Zenon DEF StackOK
<1>5. CASE ~ Raw(c)
  BY <1>1, <1>2, <1>4, <1>5, SMTT(60) DEF StackOK
<1>6. CASE Raw(c)
  BY <1>1, <1>2, <1>4, <1>6 DEF StackOK
<1> QED
  BY <1>5, <1>6

\* Outside write_byte: the kernel's line begins, takes the lock, gives it up.
LEMMA KernelLogStep == ASSUME IInv, NEW c \in Cpus, KernelLog(c) PROVE IInv'
<1>1. ShapeOK /\ StackOK /\ LockOK /\ LineOK /\ RoomOK /\ LossNeedsRaw
  BY DEF IInv, WriteInv
<1>2. ~ Raw(c) /\ Top(c).kind = "kernel" /\ Top(c).pc = "run" /\ IsActivation(Top(c))
  BY BaseRuns DEF KernelLog, At
<1>3. PICK a : /\ IsActivation(a) /\ a.kind = Top(c).kind /\ Becomes(c, a)
               /\ a.pc = "lock" /\ a.left = LineBytes
  BY <1>2, KernelLogIs
<1>4. /\ stack' = [d \in Cpus |-> stack'[d]] /\ \A d \in Cpus : IsStack(stack'[d])
      /\ \A d \in Cpus : d # c => stack'[d] = stack[d]
      /\ \A d \in Cpus : Raw(d)' = Raw(d)
      /\ \A d \in Cpus : d # c => At(d, "put")' = At(d, "put")
      /\ At(c, "put")' = (a.pc = "put")
      /\ stack[c][1] = Top(c) /\ stack'[c][1] = a
      /\ \A k \in 2 .. Len(stack'[c]) :
            stack'[c][k].kind # "kernel" /\ stack'[c][k].pc \in {stack[c][k].pc, a.pc}
  BY <1>2, <1>3, StepFrame, Zenon
<1>5. ShapeOK'
  BY <1>1, <1>4 DEF ShapeOK, KernelLog
<1>6. \A d \in Cpus : logs'[d] >= logs[d] /\ logs'[c] > 0 /\ logs[d] \in Nat
  BY <1>1 DEF ShapeOK, KernelLog
<1>7. StackOK'
  <2>1. ASSUME NEW d \in Cpus, d # c
        PROVE  stack'[d] = stack[d] /\ logs'[d] = logs[d]
    BY <1>1, <1>4, <2>1 DEF KernelLog, ShapeOK
  <2>2. ASSUME NEW k \in 2 .. Len(stack'[c]) PROVE FALSE
    BY <1>2, <1>4, <1>5, TopIs DEF Raw, ShapeOK, IsStack
  <2> QED
    BY <1>1, <1>2, <1>3, <1>4, <1>6, <2>1, <2>2, SMTT(60) DEF StackOK
<1>8. LockOK' /\ LineOK'
  BY <1>1, <1>2, <1>3, <1>4, Constants, SMTT(60) DEF LockOK, LineOK, KernelLog
<1>9. RoomOK'
  BY <1>1, <1>3, <1>4, <1>6, Zenon DEF RoomOK, KernelLog
<1>10. LossNeedsRaw'
  BY <1>1, <1>4, <1>6 DEF LossNeedsRaw, KernelLog, ShapeOK
<1> QED
  BY <1>5, <1>6, <1>7, <1>8, <1>9, <1>10 DEF IInv, WriteInv

\* UART.lock() is granted when no line is under way.
LEMMA LockStep == ASSUME IInv, NEW c \in Cpus, Lock(c) PROVE IInv'
<1>1. ShapeOK /\ StackOK /\ LockOK /\ LineOK /\ RoomOK /\ LossNeedsRaw
  BY DEF IInv, WriteInv
<1>2. ~ Raw(c) /\ Top(c).kind = "kernel" /\ Top(c).pc = "lock" /\ IsActivation(Top(c))
  BY BaseRuns DEF Lock, At
<1>3. PICK a : /\ IsActivation(a) /\ a.kind = Top(c).kind /\ Becomes(c, a)
               /\ a.pc = "poll" /\ a.left = Top(c).left
  BY <1>2, GotoIs DEF Lock
<1>4. /\ stack' = [d \in Cpus |-> stack'[d]] /\ \A d \in Cpus : IsStack(stack'[d])
      /\ \A d \in Cpus : d # c => stack'[d] = stack[d]
      /\ \A d \in Cpus : Raw(d)' = Raw(d)
      /\ \A d \in Cpus : d # c => At(d, "put")' = At(d, "put")
      /\ At(c, "put")' = (a.pc = "put")
      /\ stack[c][1] = Top(c) /\ stack'[c][1] = a
      /\ \A k \in 2 .. Len(stack'[c]) :
            stack'[c][k].kind # "kernel" /\ stack'[c][k].pc \in {stack[c][k].pc, a.pc}
  BY <1>2, <1>3, StepFrame, Zenon
<1>5. ShapeOK'
  BY <1>1, <1>4 DEF ShapeOK, Lock
<1>6. StackOK'
  BY <1>1, <1>2, <1>3, <1>4, <1>5, StackOneStep DEF Lock
<1>7. LockOK'
  BY <1>1, <1>3, <1>4, Constants, Zenon DEF LockOK, Lock
<1>8. LineOK'
  <2>1. \A d \in Cpus : stack[d][1].pc \notin {"poll", "put"}
    BY <1>1, Constants DEF LockOK, Lock
  <2>2. ~(last # None /\ last.left > 0)
    BY <1>1, <2>1 DEF LineOK
  <2> QED
    BY <1>1, <1>2, <1>3, <1>4, <2>1, <2>2, Zenon DEF LineOK, Lock
<1>9. RoomOK'
  BY <1>1, <1>3, <1>4, Zenon DEF RoomOK, Lock
<1>10. LossNeedsRaw'
  BY <1>1, <1>4 DEF LossNeedsRaw, Lock, ShapeOK
<1> QED
  BY <1>5, <1>6, <1>7, <1>8, <1>9, <1>10 DEF IInv, WriteInv

\* The guard is dropped after the last byte.
LEMMA UnlockStep == ASSUME IInv, NEW c \in Cpus, Unlock(c) PROVE IInv'
<1>1. ShapeOK /\ StackOK /\ LockOK /\ LineOK /\ RoomOK /\ LossNeedsRaw
  BY DEF IInv, WriteInv
<1>2. ~ Raw(c) /\ Top(c).kind = "kernel" /\ Top(c).pc = "unlock" /\ IsActivation(Top(c))
  BY BaseRuns DEF Unlock, At
<1>3. PICK a : /\ IsActivation(a) /\ a.kind = Top(c).kind /\ Becomes(c, a)
               /\ a.pc = "run" /\ a.left = Top(c).left
  BY <1>2, GotoIs DEF Unlock
<1>4. /\ stack' = [d \in Cpus |-> stack'[d]] /\ \A d \in Cpus : IsStack(stack'[d])
      /\ \A d \in Cpus : d # c => stack'[d] = stack[d]
      /\ \A d \in Cpus : Raw(d)' = Raw(d)
      /\ \A d \in Cpus : d # c => At(d, "put")' = At(d, "put")
      /\ At(c, "put")' = (a.pc = "put")
      /\ stack[c][1] = Top(c) /\ stack'[c][1] = a
      /\ \A k \in 2 .. Len(stack'[c]) :
            stack'[c][k].kind # "kernel" /\ stack'[c][k].pc \in {stack[c][k].pc, a.pc}
  BY <1>2, <1>3, StepFrame, Zenon
<1>5. ShapeOK'
  BY <1>1, <1>4 DEF ShapeOK, Unlock
<1>6. StackOK'
  BY <1>1, <1>2, <1>3, <1>4, <1>5, StackOneStep DEF Unlock
<1>7. LockOK'
  BY <1>1, <1>2, <1>3, <1>4, Constants DEF LockOK, Unlock
<1>8. LineOK'
  BY <1>1, <1>2, <1>3, <1>4, Zenon DEF LineOK, Unlock
<1>9. RoomOK'
  BY <1>1, <1>3, <1>4, Zenon DEF RoomOK, Unlock
<1>10. LossNeedsRaw'
  BY <1>1, <1>4 DEF LossNeedsRaw, Unlock, ShapeOK
<1> QED
  BY <1>5, <1>6, <1>7, <1>8, <1>9, <1>10 DEF IInv, WriteInv

\* write_byte, by the kernel under the lock and by a handler without.
LEMMA PollStep == ASSUME IInv, NEW c \in Cpus, Poll(c) PROVE IInv'
<1>1. ShapeOK /\ StackOK /\ LockOK /\ LineOK /\ RoomOK /\ LossNeedsRaw
  BY DEF IInv, WriteInv
<1>2. Top(c).pc = "poll" /\ IsActivation(Top(c))
  BY BaseRuns DEF Poll, At
<1>3. PICK a : /\ IsActivation(a) /\ a.kind = Top(c).kind /\ Becomes(c, a)
               /\ a.pc = "put" /\ a.left = Top(c).left
  BY <1>2, GotoIs DEF Poll
<1>4. /\ stack' = [d \in Cpus |-> stack'[d]] /\ \A d \in Cpus : IsStack(stack'[d])
      /\ \A d \in Cpus : d # c => stack'[d] = stack[d]
      /\ \A d \in Cpus : Raw(d)' = Raw(d)
      /\ \A d \in Cpus : d # c => At(d, "put")' = At(d, "put")
      /\ At(c, "put")' = (a.pc = "put")
      /\ ~ Raw(c) => stack[c][1] = Top(c) /\ stack'[c][1] = a
      /\ Raw(c) => stack'[c][1] = stack[c][1]
  BY <1>3, StepFrame
<1>5. ShapeOK'
  BY <1>1, <1>4 DEF ShapeOK, Poll
<1>6. StackOK'
  BY <1>2, <1>3, StackOneStep DEF Poll
<1>7. LockOK'
  BY <1>1, <1>2, <1>3, <1>4 DEF LockOK, Poll
<1>8. LineOK'
  BY <1>1, <1>2, <1>3, <1>4 DEF LineOK, Poll
<1>9. RoomOK'
  <2>1. fifo # Depth
    BY DEF Poll, HasFlags, UartFr, TXFF
  <2>2. ~(fifo' >= Depth)
    BY <1>1, <2>1, Constants DEF ShapeOK, Poll
  <2> QED
    BY <2>2 DEF RoomOK
<1>10. LossNeedsRaw'
  BY <1>1, <1>4 DEF LossNeedsRaw, Poll, ShapeOK
<1> QED
  BY <1>5, <1>6, <1>7, <1>8, <1>9, <1>10 DEF IInv, WriteInv

\* The write to the data register: another CPU about to write has this one in
\* its way, the one past the lock or the one that holds it.
LEMMA PutStep == ASSUME IInv, NEW c \in Cpus, Put(c) PROVE IInv'
<1>1. ShapeOK /\ StackOK /\ LockOK /\ LineOK /\ RoomOK /\ LossNeedsRaw
  BY DEF IInv, WriteInv
<1>2. /\ Top(c).pc = "put" /\ IsActivation(Top(c)) /\ Top(c).left \in Int
      /\ Top(c).kind = "kernel" <=> ~ Raw(c)
  BY BaseRuns DEF Put, At, IsActivation
<1>3. PICK a : /\ IsActivation(a) /\ a.kind = Top(c).kind /\ Becomes(c, a)
               /\ a.left = Top(c).left - 1
               /\ a.pc = IF Top(c).left > 1 THEN "poll"
                         ELSE IF Top(c).kind = "kernel" THEN "unlock" ELSE "done"
  BY <1>2, PutIs
<1>4. /\ stack' = [d \in Cpus |-> stack'[d]] /\ \A d \in Cpus : IsStack(stack'[d])
      /\ \A d \in Cpus : d # c => stack'[d] = stack[d]
      /\ \A d \in Cpus : Raw(d)' = Raw(d)
      /\ \A d \in Cpus : d # c => At(d, "put")' = At(d, "put")
      /\ At(c, "put")' = (a.pc = "put")
      /\ ~ Raw(c) => stack[c][1] = Top(c) /\ stack'[c][1] = a
      /\ Raw(c) => stack'[c][1] = stack[c][1]
  BY <1>3, StepFrame, Zenon
<1>a. a.pc \in {"poll", "unlock", "done"} /\ (Raw(c) => a.pc # "unlock") /\ (~ Raw(c) => a.pc # "done")
  BY <1>2, <1>3
<1>b. lock' = lock /\ logs' = logs /\ (Raw(c) => last' = last)
      /\ (~ Raw(c) => last' = [cpu |-> c, left |-> Top(c).left - 1])
  BY <1>2 DEF Put
<1>c. ~ Raw(c) => lock = c /\ logs[c] > 0
  BY <1>1, <1>2, <1>4 DEF LockOK, StackOK
<1>d. fifo' \in 0 .. Depth /\ lost' \subseteq lost \cup {c} /\ (lost' # lost => fifo >= Depth)
  BY <1>1, Constants DEF Put, ShapeOK
<1>5. ShapeOK'
  <2>1. last' # None => last'.left \in Int
    BY <1>1, <1>2, <1>b DEF ShapeOK
  <2> QED
    BY <1>1, <1>4, <1>b, <1>d, <2>1, Zenon DEF ShapeOK
<1>6. StackOK'
  BY <1>2, <1>3, <1>a, <1>b, StackOneStep
<1>7. LockOK'
  <2>1. CASE Raw(c)
    BY <1>1, <1>4, <1>b, <2>1 DEF LockOK
  <2>2. CASE ~ Raw(c)
    BY <1>1, <1>4, <1>a, <1>b, <1>c, <2>2 DEF LockOK
  <2> QED
    BY <2>1, <2>2
<1>8. LineOK'
  <2>1. CASE Raw(c)
    BY <1>1, <1>4, <1>b, <2>1 DEF LineOK
  <2>2. CASE ~ Raw(c)
    <3>1. \A d \in Cpus : d # c => stack'[d][1].pc \notin {"poll", "put"}
      BY <1>1, <1>4, <1>c, <2>2 DEF LockOK
    <3>2. stack'[c][1] = a /\ last'.cpu = c /\ last'.left = a.left
      BY <1>3, <1>4, <1>b, <2>2
    <3>3. a.left > 0 <=> a.pc = "poll"
      <4>1. a.left > 0 <=> Top(c).left > 1
        BY <1>2, <1>3
      <4>2. Top(c).left > 1 <=> a.pc = "poll"
        BY <1>2, <1>3, <2>2
      <4> QED
        BY <4>1, <4>2
    <3> QED
      BY <1>1, <1>4, <1>a, <3>1, <3>2, <3>3 DEF LineOK
  <2> QED
    BY <2>1, <2>2
<1>9. RoomOK'
  <2> SUFFICES ASSUME NEW d \in Cpus, At(d, "put")'
               PROVE  \E e \in Cpus \ {d} : Raw(e)' \/ (Raw(d)' /\ logs'[e] > 0)
    BY DEF RoomOK
  <2>1. d # c /\ At(d, "put")
    BY <1>4, <1>a, Zenon
  <2>2. CASE Raw(c)
    BY <1>4, <2>1, <2>2
  <2>3. CASE ~ Raw(c)
    <3>1. ~ Raw(d) => lock = d
      BY <1>1, <2>1, BaseRuns DEF LockOK, At
    <3> QED
      BY <1>4, <1>b, <1>c, <2>1, <2>3, <3>1
  <2> QED
    BY <2>2, <2>3
<1>10. LossNeedsRaw'
  <2>1. lost' # lost => \E d \in Cpus \ {c} : Raw(d) \/ (Raw(c) /\ logs[d] > 0)
    BY <1>1, <1>2, <1>d DEF RoomOK, At
  <2> QED
    BY <1>1, <1>4, <1>b, <1>d, <2>1 DEF LossNeedsRaw, ShapeOK
<1> QED
  BY <1>5, <1>6, <1>7, <1>8, <1>9, <1>10 DEF IInv, WriteInv

\* The handlers from save_context to wfe_loop!, but for their writing.
LEMMA HandlerSteps ==
    ASSUME IInv, NEW c \in Cpus,
           \/ SaveContext(c) \/ Dispatch(c) \/ HandlePageFault(c) \/ Dump(c)
           \/ PanicDump(c) \/ WfeLoop(c)
    PROVE  IInv'
<1>1. IsActivation(Top(c))
  BY BaseRuns
<1>2. ASSUME UNCHANGED <<lock, fifo, logs, lost, last>>,
             Top(c).pc \notin {"run", "lock", "poll", "put", "unlock"},
             \E a : IsActivation(a) /\ a.kind = Top(c).kind /\ Becomes(c, a)
                    /\ a.pc \notin {"run", "lock", "put", "unlock"}
      PROVE  IInv'
  BY <1>2, HandlerStep
<1>3. CASE SaveContext(c)
  <2>1. \E a : IsActivation(a) /\ a.kind = Top(c).kind /\ Becomes(c, a) /\ a.pc = "dispatch"
    BY <1>1, <1>3, SaveContextIs, Zenon
  <2> QED
    BY <1>2, <1>3, <2>1 DEF SaveContext, At
<1>4. CASE Dispatch(c)
  <2>1. PICK pc \in {"fault", "dump"} : Goto(c, pc)
    BY <1>4 DEF Dispatch
  <2>2. \E a : IsActivation(a) /\ a.kind = Top(c).kind /\ Becomes(c, a) /\ a.pc = pc
    BY <1>1, <2>1, GotoIs
  <2> QED
    BY <1>2, <1>4, <2>2, Zenon DEF Dispatch, At
<1>5. ASSUME NEW r, Compose(c, r, "poll"), Top(c).pc \in {"fault", "dump", "panic"}
      PROVE  IInv'
  <2>1. \E a : IsActivation(a) /\ a.kind = Top(c).kind /\ Becomes(c, a) /\ a.pc = "poll"
    BY <1>1, <1>5, ComposeIs
  <2> QED
    BY <1>2, <1>5, <2>1 DEF Compose
<1>6. CASE HandlePageFault(c) \/ Dump(c) \/ PanicDump(c)
  <2>1. PICK r : Compose(c, r, "poll")
    BY <1>6, Zenon DEF HandlePageFault, Dump, PanicDump
  <2>2. Top(c).pc \in {"fault", "dump", "panic"}
    BY <1>6, Zenon DEF HandlePageFault, Dump, PanicDump, At
  <2> QED
    BY <1>5, <2>1, <2>2
<1>7. CASE WfeLoop(c)
  <2>1. \E a : IsActivation(a) /\ a.kind = Top(c).kind /\ Becomes(c, a) /\ a.pc = "park"
    BY <1>1, <1>7, GotoIs DEF WfeLoop
  <2> QED
    BY <1>2, <1>7, <2>1, Zenon DEF WfeLoop, At
<1> QED
  BY <1>3, <1>4, <1>6, <1>7

\* el1_sync is taken, or the kernel panics.
LEMMA EntrySteps == ASSUME IInv, NEW c \in Cpus, Trap(c) \/ Panic(c) PROVE IInv'
<1>1. \E a : IsActivation(a) /\ a.kind # "kernel" /\ a.pc \in {"save", "panic"}
             /\ stack' = [stack EXCEPT ![c] = Append(@, a)]
  <2>1. ASSUME NEW kind \in {"trap", "panic"}, NEW pc \in {"save", "panic"}, NEW cause,
               stack' = [stack EXCEPT ![c] = Append(@, Activation(kind, pc, cause))]
        PROVE  \E a : IsActivation(a) /\ a.kind # "kernel" /\ a.pc \in {"save", "panic"}
                      /\ stack' = [stack EXCEPT ![c] = Append(@, a)]
    <3> DEFINE b == Activation(kind, pc, cause)
    <3>1. IsActivation(b) /\ b.kind # "kernel" /\ b.pc \in {"save", "panic"}
      BY DEF Activation, IsActivation
    <3>2. stack' = [stack EXCEPT ![c] = Append(@, b)]
      BY <2>1
    <3> HIDE DEF b
    <3> QED
      BY <3>1, <3>2, Zenon
  <2>2. CASE Trap(c)
    <3>1. PICK cause : stack' = [stack EXCEPT ![c] = Append(@, Activation("trap", "save", cause))]
      BY <2>2, Zenon DEF Trap
    <3> QED
      BY <2>1, <3>1, Zenon
  <2>3. CASE Panic(c)
    <3>1. stack' = [stack EXCEPT ![c] = Append(@, Activation("panic", "panic", None))]
      BY <2>3 DEF Panic
    <3> QED
      BY <2>1, <3>1, Zenon
  <2> QED
    BY <2>2, <2>3
<1>2. UNCHANGED <<lock, fifo, logs, lost, last>>
  BY DEF Trap, Panic
<1> QED
  BY <1>1, <1>2, EntryStep, Zenon

\* The UART sends a byte, which only makes room.
LEMMA DrainStep == ASSUME IInv, Drain PROVE IInv'
<1>1. /\ stack' = stack /\ lock' = lock /\ logs' = logs /\ lost' = lost /\ last' = last
      /\ fifo' = fifo - 1 /\ fifo > 0
  BY DEF Drain
<1>2. ShapeOK'
  BY <1>1, Constants DEF IInv, ShapeOK
<1>3. RoomOK'
  <2>1. fifo' >= Depth => fifo >= Depth
    BY <1>1, Constants DEF IInv, ShapeOK
  <2> QED
    BY <1>1, <2>1 DEF IInv, WriteInv, RoomOK, At, Top, Raw
<1>4. StackOK' /\ LockOK' /\ LineOK' /\ LossNeedsRaw'
  BY <1>1 DEF IInv, WriteInv, StackOK, LockOK, LineOK, LossNeedsRaw, Raw
<1> QED
  BY <1>2, <1>3, <1>4 DEF IInv, WriteInv

\* Every step keeps the invariant.
LEMMA StepIInv == IInv /\ [Next]_vars => IInv'
<1> SUFFICES ASSUME IInv, [Next]_vars PROVE IInv'
  OBVIOUS
<1>1. CASE UNCHANGED vars
  BY <1>1, SMTT(60) DEF vars, IInv, ShapeOK, WriteInv, StackOK, LockOK, LineOK, RoomOK,
     LossNeedsRaw,
              At, Top, Raw
<1>2. CASE Drain
  BY <1>2, DrainStep
<1>3. ASSUME NEW c \in Cpus, Run(c) \/ KernelLog(c) \/ Trap(c) \/ Panic(c)
      PROVE  IInv'
  BY <1>3, KernelLogStep, LockStep, PollStep, PutStep, UnlockStep, HandlerSteps, EntrySteps DEF Run
<1> QED
  BY <1>1, <1>2, <1>3 DEF Next

\* The stacks, UART's lock, the line under way and the room in the FIFO stay
\* consistent through every step of kernel_log!, the handlers and the panic.
THEOREM Invariance == Spec => []IInv
BY InitIInv, StepIInv, PTL DEF Spec

\* write_byte's test of TXFF and its write are safe under the lock: for any
\* number of CPUs, any FIFO depth and any line length a byte is dropped only
\* when another CPU writes past the lock, or this one does and another logs.
THEOREM LossesNeedRaw == Spec => []LossNeedsRaw
<1>1. IInv => LossNeedsRaw
  BY DEF IInv, WriteInv
<1> QED
  BY <1>1, Invariance, PTL

\* kernel_log! keeps its lines whole under UART's lock, whichever CPU traps or
\* panics in the middle of one.
THEOREM LinesAreWhole == Spec => LinesWhole
<1> DEFINE A == last' # last /\ last # None /\ last.left > 0 =>
                    last'.cpu = last.cpu /\ last'.left = last.left - 1
<1>1. ASSUME IInv, [Next]_vars PROVE [A]_vars
  <2> SUFFICES ASSUME last' # last, last # None, last.left > 0
               PROVE  last'.cpu = last.cpu /\ last'.left = last.left - 1
    OBVIOUS
  <2>1. PICK c \in Cpus : Put(c)
    BY <1>1, Zenon DEF Next, vars, Drain, Run, KernelLog, Lock, Poll, Unlock, SaveContext,
       Dispatch,
                HandlePageFault, Dump, PanicDump, Compose, WfeLoop, Trap, Panic
  <2>2. last' = [cpu |-> c, left |-> Top(c).left - 1] /\ Top(c).kind = "kernel" /\ Top(c).pc = "put"
    BY <2>1 DEF Put, At
  <2>3. Top(c) = stack[c][1]
    BY <1>1, <2>2, BaseRuns
  <2>4. LockOK /\ LineOK
    BY <1>1 DEF IInv, WriteInv
  <2>5. lock = c /\ last.left = Top(c).left
    BY <2>2, <2>3, <2>4, Zenon DEF LockOK, LineOK
  <2>6. last.cpu = c
    BY <2>4, <2>5 DEF LockOK, LineOK
  <2> QED
    BY <2>2, <2>5, <2>6
<1> QED
  BY <1>1, Invariance, PTL DEF Spec, LinesWhole

-----------------------------------------------------------------------------
(* Decoders.                                                               *)

\* A number of up to six bits can be read back from its field, whatever bits
\* the word has elsewhere.
LEMMA FieldBits ==
    ASSUME NEW n \in 0 .. 63, NEW lo \in Nat, NEW rest, \A b \in lo .. lo + 5 : b \notin rest
    PROVE  Bits(Field(n, lo) \cup rest, lo) = n
<1>1. /\ 2 ^ 0 = 1 /\ 2 ^ 1 = 2 /\ 2 ^ 2 = 4 /\ 2 ^ 3 = 8 /\ 2 ^ 4 = 16 /\ 2 ^ 5 = 32
  OBVIOUS
<1> DEFINE w == Field(n, lo) \cup rest
<1>2. ASSUME NEW b \in 0 .. 5
      PROVE  lo + b \in w <=> (n \div 2 ^ b) % 2 = 1
  <2>1. lo + b \notin rest
    OBVIOUS
  <2>2. \A k \in 0 .. 5 : lo + k = lo + b => k = b
    OBVIOUS
  <2>3. lo + b \in Field(n, lo) <=> b \in {k \in 0 .. 5 : (n \div 2 ^ k) % 2 = 1}
    BY <2>2 DEF Field
  <2>4. QED
    BY <2>1, <2>3
<1>3. /\ lo + 0 \in w <=> n % 2 = 1
      /\ lo + 1 \in w <=> (n \div 2) % 2 = 1
      /\ lo + 2 \in w <=> (n \div 4) % 2 = 1
      /\ lo + 3 \in w <=> (n \div 8) % 2 = 1
      /\ lo + 4 \in w <=> (n \div 16) % 2 = 1
      /\ lo + 5 \in w <=> (n \div 32) % 2 = 1
  <2>1. n \div 1 = n
    OBVIOUS
  <2>2. \A b \in 0 .. 5 : lo + b \in w <=> (n \div 2 ^ b) % 2 = 1
    BY <1>2, Zenon
  <2> HIDE DEF w
  <2>3. /\ lo + 0 \in w <=> (n \div 2 ^ 0) % 2 = 1
        /\ lo + 1 \in w <=> (n \div 2 ^ 1) % 2 = 1
        /\ lo + 2 \in w <=> (n \div 2 ^ 2) % 2 = 1
        /\ lo + 3 \in w <=> (n \div 2 ^ 3) % 2 = 1
        /\ lo + 4 \in w <=> (n \div 2 ^ 4) % 2 = 1
        /\ lo + 5 \in w <=> (n \div 2 ^ 5) % 2 = 1
    <3>1. 0 \in 0 .. 5 /\ 1 \in 0 .. 5 /\ 2 \in 0 .. 5 /\ 3 \in 0 .. 5 /\ 4 \in 0 .. 5 /\ 5 \in 0 .. 5
      OBVIOUS
    <3>2. QED
      BY <2>2, <3>1, Zenon
  <2>4. QED
    BY <1>1, <2>1, <2>3
<1> HIDE DEF w
<1>4. n = (n % 2) + 2 * ((n \div 2) % 2) + 4 * ((n \div 4) % 2) + 8 * ((n \div 8) % 2)
            + 16 * ((n \div 16) % 2) + 32 * ((n \div 32) % 2)
  OBVIOUS
<1>5. Bits(w, lo) = n
  <2>1. Bits(w, lo) = (IF lo + 0 \in w THEN 1 ELSE 0) + (IF lo + 1 \in w THEN 2 ELSE 0)
                      + (IF lo + 2 \in w THEN 4 ELSE 0) + (IF lo + 3 \in w THEN 8 ELSE 0)
                      + (IF lo + 4 \in w THEN 16 ELSE 0) + (IF lo + 5 \in w THEN 32 ELSE 0)
    BY <1>1 DEF Bits
  <2>2. \A m \in Nat : m % 2 = 0 \/ m % 2 = 1
    OBVIOUS
  <2>3. QED
    BY <1>3, <1>4, <2>1, <2>2
<1>6. QED
  BY <1>5 DEF w

\* The exception class of every syndrome of a cause that is no abort.
LEMMA OtherDecodes ==
    ASSUME NEW x \in DOMAIN Others, NEW cause, cause.access = x, NEW e \in Syndromes(cause)
    PROVE  /\ FromEc(EcRaw(e)) = Expected(cause, 1).class
           /\ FromEc(EcRaw(e)) \notin {"DataAbortSameEl", "InstrAbortSameEl"}
<1>1. DOMAIN Others = {"udf", "fp", "svc", "pc", "sp", "brk", "step"}
  BY DEF Others
<1>2. /\ Others[x] \in 0 .. 63 /\ x \notin Accesses
      /\ Others["udf"] = 0 /\ Others["fp"] = 7 /\ Others["svc"] = 21 /\ Others["pc"] = 34
      /\ Others["sp"] = 38 /\ Others["brk"] = 60 /\ Others["step"] = 51
  BY <1>1 DEF Others, Accesses
<1>3. PICK iss \in {{}, 0 .. 15} : e = Field(Others[x], 26) \cup ({25} \cup iss)
  BY <1>2 DEF Syndromes
<1>4. \A b \in 26 .. 31 : b \notin {25} \cup iss
  BY <1>3
<1>5. EcRaw(e) = Others[x]
  <2> DEFINE rest == {25} \cup iss
  <2>1. e = Field(Others[x], 26) \cup rest /\ \A b \in 26 .. 26 + 5 : b \notin rest
    BY <1>3, <1>4
  <2>2. PICK n \in 0 .. 63 : n = Others[x]
    BY <1>2
  <2> HIDE DEF rest
  <2>3. QED
    BY <2>1, <2>2, FieldBits, Zenon DEF EcRaw
<1>6. Expected(cause, 1).class = [udf |-> "Unknown", fp |-> "TrappedFp", svc |-> "SvcAArch64",
                     pc |-> "PcAlignment", sp |-> "SpAlignment", brk |-> "Brk",
                     step |-> "Other"][x]
  BY Zenon DEF Expected
<1>7. QED
  BY <1>1, <1>2, <1>5, <1>6 DEF FromEc

\* What every syndrome of an abort decodes to.
LEMMA AbortDecodes ==
    ASSUME NEW cause \in Cause, cause.access \in Accesses, NEW e \in Syndromes(cause)
    PROVE  /\ FromEc(EcRaw(e)) \in {"DataAbortSameEl", "InstrAbortSameEl"}
           /\ AccessKind(e) = cause.access
           /\ FarValid(e) = cause.far
           /\ FromDfsc(Dfsc(e)) = [fault |-> cause.fault, level |-> cause.level]
<1> DEFINE ec == IF cause.access = "execute" THEN 33 ELSE 37
           d == CASE cause.fault \in Range(Levelled) ->
                            4 * (CHOOSE k \in 1 .. 4 : Levelled[k] = cause.fault)
                              - 4 + cause.level
                      [] cause.fault = "Alignment" -> 33
                      [] OTHER -> 16
           fnv == IF cause.far THEN {} ELSE {10}
<1>1. PICK wnr \in BOOLEAN :
        /\ cause.access # "execute" => wnr = (cause.access = "write")
        /\ e = Field(ec, 26) \cup {25} \cup fnv \cup (IF wnr THEN {6} ELSE {}) \cup Field(d, 0)
  <2>1. PICK wnr \in (IF cause.access = "execute" THEN BOOLEAN ELSE {cause.access = "write"}) :
           e = Field(ec, 26) \cup {25} \cup fnv \cup (IF wnr THEN {6} ELSE {}) \cup Field(d, 0)
    BY DEF Syndromes
  <2>2. QED
    BY <2>1, Zenon
<1>2. /\ cause.far \in BOOLEAN
      /\ \/ cause.fault \in Range(Levelled) /\ cause.level \in 0 .. 3
         \/ cause.fault \in {"Alignment", "Other"} /\ cause.level = None
  BY Zenon DEF Cause, Accesses, Others
<1>3. /\ Range(Levelled) = {"AddressSize", "Translation", "AccessFlag", "Permission"}
      /\ Levelled[1] = "AddressSize" /\ Levelled[2] = "Translation"
      /\ Levelled[3] = "AccessFlag" /\ Levelled[4] = "Permission"
  BY DEF Range, Levelled
<1>4. d \in 0 .. 63 /\ FromDfsc(d) = [fault |-> cause.fault, level |-> cause.level]
  <2>1. CASE cause.fault \in Range(Levelled)
    <3>1. PICK j \in 1 .. 4 : Levelled[j] = cause.fault
      BY <1>3, <2>1
    <3>2. \A k \in 1 .. 4 : Levelled[k] = cause.fault => k = j
      BY <1>3, <3>1
    <3>3. (CHOOSE k \in 1 .. 4 : Levelled[k] = cause.fault) = j
      BY <3>1, <3>2
    <3>4. d = 4 * j - 4 + cause.level /\ cause.level \in 0 .. 3
      BY <1>2, <1>3, <2>1, <3>3
    <3>5. d \in 0 .. 15 /\ d \div 4 + 1 = j /\ d % 4 = cause.level
      BY <3>4
    <3> HIDE DEF d
    <3>6. QED
      BY <3>1, <3>5 DEF FromDfsc
  <2>2. CASE cause.fault = "Alignment" /\ cause.level = None
    BY <1>3, <2>2 DEF FromDfsc
  <2>3. CASE cause.fault = "Other" /\ cause.level = None
    BY <1>3, <2>3 DEF FromDfsc
  <2>4. QED
    BY <1>2, <2>1, <2>2, <2>3, Zenon
<1>5. ec \in 0 .. 63
  OBVIOUS
<1> HIDE DEF d, ec
<1>6. /\ \A b \in Field(ec, 26) : b \in 26 .. 31
      /\ \A b \in Field(d, 0) : b \in 0 .. 5
  BY DEF Field
<1>7. EcRaw(e) = ec
  <2> DEFINE rest == {25} \cup fnv \cup (IF wnr THEN {6} ELSE {}) \cup Field(d, 0)
  <2>1. e = Field(ec, 26) \cup rest
    BY <1>1
  <2>2. \A b \in 26 .. 26 + 5 : b \notin rest
    BY <1>6
  <2> HIDE DEF rest
  <2>3. QED
    BY <1>5, <2>1, <2>2, FieldBits, Zenon DEF EcRaw
<1>8. Dfsc(e) = d
  <2> DEFINE rest == Field(ec, 26) \cup {25} \cup fnv \cup (IF wnr THEN {6} ELSE {})
  <2>1. e = Field(d, 0) \cup rest
    BY <1>1
  <2>2. \A b \in 0 .. 0 + 5 : b \notin rest
    BY <1>6
  <2> HIDE DEF rest
  <2>3. QED
    BY <1>4, <2>1, <2>2, FieldBits, Zenon DEF Dfsc
<1>9. (6 \in e <=> wnr) /\ (10 \in e <=> ~cause.far)
  BY <1>1, <1>2, <1>6
<1>10. /\ cause.access = "execute" => FromEc(EcRaw(e)) = "InstrAbortSameEl"
       /\ cause.access # "execute" => FromEc(EcRaw(e)) = "DataAbortSameEl"
  BY <1>7 DEF FromEc, ec
<1>11. AccessKind(e) = cause.access
  BY <1>1, <1>9, <1>10 DEF AccessKind, IsWrite, Accesses
<1>12. FarValid(e) = cause.far
  BY <1>2, <1>9 DEF FarValid
<1>13. QED
  BY <1>4, <1>8, <1>10, <1>11, <1>12, Zenon

-----------------------------------------------------------------------------
(* Reports.                                                                *)

\* SPSR_EL1 of an exception taken at EL1 on SP_EL1, everything masked.
Spsr == {0, 2} \cup 6 .. 9

\* A handler that has not composed its report.
Pending == {"save", "dispatch", "fault", "dump"}

\* What the k-th activation, a handler, holds: the frame of its own exception,
\* the branch its cause calls for, and a report of that cause or none.
HandlerOK(a, k) ==
    /\ a.cause \in Cause /\ a.pc # "panic"
    /\ a.pc \in {"dispatch", "fault", "dump"} => a.frame = [elr |-> k - 1, spsr |-> Spsr]
    /\ a.pc = "fault" => a.cause.access \in Accesses
    /\ a.pc = "dump" => a.cause.access \in DOMAIN Others
    /\ a.report # None => a.report = Expected(a.cause, k - 1)

\* CPU c's registers are those of the exception its running handler is for.
RegsOK(c, cause) ==
    /\ elr[c] = Len(stack[c]) - 1 /\ spsr[c] = Spsr /\ esr[c] \in Syndromes(cause)
    /\ cause.access \in Accesses /\ cause.far => far[c] = Len(stack[c]) - 1

\* The handlers below the running one never run again, so their registers are
\* free to be overwritten.
ReportInv ==
    /\ work \in DOMAIN Workloads
    /\ esr = [c \in Cpus |-> esr[c]] /\ elr = [c \in Cpus |-> elr[c]]
    /\ far = [c \in Cpus |-> far[c]] /\ spsr = [c \in Cpus |-> spsr[c]]
    /\ \A c \in Cpus : \A k \in 1 .. Len(stack[c]) :
          stack[c][k].kind = "trap" => HandlerOK(stack[c][k], k)
    /\ \A c \in Cpus : Top(c).kind = "trap" /\ Top(c).pc \in Pending => RegsOK(c, Top(c).cause)

\* At reset no handler runs.
LEMMA InitReport == Init => ReportInv
<1> SUFFICES ASSUME Init PROVE ReportInv
  OBVIOUS
<1> DEFINE b == Activation("kernel", "run", None)
<1>1. b.kind = "kernel"
  BY DEF Activation
<1>2. \A c \in Cpus : stack[c] = <<b>>
  BY DEF Init
<1> HIDE DEF b
<1>3. \A c \in Cpus : Len(stack[c]) = 1 /\ stack[c][1] = b
  BY <1>2
<1>4. \A c \in Cpus : \A k \in 1 .. Len(stack[c]) : stack[c][k].kind = "kernel"
  BY <1>1, <1>3
<1>5. \A c \in Cpus : Top(c).kind = "kernel"
  BY <1>1, <1>3 DEF Top
<1>6. /\ work \in DOMAIN Workloads
      /\ esr = [c \in Cpus |-> esr[c]] /\ elr = [c \in Cpus |-> elr[c]]
      /\ far = [c \in Cpus |-> far[c]] /\ spsr = [c \in Cpus |-> spsr[c]]
  BY DEF Init
<1> QED
  BY <1>4, <1>5, <1>6 DEF ReportInv

\* A step of the running activation that leaves the registers alone.
LEMMA ReportStep ==
    ASSUME IInv, ReportInv, NEW c \in Cpus, UNCHANGED <<work, sysregs>>
    PROVE  \A a : /\ IsActivation(a) /\ a.kind = Top(c).kind /\ Becomes(c, a)
                  /\ a.kind = "trap" => /\ HandlerOK(a, Len(stack[c]))
                                        /\ a.pc \in Pending => /\ Top(c).pc \in Pending
                                                               /\ a.cause = Top(c).cause
                  => ReportInv'
<1> SUFFICES ASSUME NEW a, IsActivation(a), a.kind = Top(c).kind, Becomes(c, a),
                    a.kind = "trap" => /\ HandlerOK(a, Len(stack[c]))
                                       /\ a.pc \in Pending => /\ Top(c).pc \in Pending
                                                              /\ a.cause = Top(c).cause
             PROVE  ReportInv'
  BY Zenon
<1> DEFINE n == Len(stack[c])
<1>1. /\ \A d \in Cpus : d # c => stack'[d] = stack[d]
      /\ n \in Nat \ {0} /\ Len(stack'[c]) = n /\ stack'[c][n] = a
      /\ \A k \in 1 .. n : k # n => stack'[c][k] = stack[c][k]
  BY BecomesStep DEF IInv
<1>2. UNCHANGED <<work, esr, elr, far, spsr>>
  BY Zenon DEF sysregs
<1>3. ASSUME NEW d \in Cpus, NEW k \in 1 .. Len(stack'[d]), stack'[d][k].kind = "trap"
      PROVE  HandlerOK(stack'[d][k], k)
  <2>1. CASE d = c /\ k = n
    BY <1>1, <1>3, <2>1, Zenon
  <2>2. CASE ~(d = c /\ k = n)
    <3>1. k \in 1 .. Len(stack[d]) /\ stack'[d][k] = stack[d][k]
      BY <1>1, <2>2, Zenon
    <3> QED
      BY <1>3, <3>1, Zenon DEF ReportInv
  <2> QED
    BY <2>1, <2>2, Zenon
<1>4. ASSUME NEW d \in Cpus, (Top(d)').kind = "trap", (Top(d)').pc \in Pending
      PROVE  RegsOK(d, Top(d).cause)'
  <2>1. CASE d = c
    <3>1. Top(c)' = a
      BY <1>1, Zenon DEF Top
    <3>2. RegsOK(c, Top(c).cause) /\ a.cause = Top(c).cause
      BY <1>4, <2>1, <3>1, Zenon DEF ReportInv
    <3> QED
      BY <1>1, <1>2, <2>1, <3>1, <3>2, Zenon DEF RegsOK
  <2>2. CASE d # c
    <3>1. Top(d)' = Top(d) /\ stack'[d] = stack[d]
      BY <1>1, <2>2, Zenon DEF Top
    <3>2. RegsOK(d, Top(d).cause)
      BY <1>4, <3>1 DEF ReportInv
    <3> QED
      BY <1>2, <3>1, <3>2, Zenon DEF RegsOK
  <2> QED
    BY <2>1, <2>2, Zenon
<1> QED
  BY <1>2, <1>3, <1>4, Zenon DEF ReportInv

\* A step that keeps cause, frame and report and leaves the handler past its
\* reading: writing, and the end.
LEMMA WritingStep ==
    ASSUME IInv, ReportInv, NEW c \in Cpus, UNCHANGED <<work, sysregs>>
    PROVE  \A a : /\ IsActivation(a) /\ a.kind = Top(c).kind /\ Becomes(c, a)
                  /\ a.kind = "trap" => /\ a.cause = Top(c).cause /\ a.report = Top(c).report
                                        /\ a.pc \notin Pending \cup {"panic"}
                  => ReportInv'
<1> SUFFICES ASSUME NEW a, IsActivation(a), a.kind = Top(c).kind, Becomes(c, a),
                    a.kind = "trap" => /\ a.cause = Top(c).cause /\ a.report = Top(c).report
                                       /\ a.pc \notin Pending \cup {"panic"}
             PROVE  ReportInv'
  BY Zenon
<1>1. Len(stack[c]) \in Nat \ {0} /\ Top(c) = stack[c][Len(stack[c])]
  BY TopIs, Zenon DEF IInv
<1>2. Top(c).kind = "trap" => HandlerOK(Top(c), Len(stack[c]))
  BY <1>1 DEF ReportInv
<1>3. a.kind = "trap" => HandlerOK(a, Len(stack[c])) /\ a.pc \notin Pending
  BY <1>2, Zenon DEF HandlerOK, Pending
<1> QED
  BY <1>3, ReportStep, Zenon

\* kernel_log!, the lock, write_byte and wfe_loop! touch no report.
LEMMA WritingSteps ==
    ASSUME IInv, ReportInv, NEW c \in Cpus,
           KernelLog(c) \/ Lock(c) \/ Unlock(c) \/ Poll(c) \/ Put(c) \/ WfeLoop(c)
    PROVE  ReportInv'
<1>1. IsActivation(Top(c))
  BY BaseRuns, Zenon
<1>2. UNCHANGED <<work, sysregs>>
  BY DEF KernelLog, Lock, Unlock, Poll, Put, WfeLoop
<1> SUFFICES \E a : /\ IsActivation(a) /\ a.kind = Top(c).kind /\ Becomes(c, a)
                    /\ a.kind = "trap" => /\ a.cause = Top(c).cause /\ a.report = Top(c).report
                                          /\ a.pc \notin Pending \cup {"panic"}
  BY <1>2, WritingStep, Zenon
<1>3. CASE KernelLog(c)
  <2>1. Top(c).kind = "kernel"
    BY <1>3, BaseRuns DEF KernelLog, At
  <2> QED
    BY <1>1, <1>3, <2>1, KernelLogIs
<1>4. ASSUME NEW pc \in {"poll", "run", "put", "park"}, Goto(c, pc)
      PROVE  \E a : /\ IsActivation(a) /\ a.kind = Top(c).kind /\ Becomes(c, a)
                    /\ a.kind = "trap" => /\ a.cause = Top(c).cause /\ a.report = Top(c).report
                                          /\ a.pc \notin Pending \cup {"panic"}
  <2>1. pc \notin Pending \cup {"panic"}
    BY DEF Pending
  <2> QED
    BY <1>1, <1>4, <2>1, GotoIs
<1>5. CASE Lock(c) \/ Unlock(c) \/ Poll(c) \/ WfeLoop(c)
  <2>1. \E pc \in {"poll", "run", "put", "park"} : Goto(c, pc)
    BY <1>5, Zenon DEF Lock, Unlock, Poll, WfeLoop
  <2> QED
    BY <1>4, <2>1, Zenon
<1>6. CASE Put(c)
  <2>1. PICK a : /\ IsActivation(a) /\ a.kind = Top(c).kind /\ Becomes(c, a)
                 /\ a.cause = Top(c).cause /\ a.report = Top(c).report
                 /\ a.pc = IF Top(c).left > 1 THEN "poll"
                           ELSE IF Top(c).kind = "kernel" THEN "unlock" ELSE "done"
    BY <1>1, <1>6, PutIs, Zenon
  <2>2. a.pc \notin Pending \cup {"panic"}
    BY <2>1, Zenon DEF Pending
  <2> QED
    BY <2>1, <2>2, Zenon
<1> QED
  BY <1>3, <1>5, <1>6, Zenon

\* save_context and el1_sync_handler: the frame is what the processor stored,
\* and the class of the syndrome chooses the handler of the cause.
LEMMA EnteringSteps ==
    ASSUME IInv, ReportInv, NEW c \in Cpus, SaveContext(c) \/ Dispatch(c)
    PROVE  ReportInv'
<1> DEFINE n == Len(stack[c])
<1>1. IsActivation(Top(c)) /\ n \in Nat \ {0} /\ Top(c) = stack[c][n]
  BY TopIs DEF IInv
<1>2. UNCHANGED <<work, sysregs>>
  BY DEF SaveContext, Dispatch
<1>3. Top(c).kind = "trap" => HandlerOK(Top(c), n)
  BY <1>1 DEF ReportInv
<1>4. Top(c).pc \in {"save", "dispatch"}
  BY DEF SaveContext, Dispatch, At
<1>5. Top(c).kind = "trap" => RegsOK(c, Top(c).cause)
  BY <1>4 DEF ReportInv, Pending
<1> SUFFICES \E a : /\ IsActivation(a) /\ a.kind = Top(c).kind /\ Becomes(c, a)
                    /\ a.kind = "trap" => HandlerOK(a, n) /\ a.cause = Top(c).cause
  BY <1>2, <1>4, ReportStep, Zenon DEF Pending
<1>6. CASE SaveContext(c)
  <2>1. PICK a : /\ IsActivation(a) /\ a.kind = Top(c).kind /\ Becomes(c, a)
                 /\ a.pc = "dispatch" /\ a.cause = Top(c).cause
                 /\ a.frame = [elr |-> elr[c], spsr |-> spsr[c]] /\ a.report = Top(c).report
    BY <1>1, <1>6, SaveContextIs, Zenon
  <2>2. a.kind = "trap" => HandlerOK(a, n)
    BY <1>3, <1>5, <2>1, Zenon DEF HandlerOK, RegsOK
  <2> QED
    BY <2>1, <2>2, Zenon
<1>7. CASE Dispatch(c)
  <2> DEFINE abort == FromEc(EcRaw(esr[c])) \in {"DataAbortSameEl", "InstrAbortSameEl"}
             pc == IF abort THEN "fault" ELSE "dump"
  <2>1. Goto(c, pc) /\ Top(c).pc = "dispatch"
    BY <1>7 DEF Dispatch, At
  <2>2. ASSUME Top(c).kind = "trap"
        PROVE  IF abort THEN Top(c).cause.access \in Accesses
                        ELSE Top(c).cause.access \in DOMAIN Others
    <3>1. Top(c).cause \in Cause /\ esr[c] \in Syndromes(Top(c).cause)
      BY <1>3, <1>5, <2>2, Zenon DEF HandlerOK, RegsOK
    <3>2. Top(c).cause.access \in Accesses \cup DOMAIN Others
      BY <3>1, Zenon DEF Cause
    <3>3. CASE Top(c).cause.access \in Accesses
      BY <3>1, <3>3, AbortDecodes, Zenon
    <3>4. CASE Top(c).cause.access \in DOMAIN Others
      BY <3>1, <3>4, OtherDecodes, Zenon
    <3> QED
      BY <3>2, <3>3, <3>4, Zenon
  <2> HIDE DEF abort, pc
  <2>3. PICK a : /\ IsActivation(a) /\ a.kind = Top(c).kind /\ Becomes(c, a)
                 /\ a.pc = pc /\ a.cause = Top(c).cause
                 /\ a.frame = Top(c).frame /\ a.report = Top(c).report
    BY <1>1, <2>1, GotoIs
  <2>4. a.kind = "trap" => HandlerOK(a, n)
    BY <1>3, <2>1, <2>2, <2>3, Zenon DEF HandlerOK, pc
  <2> QED
    BY <2>3, <2>4, Zenon
<1> QED
  BY <1>6, <1>7, Zenon

\* handle_page_fault and TrapFrame::dump report what the processor stored for
\* their own exception.
LEMMA ReportingSteps ==
    ASSUME IInv, ReportInv, NEW c \in Cpus, HandlePageFault(c) \/ Dump(c) \/ PanicDump(c)
    PROVE  ReportInv'
<1> DEFINE n == Len(stack[c])
<1>1. IsActivation(Top(c)) /\ n \in Nat \ {0} /\ Top(c) = stack[c][n]
  BY TopIs DEF IInv
<1>2. UNCHANGED <<work, sysregs>>
  BY DEF HandlePageFault, Dump, PanicDump, Compose
<1>3. Top(c).kind = "trap" => HandlerOK(Top(c), n)
  BY <1>1 DEF ReportInv
<1>4. Top(c).kind = "trap" /\ Top(c).pc \in {"fault", "dump"} => RegsOK(c, Top(c).cause)
  BY DEF ReportInv, Pending
<1>5. ASSUME NEW r, Compose(c, r, "poll"), Top(c).kind = "trap" => r = Expected(Top(c).cause, n - 1)
      PROVE  ReportInv'
  <2>1. PICK a : /\ IsActivation(a) /\ a.kind = Top(c).kind /\ Becomes(c, a)
                 /\ a.pc = "poll" /\ a.cause = Top(c).cause /\ a.report = r
    BY <1>1, <1>5, ComposeIs, SMTT(60)
  <2>2. a.kind = "trap" => HandlerOK(a, n)
    BY <1>3, <1>5, <2>1, Zenon DEF HandlerOK
  <2> QED
    BY <1>2, <2>1, <2>2, ReportStep, Zenon DEF Pending
<1>6. CASE HandlePageFault(c)
  <2>1. Compose(c, FaultReport(c), "poll") /\ Top(c).pc = "fault"
    BY <1>6 DEF HandlePageFault, At
  <2>2. ASSUME Top(c).kind = "trap" PROVE FaultReport(c) = Expected(Top(c).cause, n - 1)
    <3> DEFINE cause == Top(c).cause
    <3>1. /\ cause \in Cause /\ cause.access \in Accesses /\ esr[c] \in Syndromes(cause)
          /\ Top(c).frame.elr = n - 1 /\ (cause.far => far[c] = n - 1)
      BY <1>3, <1>4, <2>1, <2>2, SMTT(60) DEF HandlerOK, RegsOK
    <3> HIDE DEF cause
    <3>2. /\ AccessKind(esr[c]) = cause.access /\ FarValid(esr[c]) = cause.far
          /\ FromDfsc(Dfsc(esr[c])) = [fault |-> cause.fault, level |-> cause.level]
      BY <3>1, AbortDecodes, Zenon
    <3>3. FaultReport(c) =
            [label |-> "PAGE FAULT", status |-> [fault |-> cause.fault, level |-> cause.level],
             access |-> cause.access, far |-> IF cause.far THEN n - 1 ELSE None, elr |-> n - 1]
      BY <3>1, <3>2, Zenon DEF FaultReport
    <3>4. cause.access \notin DOMAIN Others
      BY <3>1, Zenon DEF Accesses, Others
    <3>5. FaultReport(c) = Expected(cause, n - 1)
      BY <3>3, <3>4, Zenon DEF Expected
    <3> QED
      BY <3>5 DEF cause
  <2> QED
    BY <1>5, <2>1, <2>2
<1>7. CASE Dump(c)
  <2> DEFINE r == [label |-> "EL1 SYNC EXCEPTION", class |-> FromEc(EcRaw(esr[c])),
                   elr |-> Top(c).frame.elr, mode |-> SpsrMode(Top(c).frame.spsr)]
  <2>1. Compose(c, r, "poll") /\ Top(c).pc = "dump"
    BY <1>7, Zenon DEF Dump, At
  <2>2. ASSUME Top(c).kind = "trap" PROVE r = Expected(Top(c).cause, n - 1)
    <3> DEFINE cause == Top(c).cause
    <3>1. /\ cause \in Cause /\ cause.access \in DOMAIN Others /\ esr[c] \in Syndromes(cause)
          /\ Top(c).frame = [elr |-> n - 1, spsr |-> Spsr]
      BY <1>3, <1>4, <2>1, <2>2, Zenon DEF HandlerOK, RegsOK
    <3> HIDE DEF cause
    <3>2. FromEc(EcRaw(esr[c])) = Expected(cause, 1).class
      BY <3>1, OtherDecodes, Zenon
    <3>3. SpsrMode(Spsr) = "El1h"
      <4>1. Spsr \cap (0 .. 4) = {0, 2}
        BY DEF Spsr
      <4> QED
        BY <4>1 DEF SpsrMode
    <3>4. r = Expected(cause, n - 1)
      BY <3>1, <3>2, <3>3, SMTT(60) DEF Expected
    <3> QED
      BY <3>4, Zenon DEF cause
  <2> HIDE DEF r
  <2> QED
    BY <1>5, <2>1, <2>2
<1>8. CASE PanicDump(c)
  <2>1. Top(c).kind # "trap"
    BY <1>3, <1>8, Zenon DEF PanicDump, HandlerOK, At
  <2>2. PICK r : Compose(c, r, "poll")
    BY <1>8, Zenon DEF PanicDump
  <2> QED
    BY <1>5, <2>1, <2>2
<1> QED
  BY <1>6, <1>7, <1>8

\* el1_sync is taken: the registers are the new activation's, and the one it
\* interrupted runs no more.
LEMMA TrapStep == ASSUME IInv, ReportInv, NEW c \in Cpus, Trap(c) PROVE ReportInv'
<1> DEFINE n == Len(stack[c])
<1>1. n \in Nat \ {0} /\ ShapeOK
  BY TopIs DEF IInv
<1>2. PICK cause \in Work(c).causes :
        /\ \E e \in Syndromes(cause) : esr' = [esr EXCEPT ![c] = e]
        /\ stack' = [stack EXCEPT ![c] = Append(@, Activation("trap", "save", cause))]
        /\ far' = [far EXCEPT ![c] = IF cause.access \notin Accesses THEN @
                                     ELSE IF cause.far THEN n ELSE None]
  BY Zenon DEF Trap
<1>3. /\ elr' = [elr EXCEPT ![c] = n] /\ spsr' = [spsr EXCEPT ![c] = Spsr] /\ work' = work
  BY Zenon DEF Trap, Spsr
<1>4. cause \in Cause
  BY <1>2, ConsoleAssumption DEF ConsoleAssumption, ReportInv, Work, Workload
<1>5. /\ esr'[c] \in Syndromes(cause) /\ elr'[c] = n /\ spsr'[c] = Spsr
      /\ cause.access \in Accesses /\ cause.far => far'[c] = n
  BY <1>2, <1>3, Zenon DEF ReportInv
<1>6. /\ esr' = [d \in Cpus |-> esr'[d]] /\ elr' = [d \in Cpus |-> elr'[d]]
      /\ far' = [d \in Cpus |-> far'[d]] /\ spsr' = [d \in Cpus |-> spsr'[d]]
  BY <1>2, <1>3, Zenon DEF ReportInv
<1>7. \A d \in Cpus : d # c => /\ esr'[d] = esr[d] /\ elr'[d] = elr[d]
                               /\ far'[d] = far[d] /\ spsr'[d] = spsr[d]
  BY <1>2, <1>3, Zenon DEF ReportInv
<1> DEFINE a == Activation("trap", "save", cause)
<1>8. IsActivation(a) /\ a.kind = "trap" /\ a.pc = "save" /\ a.cause = cause /\ a.report = None
  BY SMTT(60) DEF Activation, IsActivation
<1>9. stack' = [stack EXCEPT ![c] = Append(@, a)]
  BY <1>2
<1> HIDE DEF a
<1>10. /\ \A d \in Cpus : d # c => stack'[d] = stack[d]
       /\ Len(stack'[c]) = n + 1 /\ stack'[c][n + 1] = a
       /\ \A k \in 1 .. n : stack'[c][k] = stack[c][k]
  BY <1>1, <1>8, <1>9, PushStep, Zenon
<1>11. ASSUME NEW d \in Cpus, NEW k \in 1 .. Len(stack'[d]), stack'[d][k].kind = "trap"
       PROVE  HandlerOK(stack'[d][k], k)
  <2>1. CASE d = c /\ k = n + 1
    BY <1>4, <1>8, <1>10, <2>1, Zenon DEF HandlerOK
  <2>2. CASE ~(d = c /\ k = n + 1)
    <3>1. k \in 1 .. Len(stack[d]) /\ stack'[d][k] = stack[d][k]
      BY <1>1, <1>10, <2>2
    <3> QED
      BY <1>11, <3>1 DEF ReportInv
  <2> QED
    BY <2>1, <2>2, Zenon
<1>12. ASSUME NEW d \in Cpus, (Top(d)').kind = "trap", (Top(d)').pc \in Pending
       PROVE  RegsOK(d, Top(d).cause)'
  <2>1. CASE d = c
    <3>1. Top(c)' = a /\ Len(stack'[c]) - 1 = n
      BY <1>1, <1>10 DEF Top
    <3> QED
      BY <1>5, <1>8, <2>1, <3>1, Zenon DEF RegsOK
  <2>2. CASE d # c
    <3>1. Top(d)' = Top(d) /\ stack'[d] = stack[d]
      BY <1>10, <2>2, Zenon DEF Top
    <3>2. RegsOK(d, Top(d).cause)
      BY <1>12, <3>1, Zenon DEF ReportInv
    <3> QED
      BY <1>7, <2>2, <3>1, <3>2, Zenon DEF RegsOK
  <2> QED
    BY <2>1, <2>2
<1>13. work' \in DOMAIN Workloads
  BY <1>3 DEF ReportInv
<1> QED
  BY <1>6, <1>11, <1>12, <1>13, Zenon DEF ReportInv

\* The kernel's panic, which is no handler of an exception.
LEMMA PanicStep == ASSUME IInv, ReportInv, NEW c \in Cpus, Panic(c) PROVE ReportInv'
<1> DEFINE n == Len(stack[c])
           a == Activation("panic", "panic", None)
<1>1. n \in Nat \ {0} /\ ShapeOK
  BY TopIs DEF IInv
<1>2. IsActivation(a) /\ a.kind = "panic"
  BY DEF Activation, IsActivation
<1>3. stack' = [stack EXCEPT ![c] = Append(@, a)] /\ UNCHANGED <<work, esr, elr, far, spsr>>
  BY DEF Panic, sysregs
<1> HIDE DEF a
<1>4. /\ \A d \in Cpus : d # c => stack'[d] = stack[d]
      /\ Len(stack'[c]) = n + 1 /\ stack'[c][n + 1] = a
      /\ \A k \in 1 .. n : stack'[c][k] = stack[c][k]
  BY <1>1, <1>2, <1>3, PushStep, Zenon
<1>5. ASSUME NEW d \in Cpus, NEW k \in 1 .. Len(stack'[d]), stack'[d][k].kind = "trap"
      PROVE  HandlerOK(stack'[d][k], k)
  <2>1. ~(d = c /\ k = n + 1)
    BY <1>2, <1>4, <1>5
  <2>2. k \in 1 .. Len(stack[d]) /\ stack'[d][k] = stack[d][k]
    BY <1>1, <1>4, <2>1
  <2> QED
    BY <1>5, <2>2 DEF ReportInv
<1>6. ASSUME NEW d \in Cpus, (Top(d)').kind = "trap", (Top(d)').pc \in Pending
      PROVE  RegsOK(d, Top(d).cause)'
  <2>1. d # c
    BY <1>1, <1>2, <1>4, <1>6, Zenon DEF Top
  <2>2. Top(d)' = Top(d) /\ stack'[d] = stack[d]
    BY <1>4, <2>1, Zenon DEF Top
  <2>3. RegsOK(d, Top(d).cause)
    BY <1>6, <2>2 DEF ReportInv
  <2> QED
    BY <1>3, <2>2, <2>3, Zenon DEF RegsOK
<1> QED
  BY <1>3, <1>5, <1>6, Zenon DEF ReportInv

\* Every step keeps what the handlers know of their exceptions.
LEMMA StepReport == IInv /\ ReportInv /\ [Next]_vars => ReportInv'
<1> SUFFICES ASSUME IInv, ReportInv, [Next]_vars PROVE ReportInv'
  OBVIOUS
<1>1. CASE UNCHANGED vars \/ Drain
  <2>1. UNCHANGED <<work, stack, esr, elr, far, spsr>>
    BY <1>1 DEF vars, sysregs, Drain
  <2> QED
    BY <2>1, Zenon DEF ReportInv, RegsOK, Top
<1>2. ASSUME NEW c \in Cpus, Run(c) \/ KernelLog(c) \/ Trap(c) \/ Panic(c)
      PROVE  ReportInv'
  BY <1>2, WritingSteps, EnteringSteps, ReportingSteps, TrapStep, PanicStep DEF Run
<1> QED
  BY <1>1, <1>2 DEF Next

\* el1_sync_handler, handle_page_fault and dump report the exception they were
\* entered for, whatever its cause and however deep exceptions nest.
THEOREM ReportsAreOwn == Spec => []ReportIsOwn
<1>1. ASSUME IInv, ReportInv PROVE ReportIsOwn
  <2> SUFFICES ASSUME NEW c \in Cpus, NEW k \in DOMAIN stack[c], stack[c][k].kind = "trap",
                      stack[c][k].report # None
               PROVE  stack[c][k].report = Expected(stack[c][k].cause, k - 1)
    BY Zenon DEF ReportIsOwn
  <2>1. k \in 1 .. Len(stack[c])
    BY <1>1 DEF IInv, ShapeOK, IsStack
  <2> QED
    BY <1>1, <2>1, Zenon DEF ReportInv, HandlerOK
<1>2. Spec => []ReportInv
  BY InitReport, StepReport, Invariance, PTL DEF Spec
<1> QED
  BY <1>1, <1>2, Invariance, PTL
=============================================================================
