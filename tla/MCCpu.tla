-------------------------------- MODULE MCCpu --------------------------------
(* Values for the constants of Cpu: a machine of 16 words' worth of addresses, *)
(* three registers, and small instruction sets chosen for the question a run   *)
(* asks.                                                                       *)
EXTENDS Cpu

\* Stand-ins for the arithmetic that R3000 leaves open; few values, so that few
\* words circulate.
MCAlu == [p \in Fns \X Word \X Word |-> IF p[2] < p[3] THEN 4 ELSE 12]
MCMulDiv == [p \in Fns \X Word \X Word |-> <<p[3], p[2]>>]
MCLoadMerge == [p \in Fns \X Word \X Word |-> IF p[2] = p[3] THEN 4 ELSE p[3]]

I(op, rs, rt, rd, imm, cop) ==
    [op |-> op, fn |-> "f", rs |-> rs, rt |-> rt, rd |-> rd, imm |-> imm, cop |-> cop]

\* Loads to the register that other instructions write, read and branch on, in
\* every order.
DelayInsts ==
    {I("alui", 2, 1, 0, 8, "other"), I("lw", 0, 1, 0, 4, "other"), I("lw", 0, 2, 0, 4, "other"),
     I("lwl", 0, 1, 0, 4, "other"), I("bgezal", 1, 0, 0, 1, "other"),
     I("jr", 1, 0, 0, 0, "other"),
     I("mfc0", 0, 1, 0, 0, "other"), I("mtc0", 0, 0, 0, 0, "status"),
     I("sh", 0, 0, 0, IRQ_MASK, "other")}

Enabled == {s \in Status : s.cur /\ s.im /\ ~s.prev /\ ~s.old /\ ~s.isc}

\* The interrupt controller, status and the exceptions: masks and
\* acknowledgements, mtc0 and rfe, and a syscall and branches in between.
InterruptInsts ==
    {I("nop", 0, 0, 0, 0, "other"), I("beq", 0, 0, 0, 1, "other"),
     I("sh", 0, 0, 0, IRQ_STAT, "other"), I("sh", 0, 0, 0, IRQ_MASK, "other"),
     I("mtc0", 0, 0, 0, 0, "status"), I("rfe", 0, 0, 0, 0, "other"),
     I("syscall", 0, 0, 0, 0, "other")}

\* Status values a program moves to coprocessor 0, cache not isolated.
StatusValues == {s \in Status : ~s.isc /\ ~s.old}

\* Everything that can fault, with a load in its delay slot, in a branch delay
\* slot and with the cache isolated: overflows, addresses that a register makes
\* misaligned, and reserved instructions; and what changes hi and lo before.
FaultInsts ==
    {I("lw", 0, 1, 0, 4, "other"), I("add", 1, 1, 2, 0, "other"), I("lh", 1, 2, 0, 1, "other"),
     I("sw", 1, 1, 0, 0, "other"), I("swl", 1, 1, 0, 0, "other"), I("jr", 1, 0, 0, 0, "other"),
     I("mtc0", 0, 0, 0, 0, "status"), I("rfe", 0, 0, 0, 0, "other"),
     I("muldiv", 1, 1, 0, 0, "other"), I("mfhi", 0, 0, 1, 0, "other"),
     I("ri", 0, 0, 0, 0, "other")}

Isolation == {s \in Status : ~s.old /\ ~s.prev /\ ~s.cur /\ ~s.im}
==============================================================================
