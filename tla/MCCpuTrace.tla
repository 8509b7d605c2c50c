------------------------------ MODULE MCCpuTrace ------------------------------
(* Values for the constants of CpuTrace. *)
EXTENDS MCCpu, CpuTrace

\* Branches taken and not, in each other's delay slots too; what enables, masks and
\* acknowledges interrupts there; and what raises exceptions behind them.
TraceInsts ==
    {I("beq", 0, 0, 0, 2, "other"), I("bne", 0, 0, 0, 2, "other"), I("syscall", 0, 0, 0, 0, "other"),
     I("mtc0", 0, 0, 0, 0, "status"), I("rfe", 0, 0, 0, 0, "other"),
     I("sh", 0, 0, 0, IRQ_STAT, "other"), I("sh", 0, 0, 0, IRQ_MASK, "other")}

\* Interrupts enabled; and disabled and masked, with those before enabled, for rfe.
TraceStatus == {s \in Status : s.im = s.cur /\ s.prev = ~s.im /\ ~s.old /\ ~s.isc}
===============================================================================
