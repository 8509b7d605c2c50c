-------------------------------- MODULE MCPsx --------------------------------
(* Values for the constants of Psx. *)
EXTENDS MCCpu, Psx

\* A kernel that enables interrupts, branches and loads, and is left anywhere.
KernelInsts ==
    {I("lw", 0, 2, 0, 4, "other"), I("bne", 0, 2, 0, 2, "other"),
     I("mtc0", 0, 0, 0, 0, "status"), I("sh", 0, 0, 0, IRQ_MASK, "other"),
     I("rfe", 0, 0, 0, 0, "other"), I("syscall", 0, 0, 0, 0, "other")}

\* Flags set and registers clear, and the other way round.
MCLeftovers ==
    {[cop0 |-> [cop0_reset EXCEPT !.pending_interrupts = TRUE, !.cache_isolated = TRUE],
      irq |-> irq_reset],
     [cop0 |-> [cop0_reset EXCEPT !.status.isc = TRUE, !.cause.ip = TRUE],
      irq |-> [stat |-> Irqs, mask |-> Irqs]]}

MCExes == {[pc |-> 4, gp |-> 4, sp |-> 12]}
==============================================================================
