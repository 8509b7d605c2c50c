-------------------------------- MODULE Cop0 --------------------------------
(* Coprocessor 0 (cop0.c) and the interrupt controller (irq.c) as operators *)
(* on their records.  Status keeps the interrupt enable stack (the user mode*)
(* bits move along with it and nothing reads them), the one mask bit a cause*)
(* bit exists for, and the isolation bit.  Cause keeps all the code sets    *)
(* but the coprocessor number, which nothing reads.                         *)
EXTENDS R3000

CONSTANTS
    Irqs,       \* the interrupt lines, as bit numbers of I_STAT and I_MASK
    IRQ_STAT,   \* address of I_STAT (0x1f801070 in the code)
    IRQ_MASK    \* address of I_MASK (0x1f801074 in the code)

ASSUME IrqAssumption ==
    /\ Irqs \subseteq 0 .. 15
    /\ IRQ_STAT \in Word /\ IRQ_MASK \in Word

Status == [cur : BOOLEAN, prev : BOOLEAN, old : BOOLEAN,  \* bits 0, 2 and 4
           im : BOOLEAN,                                  \* bit 15
           isc : BOOLEAN]                                 \* bit 16
Cause == [code : ExcCode \ {EXC_NONE}, bd : BOOLEAN, bt : BOOLEAN, ip : BOOLEAN]
Cop0State == [status : Status, cause : Cause, epc : Word, tar : Word, badAddr : Word,
              cache_isolated : BOOLEAN, pending_interrupts : BOOLEAN]

IrqState == [stat : SUBSET Irqs, mask : SUBSET Irqs]

-----------------------------------------------------------------------------
cop0_reset ==
    [status |-> [cur |-> FALSE, prev |-> FALSE, old |-> FALSE, im |-> FALSE, isc |-> FALSE],
     cause |-> [code |-> EXC_INT, bd |-> FALSE, bt |-> FALSE, ip |-> FALSE],
     epc |-> 0, tar |-> 0, badAddr |-> 0,
     cache_isolated |-> FALSE, pending_interrupts |-> FALSE]

irq_reset == [stat |-> {}, mask |-> {}]

\* A slip: the enable bit is not looked at.
cop0_set_pending_interrupts_masked_only(c) ==
    [c EXCEPT !.pending_interrupts = c.status.im /\ c.cause.ip]

cop0_set_pending_interrupts(c) ==
    [c EXCEPT !.pending_interrupts = c.status.cur /\ c.status.im /\ c.cause.ip]

\* A slip: the flag that caches the isolation bit is not refreshed.
cop0_set_status_uncached(c, s) == cop0_set_pending_interrupts([c EXCEPT !.status = s])

cop0_set_status(c, s) ==
    cop0_set_pending_interrupts([c EXCEPT !.status = s, !.cache_isolated = s.isc])

\* RFE pops the interrupt enable stack; it leaves the isolation bit alone and
\* so does not refresh the flag that caches it.
cop0_rfe(c) ==
    cop0_set_pending_interrupts(
        [c EXCEPT !.status.cur = c.status.prev, !.status.prev = c.status.old])

\* Entering an exception pushes the stack.  (A slip: the oldest level is lost.)
PushStatus_two_levels(s) == [s EXCEPT !.cur = FALSE, !.prev = s.cur]

PushStatus(s) == [s EXCEPT !.cur = FALSE, !.prev = s.cur, !.old = s.prev]

\* The cause of an exception in branch state bs.  (A slip: every delay slot counts
\* as one of a taken branch.)
CauseOf_bt_in_slot(c, code, bs) ==
    [code |-> code, ip |-> c.cause.ip, bd |-> IS_IN_DELAY_SLOT(bs), bt |-> IS_IN_DELAY_SLOT(bs)]

CauseOf(c, code, bs) ==
    [code |-> code, ip |-> c.cause.ip,
     bd |-> IS_IN_DELAY_SLOT(bs), bt |-> IS_BRANCH_TAKEN(bs)]

\* The address to return to: the branch, if pc is its delay slot.  (A slip: the
\* delay slot itself.)
EpcOf_pc(pc, bs) == pc

EpcOf(pc, bs) == IF IS_IN_DELAY_SLOT(bs) THEN Minus(pc, 4) ELSE pc

\* bs and bt are the branch state and branch target of the instruction at pc.
cop0_raise_exception(c, code, pc, bs, bt) ==
    LET saved == [c EXCEPT
                    !.cause = CauseOf(c, code, bs),
                    !.tar = IF IS_IN_DELAY_SLOT(bs) THEN bt ELSE @,
                    !.epc = EpcOf(pc, bs),
                    !.badAddr = IF code \in {EXC_ADEL, EXC_ADES} THEN pc ELSE @]
    IN  [cop0_set_status(saved, PushStatus(c.status)) EXCEPT !.pending_interrupts = FALSE]

\* MTC0: the target address is writable, cause and epc are not.  s is the
\* status and v the word that the register's value means.
cop0_write(c, reg, s, v) ==
    CASE reg = "status" -> cop0_set_status(c, s)
      [] reg = "tar" -> [c EXCEPT !.tar = v]
      [] OTHER -> c

\* The words MFC0 may return: status, cause and the plain registers are kept
\* as records or not at all, so any of the values in vs stands for them.
cop0_read(c, reg, vs) ==
    CASE reg = "epc" -> {c.epc}
      [] reg = "tar" -> {c.tar}
      [] reg = "badAddr" -> {c.badAddr}
      [] OTHER -> vs

\* A slip: the enable bit is not looked at.
cop0_update_interrupts_always(c, q) ==
    LET pending == q.stat \cap q.mask # {}
    IN  [c EXCEPT !.cause.ip = pending, !.pending_interrupts = pending]

cop0_update_interrupts(c, q) ==
    LET pending == q.stat \cap q.mask # {}
    IN  [c EXCEPT !.cause.ip = pending,
                  !.pending_interrupts = pending /\ c.status.cur]

-----------------------------------------------------------------------------
irq_raise(q, lines) == [q EXCEPT !.stat = @ \cup lines]

\* The lines of the 16-bit register at base whose byte is one of lanes.
LinesAt(base, lanes) == {n \in Irqs : base + (n \div 8) \in lanes}

\* A store over lanes of the controller's registers: each byte that is written
\* takes the stored bits (v), the others keep theirs.  Acknowledging is no
\* exception: the code assigns I_STAT as it does I_MASK.
irq_write(q, lanes, v) ==
    LET over(old, new, base) ==
            LET lines == LinesAt(base, lanes) IN (old \ lines) \cup (new \cap lines)
    IN  [stat |-> over(q.stat, v.stat, IRQ_STAT), mask |-> over(q.mask, v.mask, IRQ_MASK)]
=============================================================================
