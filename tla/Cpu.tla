--------------------------------- MODULE Cpu ---------------------------------
(* The interpreter loop of cpu.c: cpu_run with its handlers, the load delay   *)
(* slot, the branch delay slot and exceptions, on top of coprocessor 0 and    *)
(* the interrupt controller.  Memory is outside: a fetch and a read may       *)
(* return anything (as the bus of the single step tests does), a write is an  *)
(* output.  One step of the loop is one action; irq_raise happens between     *)
(* steps.                                                                     *)
EXTENDS Cop0

CONSTANTS
    Insts,          \* the instructions a fetch may return
    MemVals,        \* the words a read may return, extended by lb or lh
    StatusInputs,   \* the values a program may move to status
    RESET_VECTOR,   \* 0xBFC00000 in the code
    EXC_VECTOR      \* 0x80000080 in the code

ASSUME InputAssumption ==
    /\ Insts \subseteq Inst
    /\ MemVals \subseteq Word
    /\ StatusInputs \subseteq Status
ASSUME VectorAssumption ==
    /\ RESET_VECTOR \in Word
    /\ EXC_VECTOR \in Word

VARIABLES
    pc, next_pc,
    r, hi, lo,
    load,           \* load_reg and load_value: the load in its delay slot
    branch_state, branch_target,
    next_exc_code,  \* the exception that finish_step is to raise
    cop0, irq,
    out             \* what the last step showed outside: exception raised, bytes written

cpu_vars == <<pc, next_pc, r, hi, lo, load, branch_state, branch_target, next_exc_code>>
vars == <<cpu_vars, cop0, irq, out>>

Out == [exc : ExcCode, lanes : SUBSET Word]
Quiet == [exc |-> EXC_NONE, lanes |-> {}]

TypeOK ==
    /\ pc \in Word /\ next_pc \in Word
    /\ r \in [Reg -> Word] /\ r[0] = 0
    /\ hi \in Word /\ lo \in Word
    /\ load \in Slot
    /\ branch_state \in BranchState /\ branch_target \in Word
    /\ next_exc_code \in {EXC_NONE, EXC_INT}
    /\ cop0 \in Cop0State
    /\ irq \in IrqState
    /\ out \in Out

\* cpu_reset, cop0_reset and irq_reset, as psx_reset calls them.
Init ==
    /\ pc = RESET_VECTOR
    /\ next_pc = Plus(RESET_VECTOR, 4)
    /\ r = [n \in Reg |-> 0]
    /\ hi = 0 /\ lo = 0
    /\ load = NoSlot
    /\ branch_state = BRANCH_STATE_NO_DELAY /\ branch_target = 0
    /\ next_exc_code = EXC_NONE
    /\ cop0 = cop0_reset
    /\ irq = irq_reset
    /\ out = Quiet

-----------------------------------------------------------------------------
get_next_pc == IF IS_BRANCH_TAKEN(branch_state) THEN branch_target ELSE next_pc

\* The register file after the step's write w (which reg_write made at once)
\* and the load of the previous step.  Writing a register, or scheduling
\* another load to it, cancels the load that waits for it.
\* (A slip: only a write cancels.)
commit_load_kept(w, new) ==
    Put(IF load.reg = w.reg THEN r ELSE Put(r, load), w)

commit_load(w, new) ==
    LET cancelled == load.reg \in {w.reg, new.reg}
    IN  Put(IF cancelled THEN r ELSE Put(r, load), w)

\* Interrupts are looked for after every instruction.  (A slip: only after one
\* that was not in a delay slot.)
check_interrupts_outside_slots(c) ==
    IF c.pending_interrupts /\ ~IS_IN_DELAY_SLOT(branch_state) THEN EXC_INT ELSE EXC_NONE

check_interrupts(c) == IF c.pending_interrupts THEN EXC_INT ELSE EXC_NONE

\* What an exception does to the CPU.  (Two slips: the branch it came in is left in
\* flight, or the code of the exception where it was.)
EnterHandler_keeping_branch(code) ==
    /\ UNCHANGED <<branch_state, branch_target>>
    /\ pc' = EXC_VECTOR /\ next_pc' = Plus(EXC_VECTOR, 4)
    /\ next_exc_code' = EXC_NONE

EnterHandler_keeping_code(code) ==
    /\ branch_state' = BRANCH_STATE_NO_DELAY /\ branch_target' = 0
    /\ pc' = EXC_VECTOR /\ next_pc' = Plus(EXC_VECTOR, 4)
    /\ next_exc_code' = code

EnterHandler(code) ==
    /\ branch_state' = BRANCH_STATE_NO_DELAY /\ branch_target' = 0
    /\ pc' = EXC_VECTOR /\ next_pc' = Plus(EXC_VECTOR, 4)
    /\ next_exc_code' = EXC_NONE

\* The end of every step: commit the load, then raise the exception that is
\* set, or move on and look for interrupts.  w is the register written, ld the
\* load scheduled, br the branch taken, exc the exception of this instruction
\* (over the interrupt that waits in next_exc_code), c coprocessor 0 and lanes
\* the bytes written.
finish_step(w, ld, br, exc, c, lanes) ==
    LET code == IF exc = EXC_NONE THEN next_exc_code ELSE exc
        npc == get_next_pc
    IN  /\ r' = commit_load(w, ld)
        /\ load' = ld
        /\ out' = [exc |-> code, lanes |-> lanes]
        /\ \/ /\ code # EXC_NONE
              /\ cop0' = cop0_raise_exception(c, code, pc, branch_state, branch_target)
              /\ EnterHandler(code)
           \/ /\ code = EXC_NONE
              /\ cop0' = c
              /\ pc' = npc
              /\ next_pc' = Plus(npc, 4)
              /\ branch_state' = br.state
              /\ branch_target' = br.target
              /\ next_exc_code' = check_interrupts(c)

\* A step that neither branches, touches coprocessor 0 nor writes memory.
finish_plain(w, ld, exc) == finish_step(w, ld, NoBranch, exc, cop0, {})

\* The program counter is not aligned: nothing is fetched.
FetchFault ==
    /\ pc % 4 # 0
    /\ finish_plain(NoSlot, NoSlot, EXC_ADEL)
    /\ UNCHANGED <<hi, lo, irq>>

Write(i) == WriteOf(i, r, hi, lo, get_next_pc)
\* The exception an instruction raises.  (A slip: stores look at their address
\* before they look whether the cache is isolated.)
Fault_unisolated(i) == FaultOf(i, r, FALSE)

Fault(i) == FaultOf(i, r, cop0.cache_isolated)

Compute(i) ==
    /\ i.op \in AluOp
    /\ finish_plain(Write(i), NoSlot, EXC_NONE)
    /\ UNCHANGED <<hi, lo, irq>>

MoveHiLo(i) ==
    /\ i.op \in HiLoOp
    /\ hi' = HiLoOf(i, r, hi, lo)[1]
    /\ lo' = HiLoOf(i, r, hi, lo)[2]
    /\ finish_plain(NoSlot, NoSlot, EXC_NONE)
    /\ UNCHANGED irq

\* add, sub and addi write their register unless they overflow.  (A slip: they
\* always do.)
TrapArith_writing(i) ==
    /\ i.op \in TrapArithOp
    /\ finish_plain(Write(i), NoSlot, Fault(i))
    /\ UNCHANGED <<hi, lo, irq>>

TrapArith(i) ==
    /\ i.op \in TrapArithOp
    /\ finish_plain(IF Fault(i) = EXC_NONE THEN Write(i) ELSE NoSlot, NoSlot, Fault(i))
    /\ UNCHANGED <<hi, lo, irq>>

BranchOrJump(i) ==
    /\ i.op \in BranchOp \cup JumpOp
    /\ finish_step(Write(i), NoSlot, BranchOf(i, r, get_next_pc), EXC_NONE, cop0, {})
    /\ UNCHANGED <<hi, lo, irq>>

\* A load from a misaligned address schedules nothing.  (A slip: it does.)
LoadWord_scheduling(i, v) ==
    /\ i.op \in LoadOp
    /\ finish_plain(NoSlot, LoadOf(i, v, reg_read_with_load(r, load, i.rt)), Fault(i))
    /\ UNCHANGED <<hi, lo, irq>>

LoadWord(i, v) ==
    /\ i.op \in LoadOp
    /\ LET ld == LoadOf(i, v, reg_read_with_load(r, load, i.rt))
       IN  finish_plain(NoSlot, IF Fault(i) = EXC_NONE THEN ld ELSE NoSlot, Fault(i))
    /\ UNCHANGED <<hi, lo, irq>>

\* v is the interrupt controller's view of the stored value.
Store(i, v) ==
    /\ i.op \in StoreOp
    /\ LET lanes == IF cop0.cache_isolated \/ Fault(i) # EXC_NONE THEN {} ELSE LanesOf(i, r)
       IN  /\ finish_step(NoSlot, NoSlot, NoBranch, Fault(i), cop0, lanes)
           /\ irq' = irq_write(irq, lanes, v)
    /\ UNCHANGED <<hi, lo>>

\* mfc0 has a delay slot as loads do.  (A slip: it writes its register at once.)
Mfc0_at_once(i) ==
    /\ i.op = "mfc0"
    /\ \E v \in cop0_read(cop0, i.cop, MemVals) :
          finish_plain(LoadOf(i, v, 0), NoSlot, EXC_NONE)
    /\ UNCHANGED <<hi, lo, irq>>

Mfc0(i) ==
    /\ i.op = "mfc0"
    /\ \E v \in cop0_read(cop0, i.cop, MemVals) :
          finish_plain(NoSlot, LoadOf(i, v, 0), EXC_NONE)
    /\ UNCHANGED <<hi, lo, irq>>

Mtc0(i, s) ==
    /\ i.op = "mtc0"
    /\ finish_step(NoSlot, NoSlot, NoBranch, EXC_NONE,
                   cop0_write(cop0, i.cop, s, reg_read(r, i.rt)), {})
    /\ UNCHANGED <<hi, lo, irq>>

Rfe(i) ==
    /\ i.op = "rfe"
    /\ finish_step(NoSlot, NoSlot, NoBranch, EXC_NONE, cop0_rfe(cop0), {})
    /\ UNCHANGED <<hi, lo, irq>>

Trap(i) ==
    /\ i.op \in TrapOp
    /\ finish_plain(NoSlot, NoSlot, Fault(i))
    /\ UNCHANGED <<hi, lo, irq>>

\* cpu_run: fetch, dispatch, finish.
cpu_step ==
    \/ FetchFault
    \/ /\ pc % 4 = 0
       /\ \E i \in Insts :
             \/ Compute(i)
             \/ MoveHiLo(i)
             \/ TrapArith(i)
             \/ BranchOrJump(i)
             \/ \E v \in MemVals : LoadWord(i, v)
             \/ \E v \in IrqState : Store(i, v)
             \/ Mfc0(i)
             \/ \E s \in StatusInputs : Mtc0(i, s)
             \/ Rfe(i)
             \/ Trap(i)

\* A device asserts lines; nothing else of the CPU moves.  irq_raise is the
\* interface that irq.h gives to the devices; none of them calls it yet.
IrqRaise(lines) ==
    /\ irq' = irq_raise(irq, lines)
    /\ cop0' = cop0_update_interrupts(cop0, irq')
    /\ out' = Quiet
    /\ UNCHANGED cpu_vars

Next ==
    \/ cpu_step
    \/ \E lines \in SUBSET Irqs \ {{}} : IrqRaise(lines)

\* The loop of cpu_run has no condition but its cycle count.
Spec == Init /\ [][Next]_vars /\ WF_vars(cpu_step)

-----------------------------------------------------------------------------
(* Safety.                                                                   *)

\* next_pc is never anything but the address after pc, whatever exception,
\* branch or reset came last: cpu.c keeps both, and a delay slot would run the
\* wrong instruction if they came apart.
NextPcFollows == next_pc = Plus(pc, 4)

\* The cached flag pending_interrupts of cop0.c is only ever set with
\* interrupts enabled and an interrupt asserted in cause, though four places
\* compute it in three ways.
InterruptFlagSound ==
    cop0.pending_interrupts => cop0.status.cur /\ cop0.cause.ip

\* Between two steps, an interrupt latched in next_exc_code finds interrupts
\* enabled: what check_interrupts latched is not outdated by irq_raise.
LatchedOnlyWhenEnabled == next_exc_code = EXC_INT => cop0.status.cur

\* The cached isolation flag is the status bit: the store handlers test the
\* flag, programs set the bit, and rfe and exceptions rewrite the register.
IsolationCached == cop0.cache_isolated = cop0.status.isc

\* With the cache isolated no store reaches the bus or the interrupt
\* controller, and none raises an address error.
IsolatedStoresDropped ==
    [][cop0.status.isc => out'.lanes = {} /\ out'.exc # EXC_ADES]_vars

\* A step that raises anything but an interrupt leaves no trace of its
\* instruction: the load in its delay slot commits, no other register, no hi
\* or lo, no memory changes, and no load or branch stays behind.
FaultsArePrecise ==
    [][out'.exc \in SyncExc =>
          /\ r' = Put(r, load) /\ hi' = hi /\ lo' = lo
          /\ load' = NoSlot
          /\ branch_state' = BRANCH_STATE_NO_DELAY
          /\ out'.lanes = {} /\ irq' = irq]_vars

\* An exception pushes the interrupt enable stack by exactly what one rfe pops:
\* the interrupted program gets back the enable bits it ran with.
RfeUndoesException ==
    [][out'.exc \in SyncExc =>
          LET back == cop0_rfe(cop0')
          IN  /\ back.status.cur = cop0.status.cur
              /\ back.status.prev = cop0.status.prev
              /\ back.status.im = cop0.status.im]_vars

\* An interrupt that the program neither masks nor acknowledges waits through one
\* instruction at most: the first that ends while it is pending latches it, none
\* ends without a jump to the handler after that, and irq_raise, mtc0 and rfe, which
\* recompute the flag, do not lose it.
Waiting == cop0.status.cur /\ cop0.status.im /\ irq.stat \cap irq.mask # {}
InterruptLatency ==
    [][cop0.pending_interrupts /\ Waiting' =>
          /\ cop0'.pending_interrupts
          /\ \/ next_exc_code = EXC_NONE /\ next_exc_code' = EXC_INT
             \/ UNCHANGED cpu_vars]_vars

(* Refinement.                                                               *)

\* The interpreter implements the machine of DelaySlots: branch_state and
\* branch_target only encode the address after the delay slot, and load_reg and
\* load_value only encode the registers as the next instruction will see them,
\* with cancelled loads, exceptions and interrupts taken anywhere.
DS == INSTANCE DelaySlots WITH npc <- get_next_pc, now <- r, nxt <- Put(r, load)
ImplementsDelaySlots == DS!Spec

(* Liveness.                                                                 *)

\* An interrupt that is pending, and that the program neither masks nor
\* acknowledges, is taken: the program ends up in the handler with interrupts
\* disabled.
InterruptServed == cop0.pending_interrupts ~> ~Waiting

-----------------------------------------------------------------------------
(* What comments in the sources say and the code does not do.                *)

\* cpu.c:714 takes interrupts "after instruction execution": an interrupted
\* program resumes at an instruction that has not run yet.  (The code latches
\* the interrupt there and raises it only after one more instruction ran, with
\* epc at that instruction.)
InterruptIsPrecise ==
    [][out'.exc = EXC_INT =>
          /\ r' = Put(r, load) /\ hi' = hi /\ lo' = lo
          /\ load' = NoSlot
          /\ out'.lanes = {}]_vars

\* cop0.c:7 calls the cause bit "indicating an interrupt is pending".  (A store
\* to I_STAT or I_MASK does not update it: an acknowledged interrupt stays.)
CauseFollowsController == cop0.cause.ip = (irq.stat \cap irq.mask # {})

\* cop0.c:49 saves "the bad virtual address for address errors".  (The code
\* saves pc also when the address of a load or store was bad.)
BadAddrIsTheAddress ==
    [][out'.exc \in {EXC_ADEL, EXC_ADES} /\ pc % 4 = 0 =>
          \E i \in Insts : /\ FaultOf(i, r, cop0.cache_isolated) = out'.exc
                          /\ cop0'.badAddr = Addr(i, r)]_vars
=============================================================================
