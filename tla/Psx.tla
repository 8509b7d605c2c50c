--------------------------------- MODULE Psx ---------------------------------
(* The life of the machine in main.c: create it, reset it, run the kernel from  *)
(* the reset vector, load an executable over whatever the kernel was doing, run *)
(* it, and reset again.  Running is Cpu's next-state relation.                 *)
EXTENDS Cpu

CONSTANTS
    GP, SP,     \* the registers load_exe sets (28 and 29 in the code)
    Exes,       \* the headers an executable may have: entry, gp and stack
    Leftovers   \* what malloc may leave in coprocessor 0 and the interrupt controller

ASSUME ExeAssumption ==
    /\ GP \in Reg \ {0} /\ SP \in Reg \ {0}
    /\ Exes \subseteq [pc : Word, gp : Word, sp : Word]
ASSUME LeftoverAssumption == Leftovers \subseteq [cop0 : Cop0State, irq : IrqState]

VARIABLES
    phase,      \* what main.c runs: the kernel, or the executable it loaded; first, nothing
    fresh       \* the executable was loaded and has not run an instruction yet

psx_vars == <<vars, phase, fresh>>

PsxTypeOK == TypeOK /\ phase \in {"created", "kernel", "exe"} /\ fresh \in BOOLEAN

\* psx_create resets the CPU, and neither coprocessor 0 nor the interrupt controller.
PsxInit ==
    /\ pc = RESET_VECTOR /\ next_pc = Plus(RESET_VECTOR, 4)
    /\ r = [n \in Reg |-> 0] /\ hi = 0 /\ lo = 0
    /\ load = NoSlot
    /\ branch_state = BRANCH_STATE_NO_DELAY /\ branch_target = 0
    /\ next_exc_code = EXC_NONE
    /\ \E left \in Leftovers : cop0 = left.cop0 /\ irq = left.irq
    /\ out = Quiet
    /\ phase = "created" /\ fresh = FALSE

\* psx_run: cpu_run for some number of cycles; main.c stops it anywhere.
psx_run ==
    /\ phase # "created"
    /\ \/ cpu_step /\ fresh' = FALSE
       \/ \E lines \in SUBSET Irqs \ {{}} : IrqRaise(lines) /\ UNCHANGED fresh
    /\ UNCHANGED phase

\* cpu_reset clears the structure and then sets what is not zero.  (A slip: the
\* exception code is left zero, which is EXC_INT.)
cpu_reset_zeroed ==
    /\ pc' = RESET_VECTOR /\ next_pc' = Plus(RESET_VECTOR, 4)
    /\ r' = [n \in Reg |-> 0] /\ hi' = 0 /\ lo' = 0
    /\ load' = NoSlot
    /\ branch_state' = BRANCH_STATE_NO_DELAY /\ branch_target' = 0
    /\ next_exc_code' = EXC_INT

cpu_reset ==
    /\ pc' = RESET_VECTOR /\ next_pc' = Plus(RESET_VECTOR, 4)
    /\ r' = [n \in Reg |-> 0] /\ hi' = 0 /\ lo' = 0
    /\ load' = NoSlot
    /\ branch_state' = BRANCH_STATE_NO_DELAY /\ branch_target' = 0
    /\ next_exc_code' = EXC_NONE

\* main.c resets what it created and what it ran.  (A slip: what psx_create does.)
psx_reset_as_created ==
    /\ phase # "kernel"
    /\ phase' = "kernel" /\ fresh' = FALSE
    /\ cpu_reset
    /\ out' = Quiet
    /\ UNCHANGED <<cop0, irq>>

psx_reset ==
    /\ phase # "kernel"
    /\ phase' = "kernel" /\ fresh' = FALSE
    /\ cpu_reset
    /\ cop0' = cop0_reset
    /\ irq' = irq_reset
    /\ out' = Quiet

\* Sets the program counters and two registers, and nothing else of the CPU.  (A
\* slip: only pc.)
load_exe_pc_only(exe) ==
    /\ phase = "kernel"
    /\ phase' = "exe" /\ fresh' = TRUE
    /\ pc' = exe.pc
    /\ r' = [r EXCEPT ![GP] = exe.gp, ![SP] = exe.sp]
    /\ out' = Quiet
    /\ UNCHANGED <<next_pc, hi, lo, load, branch_state, branch_target, next_exc_code, cop0, irq>>

load_exe(exe) ==
    /\ phase = "kernel"
    /\ phase' = "exe" /\ fresh' = TRUE
    /\ pc' = exe.pc
    /\ next_pc' = Plus(exe.pc, 4)
    /\ r' = [r EXCEPT ![GP] = exe.gp, ![SP] = exe.sp]
    /\ out' = Quiet
    /\ UNCHANGED <<hi, lo, load, branch_state, branch_target, next_exc_code, cop0, irq>>

PsxNext ==
    \/ psx_run
    \/ psx_reset
    \/ \E exe \in Exes : load_exe(exe)

PsxSpec == PsxInit /\ [][PsxNext]_psx_vars

-----------------------------------------------------------------------------
\* However the machine was created, reset or left by an executable, the program that
\* runs finds the cached flags of coprocessor 0 in agreement with its registers:
\* nothing of what malloc left reaches it.
ResetSettles == phase # "created" => InterruptFlagSound /\ IsolationCached

\* Between resets and executables the machine is the one of DelaySlots: a load or a
\* branch that the kernel left in its delay slot, and whatever the executable finds
\* latched, change nothing of what programs are promised.
RunsAreDelaySlots == [][phase' = phase => [DS!Next]_(DS!dvars)]_psx_vars

\* loader.c:72 to 74 set what cpu.h:21 calls the "next program counter", the "gp
\* register" and the "sp register" for the executable: its first instruction is
\* followed by the one at next_pc, and the registers stay as they were loaded.
\* (A branch or a load that the kernel left in its delay slot still happens.)
ExeEntersClean == fresh => get_next_pc = Plus(pc, 4) /\ Put(r, load) = r
==============================================================================
