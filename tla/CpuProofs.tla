------------------------------- MODULE CpuProofs -------------------------------
(* Cpu is type correct and keeps its cached flags and its interrupt latch       *)
(* consistent, and faults and isolated stores leave no trace: for any word      *)
(* size, register file, arithmetic, instruction set and interrupt lines.        *)
EXTENDS Cpu, R3000Proofs

\* The inductive invariant.  The latch of one step is justified by the flag it
\* was read from, so the flags have to be part of it.
CpuInv ==
    /\ TypeOK
    /\ NextPcFollows
    /\ LatchedOnlyWhenEnabled
    /\ FlagsCohere(cop0)

-----------------------------------------------------------------------------
LEMMA ExcFacts ==
  /\ EXC_NONE # EXC_INT /\ EXC_INT \notin SyncExc /\ EXC_NONE \notin SyncExc
  /\ ExcCode = SyncExc \cup {EXC_NONE, EXC_INT}
  BY DEF EXC_NONE, EXC_INT, SyncExc, ExcCode, EXC_ADEL, EXC_ADES, EXC_SYS, EXC_BP, EXC_RI, EXC_OV

LEMMA NextPcType ==
  ASSUME TypeOK
  PROVE  get_next_pc \in Word
  BY DEF TypeOK, get_next_pc

\* Committing the load keeps a register file and leaves $zero at zero.
LEMMA CommitType ==
  ASSUME TypeOK, NEW w \in Slot, NEW ld \in Slot
  PROVE  commit_load(w, ld) \in [Reg -> Word] /\ commit_load(w, ld)[0] = 0
<1>1. r \in [Reg -> Word] /\ r[0] = 0 /\ load \in Slot
  BY DEF TypeOK
<1>2. Put(r, load) \in [Reg -> Word] /\ Put(r, load)[0] = 0
  BY <1>1, PutType
<1>3. Put(r, w) \in [Reg -> Word] /\ Put(r, w)[0] = 0
  BY <1>1, PutType
<1>4. Put(Put(r, load), w) \in [Reg -> Word] /\ Put(Put(r, load), w)[0] = 0
  BY <1>2, PutType
<1>5. QED
  BY <1>3, <1>4 DEF commit_load

\* Whatever its handler did, the end of a step restores the invariant of the
\* program counters, the register file, the latch and coprocessor 0.
LEMMA FinishStep ==
  ASSUME CpuInv,
         NEW w \in Slot, NEW ld \in Slot, NEW br \in Branch,
         NEW exc \in SyncExc \cup {EXC_NONE},
         NEW c \in Cop0State, FlagsCohere(c),
         NEW lanes \in SUBSET Word,
         finish_step(w, ld, br, exc, c, lanes)
  PROVE  /\ pc' \in Word /\ next_pc' \in Word /\ next_pc' = Plus(pc', 4)
         /\ r' \in [Reg -> Word] /\ r'[0] = 0
         /\ load' = ld
         /\ branch_state' \in BranchState /\ branch_target' \in Word
         /\ next_exc_code' \in {EXC_NONE, EXC_INT}
         /\ next_exc_code' = EXC_INT => cop0'.status.cur
         /\ cop0' \in Cop0State /\ FlagsCohere(cop0')
         /\ out' \in Out /\ out'.lanes = lanes
         /\ out'.exc = IF exc = EXC_NONE THEN next_exc_code ELSE exc
<1> DEFINE code == IF exc = EXC_NONE THEN next_exc_code ELSE exc
<1>1. TypeOK /\ pc \in Word /\ branch_state \in BranchState /\ branch_target \in Word
  BY DEF CpuInv, TypeOK
<1>2. code \in ExcCode
  BY <1>1, ExcFacts DEF TypeOK
<1>3. r' \in [Reg -> Word] /\ r'[0] = 0 /\ load' = ld
  BY <1>1, CommitType DEF finish_step, EnterHandler, check_interrupts
<1>4. out' = [exc |-> code, lanes |-> lanes]
  BY DEF finish_step, EnterHandler, check_interrupts
<1>5. out' \in Out /\ out'.lanes = lanes /\ out'.exc = code
  BY <1>2, <1>4 DEF Out
<1>6. \A x \in Word : Plus(x, 4) \in Word
  BY WrapIsWord, WordIsInt
<1>7. BRANCH_STATE_NO_DELAY \in BranchState /\ 0 \in Word
  BY ZeroIsWord DEF BranchState
<1>8. CASE code # EXC_NONE
  <2>1. /\ cop0' = cop0_raise_exception(c, code, pc, branch_state, branch_target)
        /\ branch_state' = BRANCH_STATE_NO_DELAY /\ branch_target' = 0
        /\ pc' = EXC_VECTOR /\ next_pc' = Plus(EXC_VECTOR, 4)
        /\ next_exc_code' = EXC_NONE
    BY <1>8 DEF finish_step, EnterHandler, check_interrupts
  <2>2. cop0' \in Cop0State /\ FlagsCohere(cop0')
    BY <1>1, <1>2, <1>8, <2>1, RaiseCoheres
  <2>3. pc' \in Word /\ next_pc' \in Word /\ next_pc' = Plus(pc', 4)
    BY <2>1, <1>6, VectorAssumption
  <2>4. QED
    BY <1>3, <1>5, <1>7, <2>1, <2>2, <2>3, ExcFacts
<1>9. CASE code = EXC_NONE
  <2>1. /\ cop0' = c
        /\ pc' = get_next_pc /\ next_pc' = Plus(get_next_pc, 4)
        /\ branch_state' = br.state /\ branch_target' = br.target
        /\ next_exc_code' = IF c.pending_interrupts THEN EXC_INT ELSE EXC_NONE
    BY <1>9 DEF finish_step, EnterHandler, check_interrupts
  <2>2. pc' \in Word /\ next_pc' \in Word /\ next_pc' = Plus(pc', 4)
    BY <1>1, <1>6, <2>1, NextPcType
  <2>3. branch_state' \in BranchState /\ branch_target' \in Word
    BY <2>1 DEF Branch
  <2>4. /\ next_exc_code' \in {EXC_NONE, EXC_INT}
        /\ next_exc_code' = EXC_INT => cop0'.status.cur
    BY <2>1, ExcFacts DEF FlagsCohere
  <2>5. QED
    BY <1>3, <1>5, <2>1, <2>2, <2>3, <2>4
<1>10. QED
  BY <1>8, <1>9

\* The same, with the parts of the invariant that are left to the handler: hi,
\* lo and the interrupt controller.
LEMMA FinishKeepsInv ==
  ASSUME CpuInv,
         NEW w \in Slot, NEW ld \in Slot, NEW br \in Branch,
         NEW exc \in SyncExc \cup {EXC_NONE},
         NEW c \in Cop0State, FlagsCohere(c),
         NEW lanes \in SUBSET Word,
         finish_step(w, ld, br, exc, c, lanes),
         hi' \in Word, lo' \in Word, irq' \in IrqState
  PROVE  CpuInv'
  BY FinishStep DEF CpuInv, TypeOK, NextPcFollows, LatchedOnlyWhenEnabled

LEMMA Constants ==
  /\ NoBranch \in Branch
  /\ {} \in SUBSET Word
  /\ EXC_ADEL \in SyncExc \cup {EXC_NONE} /\ EXC_NONE \in SyncExc \cup {EXC_NONE}
  BY ZeroIsWord DEF NoBranch, Branch, BranchState, SyncExc

LEMMA InvTypes ==
  ASSUME CpuInv
  PROVE  /\ r \in [Reg -> Word] /\ hi \in Word /\ lo \in Word
         /\ load \in Slot
         /\ cop0 \in Cop0State /\ FlagsCohere(cop0) /\ cop0.cache_isolated \in BOOLEAN
         /\ irq \in IrqState
         /\ get_next_pc \in Word
  BY NextPcType DEF CpuInv, TypeOK, Cop0State

-----------------------------------------------------------------------------
\* Reset establishes the invariant.
LEMMA InitInv == Init => CpuInv
<1> SUFFICES ASSUME Init PROVE CpuInv
  OBVIOUS
<1>1. RESET_VECTOR \in Word /\ Plus(RESET_VECTOR, 4) \in Word
  BY VectorAssumption, WrapIsWord, WordIsInt
<1>2. /\ [n \in Reg |-> 0] \in [Reg -> Word] /\ [n \in Reg |-> 0][0] = 0
      /\ 0 \in Word /\ NoSlot \in Slot
  BY ZeroIsWord
<1>3. irq_reset \in IrqState /\ Quiet \in Out /\ BRANCH_STATE_NO_DELAY \in BranchState
  BY DEF irq_reset, IrqState, Quiet, Out, ExcCode, BranchState
<1>4. EXC_NONE # EXC_INT
  BY ExcFacts
<1>5. QED
  BY <1>1, <1>2, <1>3, <1>4, ResetCoheres
  DEF Init, CpuInv, TypeOK, NextPcFollows, LatchedOnlyWhenEnabled

\* Every step of the interpreter keeps it, one case per action.
LEMMA StepInv == CpuInv /\ cpu_step => CpuInv'
<1> SUFFICES ASSUME CpuInv, cpu_step PROVE CpuInv'
  OBVIOUS
<1> USE InvTypes, Constants, ZeroIsWord
<1>1. CASE FetchFault
  BY <1>1, FinishKeepsInv DEF FetchFault, finish_plain
<1>2. ASSUME NEW i \in Insts, Compute(i) PROVE CpuInv'
  <2>1. i \in Inst
    BY InputAssumption
  <2>2. Write(i) \in Slot
    BY <2>1, WriteType DEF Write
  <2>3. QED
    BY <1>2, <2>2, FinishKeepsInv DEF Compute, finish_plain
<1>3. ASSUME NEW i \in Insts, MoveHiLo(i) PROVE CpuInv'
  <2>1. i \in Inst
    BY InputAssumption
  <2>2. hi' \in Word /\ lo' \in Word
    BY <1>3, <2>1, HiLoType DEF MoveHiLo
  <2>3. QED
    BY <1>3, <2>2, FinishKeepsInv DEF MoveHiLo, finish_plain
<1>4. ASSUME NEW i \in Insts, TrapArith(i) PROVE CpuInv'
  <2>1. i \in Inst
    BY InputAssumption
  <2>2. Write(i) \in Slot /\ Fault(i) \in SyncExc \cup {EXC_NONE}
    BY <2>1, WriteType, FaultType DEF Write, Fault
  <2>3. QED
    BY <1>4, <2>2, FinishKeepsInv DEF TrapArith, finish_plain
<1>5. ASSUME NEW i \in Insts, BranchOrJump(i) PROVE CpuInv'
  <2>1. i \in Inst
    BY InputAssumption
  <2>2. Write(i) \in Slot /\ BranchOf(i, r, get_next_pc) \in Branch
    BY <2>1, WriteType, BranchType DEF Write
  <2>3. QED
    BY <1>5, <2>2, FinishKeepsInv DEF BranchOrJump
<1>6. ASSUME NEW i \in Insts, NEW v \in MemVals, LoadWord(i, v) PROVE CpuInv'
  <2> DEFINE ld == LoadOf(i, v, reg_read_with_load(r, load, i.rt))
  <2>1. i \in Inst /\ i.rt \in Reg /\ v \in Word
    BY InputAssumption DEF Inst
  <2>2. reg_read_with_load(r, load, i.rt) \in Word
    BY <2>1, RegReadType DEF reg_read_with_load, Slot
  <2>3. ld \in Slot /\ Fault(i) \in SyncExc \cup {EXC_NONE}
    BY <2>1, <2>2, LoadType, FaultType DEF Fault
  <2>4. finish_plain(NoSlot, IF Fault(i) = EXC_NONE THEN ld ELSE NoSlot, Fault(i))
        /\ UNCHANGED <<hi, lo, irq>>
    BY <1>6 DEF LoadWord
  <2> HIDE DEF ld
  <2>5. QED
    BY <2>3, <2>4, FinishKeepsInv DEF finish_plain
<1>7. ASSUME NEW i \in Insts, NEW v \in IrqState, Store(i, v) PROVE CpuInv'
  <2> DEFINE lanes == IF cop0.cache_isolated \/ Fault(i) # EXC_NONE THEN {} ELSE LanesOf(i, r)
  <2>1. i \in Inst
    BY InputAssumption
  <2>2. Fault(i) \in SyncExc \cup {EXC_NONE}
    BY <2>1, FaultType DEF Fault
  <2>3. lanes \in SUBSET Word
    BY <2>1, LanesType DEF Fault
  <2>4. /\ finish_step(NoSlot, NoSlot, NoBranch, Fault(i), cop0, lanes)
        /\ irq' = irq_write(irq, lanes, v)
        /\ UNCHANGED <<hi, lo>>
    BY <1>7 DEF Store
  <2> HIDE DEF lanes
  <2>5. irq' \in IrqState
    BY <2>4, IrqType
  <2>6. QED
    BY <2>2, <2>3, <2>4, <2>5, FinishKeepsInv
<1>8. ASSUME NEW i \in Insts, Mfc0(i) PROVE CpuInv'
  <2>1. i \in Inst
    BY InputAssumption
  <2>2. PICK v \in cop0_read(cop0, i.cop, MemVals) : finish_plain(NoSlot, LoadOf(i, v, 0), EXC_NONE)
    BY <1>8 DEF Mfc0
  <2>3. v \in Word
    BY <2>2, InputAssumption DEF cop0_read, Cop0State
  <2>4. LoadOf(i, v, 0) \in Slot
    BY <2>1, <2>3, LoadType
  <2>5. QED
    BY <1>8, <2>2, <2>4, FinishKeepsInv DEF Mfc0, finish_plain
<1>9. ASSUME NEW i \in Insts, NEW s \in StatusInputs, Mtc0(i, s) PROVE CpuInv'
  <2> DEFINE c == cop0_write(cop0, i.cop, s, reg_read(r, i.rt))
  <2>1. i \in Inst /\ i.cop \in Cop0Reg /\ i.rt \in Reg /\ s \in Status
    BY InputAssumption DEF Inst
  <2>2. c \in Cop0State /\ FlagsCohere(c)
    BY <2>1, RegReadType, WriteCoheres
  <2>3. finish_step(NoSlot, NoSlot, NoBranch, EXC_NONE, c, {}) /\ UNCHANGED <<hi, lo, irq>>
    BY <1>9 DEF Mtc0
  <2> HIDE DEF c
  <2>4. QED
    BY <2>2, <2>3, FinishKeepsInv
<1>10. ASSUME NEW i \in Insts, Rfe(i) PROVE CpuInv'
  <2>1. cop0_rfe(cop0) \in Cop0State /\ FlagsCohere(cop0_rfe(cop0))
    BY RfeCoheres
  <2>2. QED
    BY <1>10, <2>1, FinishKeepsInv DEF Rfe
<1>11. ASSUME NEW i \in Insts, Trap(i) PROVE CpuInv'
  <2>1. Fault(i) \in SyncExc \cup {EXC_NONE}
    BY InputAssumption, FaultType DEF Fault
  <2>2. QED
    BY <1>11, <2>1, FinishKeepsInv DEF Trap, finish_plain
<1>12. QED
  BY <1>1, <1>2, <1>3, <1>4, <1>5, <1>6, <1>7, <1>8, <1>9, <1>10, <1>11 DEF cpu_step

\* irq_raise moves no register of the CPU, and neither status nor the latch.
LEMMA RaiseInv ==
  ASSUME CpuInv, NEW lines \in SUBSET Irqs, IrqRaise(lines)
  PROVE  CpuInv'
<1>1. irq' \in IrqState
  BY InvTypes, IrqType DEF IrqRaise
<1>2. cop0' \in Cop0State /\ FlagsCohere(cop0') /\ cop0'.status = cop0.status
  BY <1>1, InvTypes, UpdateCoheres DEF IrqRaise
<1>3. out' \in Out
  BY DEF IrqRaise, Quiet, Out, ExcCode
<1>4. UNCHANGED cpu_vars
  BY DEF IrqRaise
<1>5. QED
  BY <1>1, <1>2, <1>3, <1>4
  DEF cpu_vars, CpuInv, TypeOK, NextPcFollows, LatchedOnlyWhenEnabled

LEMMA NextInv == CpuInv /\ [Next]_vars => CpuInv'
<1> SUFFICES ASSUME CpuInv, [Next]_vars PROVE CpuInv'
  OBVIOUS
<1>1. CASE cpu_step
  BY <1>1, StepInv
<1>2. CASE \E lines \in SUBSET Irqs \ {{}} : IrqRaise(lines)
  BY <1>2, RaiseInv
<1>3. CASE UNCHANGED vars
  BY <1>3 DEF vars, cpu_vars, CpuInv, TypeOK, NextPcFollows, LatchedOnlyWhenEnabled
<1>4. QED
  BY <1>1, <1>2, <1>3 DEF Next

THEOREM Invariance == Spec => []CpuInv
<1>1. QED
  BY InitInv, NextInv, PTL DEF Spec

\* The values of every variable stay in their types and $zero stays zero.
THEOREM TypeCorrect == Spec => []TypeOK
<1>1. CpuInv => TypeOK
  BY DEF CpuInv
<1>2. QED
  BY <1>1, Invariance, PTL

\* Whatever exception, branch or jump came last, next_pc follows pc.
THEOREM ProgramCounters == Spec => []NextPcFollows
<1>1. CpuInv => NextPcFollows
  BY DEF CpuInv
<1>2. QED
  BY <1>1, Invariance, PTL

\* The pending flag is set only with interrupts enabled and one in cause,
\* through every path that computes it.
THEOREM PendingSound == Spec => []InterruptFlagSound
<1>1. CpuInv => InterruptFlagSound
  BY DEF CpuInv, FlagsCohere, InterruptFlagSound
<1>2. QED
  BY <1>1, Invariance, PTL

\* An interrupt that is latched between two steps finds interrupts enabled.
THEOREM LatchSound == Spec => []LatchedOnlyWhenEnabled
<1>1. CpuInv => LatchedOnlyWhenEnabled
  BY DEF CpuInv
<1>2. QED
  BY <1>1, Invariance, PTL

\* The isolation flag that stores test is the status bit that programs set.
THEOREM IsolationSound == Spec => []IsolationCached
<1>1. CpuInv => IsolationCached
  BY DEF CpuInv, FlagsCohere, IsolationCached
<1>2. QED
  BY <1>1, Invariance, PTL

-----------------------------------------------------------------------------
\* A step with no exception of its own raises none but an interrupt.
LEMMA NoFaultRaised ==
  ASSUME CpuInv, NEW w, NEW ld, NEW br, NEW c, NEW lanes,
         finish_step(w, ld, br, EXC_NONE, c, lanes)
  PROVE  out'.exc \notin SyncExc /\ out'.lanes = lanes
<1>1. next_exc_code \in {EXC_NONE, EXC_INT}
  BY DEF CpuInv, TypeOK
<1>2. out' = [exc |-> next_exc_code, lanes |-> lanes]
  BY DEF finish_step, EnterHandler, check_interrupts
<1>3. QED
  BY <1>1, <1>2, ExcFacts

\* A step with an exception raises that one, and of the CPU's registers only the
\* waiting load is left behind.
LEMMA FaultRaised ==
  ASSUME CpuInv, NEW br, NEW c, NEW lanes, NEW exc \in SyncExc,
         finish_step(NoSlot, NoSlot, br, exc, c, lanes)
  PROVE  /\ out'.exc = exc /\ out'.lanes = lanes
         /\ r' = Put(r, load) /\ load' = NoSlot
         /\ branch_state' = BRANCH_STATE_NO_DELAY
         /\ pc' = EXC_VECTOR /\ next_pc' = Plus(EXC_VECTOR, 4)
         /\ cop0' = cop0_raise_exception(c, exc, pc, branch_state, branch_target)
<1>1. exc # EXC_NONE
  BY ExcFacts
<1>2. /\ out' = [exc |-> exc, lanes |-> lanes]
      /\ r' = commit_load(NoSlot, NoSlot) /\ load' = NoSlot
      /\ branch_state' = BRANCH_STATE_NO_DELAY
      /\ pc' = EXC_VECTOR /\ next_pc' = Plus(EXC_VECTOR, 4)
      /\ cop0' = cop0_raise_exception(c, exc, pc, branch_state, branch_target)
  BY <1>1 DEF finish_step, EnterHandler, check_interrupts
<1>3. commit_load(NoSlot, NoSlot) = Put(r, load)
  BY DEF commit_load, Put, NoSlot
<1>4. QED
  BY <1>2, <1>3

\* The state a step leaves, as FaultsArePrecise, RfeUndoesException and
\* IsolatedStoresDropped see it.
Precise == out'.exc \in SyncExc =>
    /\ r' = Put(r, load) /\ hi' = hi /\ lo' = lo
    /\ load' = NoSlot
    /\ branch_state' = BRANCH_STATE_NO_DELAY
    /\ out'.lanes = {} /\ irq' = irq
    /\ cop0' = cop0_raise_exception(cop0, out'.exc, pc, branch_state, branch_target)
Dropped == cop0.status.isc => out'.lanes = {} /\ out'.exc # EXC_ADES

LEMMA IsolatedFault ==
  ASSUME NEW i, NEW f
  PROVE  FaultOf(i, f, TRUE) # EXC_ADES
  BY DEF FaultOf, EXC_ADES, EXC_ADEL, EXC_OV, EXC_SYS, EXC_BP, EXC_RI, EXC_NONE

LEMMA StepIsPrecise == CpuInv /\ cpu_step => Precise /\ Dropped
<1> SUFFICES ASSUME CpuInv, cpu_step PROVE Precise /\ Dropped
  OBVIOUS
<1> USE InvTypes, ExcFacts
<1>1. \A i \in Insts : Fault(i) \in SyncExc \cup {EXC_NONE}
  BY InputAssumption, FaultType DEF Fault
<1>2. cop0.status.isc => \A i \in Insts : Fault(i) # EXC_ADES
  BY IsolatedFault DEF Fault, FlagsCohere, Cop0State, Status
<1>3. EXC_ADEL \in SyncExc /\ EXC_ADEL # EXC_ADES /\ EXC_ADES \in SyncExc
  BY DEF SyncExc, EXC_ADEL, EXC_ADES
<1>4. CASE FetchFault
  BY <1>3, <1>4, FaultRaised DEF FetchFault, finish_plain, Precise, Dropped
<1>5. ASSUME NEW i \in Insts, Compute(i) \/ MoveHiLo(i) \/ BranchOrJump(i) \/ Mfc0(i) \/ Rfe(i)
      PROVE  Precise /\ Dropped
  BY <1>3, <1>5, NoFaultRaised
  DEF Compute, MoveHiLo, BranchOrJump, Mfc0, Rfe, finish_plain, Precise, Dropped
<1>6. ASSUME NEW i \in Insts, NEW s \in StatusInputs, Mtc0(i, s) PROVE Precise /\ Dropped
  BY <1>3, <1>6, NoFaultRaised DEF Mtc0, Precise, Dropped
<1>7. ASSUME NEW i \in Insts, TrapArith(i) PROVE Precise /\ Dropped
  <2>1. CASE Fault(i) = EXC_NONE
    BY <1>3, <1>7, <2>1, NoFaultRaised DEF TrapArith, finish_plain, Precise, Dropped
  <2>2. CASE Fault(i) # EXC_NONE
    BY <1>1, <1>2, <1>7, <2>2, FaultRaised DEF TrapArith, finish_plain, Precise, Dropped
  <2>3. QED
    BY <2>1, <2>2
<1>8. ASSUME NEW i \in Insts, NEW v \in MemVals, LoadWord(i, v) PROVE Precise /\ Dropped
  <2>1. CASE Fault(i) = EXC_NONE
    BY <1>3, <1>8, <2>1, NoFaultRaised DEF LoadWord, finish_plain, Precise, Dropped
  <2>2. CASE Fault(i) # EXC_NONE
    BY <1>1, <1>2, <1>8, <2>2, FaultRaised DEF LoadWord, finish_plain, Precise, Dropped
  <2>3. QED
    BY <2>1, <2>2
<1>9. ASSUME NEW i \in Insts, NEW v \in IrqState, Store(i, v) PROVE Precise /\ Dropped
  <2>1. cop0.status.isc => cop0.cache_isolated
    BY DEF FlagsCohere
  <2>2. CASE Fault(i) = EXC_NONE
    BY <1>3, <1>9, <2>1, <2>2, NoFaultRaised DEF Store, Precise, Dropped
  <2>3. CASE Fault(i) # EXC_NONE
    <3>1. /\ finish_step(NoSlot, NoSlot, NoBranch, Fault(i), cop0, {})
          /\ irq' = irq_write(irq, {}, v)
          /\ UNCHANGED <<hi, lo>>
      BY <1>9, <2>3 DEF Store
    <3>2. irq' = irq
      BY <3>1, NoLanes
    <3>3. QED
      BY <1>1, <1>2, <2>3, <3>1, <3>2, FaultRaised DEF Precise, Dropped
  <2>4. QED
    BY <2>2, <2>3
<1>10. ASSUME NEW i \in Insts, Trap(i) PROVE Precise /\ Dropped
  <2>1. Fault(i) \in SyncExc
    BY <1>10 DEF Trap, TrapOp, Fault, FaultOf, SyncExc
  <2>2. QED
    BY <1>2, <1>10, <2>1, FaultRaised DEF Trap, finish_plain, Precise, Dropped
<1>11. QED
  BY <1>4, <1>5, <1>6, <1>7, <1>8, <1>9, <1>10 DEF cpu_step

LEMMA NextIsPrecise == CpuInv /\ [Next]_vars => [Precise /\ Dropped]_vars
<1> SUFFICES ASSUME CpuInv, Next PROVE Precise /\ Dropped
  OBVIOUS
<1>1. CASE cpu_step
  BY <1>1, StepIsPrecise
<1>2. ASSUME NEW lines \in SUBSET Irqs, IrqRaise(lines) PROVE Precise /\ Dropped
  <2>1. out'.lanes = {} /\ out'.exc = EXC_NONE /\ EXC_NONE \notin SyncExc /\ EXC_ADES \in SyncExc
    BY <1>2, ExcFacts DEF IrqRaise, Quiet, SyncExc
  <2>2. QED
    BY <2>1 DEF Precise, Dropped
<1>3. QED
  BY <1>1, <1>2 DEF Next

\* A step that raises anything but an interrupt leaves no trace of its
\* instruction but the load that was already in its delay slot.
THEOREM FaultPrecision == Spec => FaultsArePrecise
<1> DEFINE NoTrace == out'.exc \in SyncExc =>
                        /\ r' = Put(r, load) /\ hi' = hi /\ lo' = lo
                        /\ load' = NoSlot
                        /\ branch_state' = BRANCH_STATE_NO_DELAY
                        /\ out'.lanes = {} /\ irq' = irq
<1>1. CpuInv /\ [Next]_vars => [NoTrace]_vars
  BY NextIsPrecise DEF Precise
<1>2. Spec => [][NoTrace]_vars
  BY <1>1, Invariance, PTL DEF Spec
<1>3. QED
  BY <1>2 DEF FaultsArePrecise

LEMMA RfeStatus ==
  ASSUME NEW d \in Cop0State
  PROVE  /\ cop0_rfe(d).status.cur = d.status.prev
         /\ cop0_rfe(d).status.prev = d.status.old
         /\ cop0_rfe(d).status.im = d.status.im
  BY DEF cop0_rfe, cop0_set_pending_interrupts, Cop0State, Status

\* The interrupt enable bits after an exception and one rfe are those before it.
LEMMA RfePops ==
  ASSUME NEW c \in Cop0State, NEW code \in SyncExc, NEW a \in Word,
         NEW bs \in BranchState, NEW bt \in Word
  PROVE  LET back == cop0_rfe(cop0_raise_exception(c, code, a, bs, bt))
         IN  /\ back.status.cur = c.status.cur
             /\ back.status.prev = c.status.prev
             /\ back.status.im = c.status.im
<1> DEFINE d == cop0_raise_exception(c, code, a, bs, bt)
<1>1. code \in ExcCode \ {EXC_NONE}
  BY ExcFacts
<1>2. /\ d \in Cop0State
      /\ d.status.prev = c.status.cur /\ d.status.old = c.status.prev
      /\ d.status.im = c.status.im
  BY <1>1, RaiseCoheres
<1>3. /\ cop0_rfe(d).status.cur = d.status.prev
      /\ cop0_rfe(d).status.prev = d.status.old
      /\ cop0_rfe(d).status.im = d.status.im
  BY <1>2, RfeStatus
<1> HIDE DEF d
<1>4. /\ cop0_rfe(d).status.cur = c.status.cur
      /\ cop0_rfe(d).status.prev = c.status.prev
      /\ cop0_rfe(d).status.im = c.status.im
  BY <1>2, <1>3
<1>5. QED
  BY <1>4 DEF d

\* An exception pushes the interrupt enable stack by what one rfe pops.
THEOREM ExceptionReturn == Spec => RfeUndoesException
<1> DEFINE Back == out'.exc \in SyncExc =>
                     /\ cop0_rfe(cop0').status.cur = cop0.status.cur
                     /\ cop0_rfe(cop0').status.prev = cop0.status.prev
                     /\ cop0_rfe(cop0').status.im = cop0.status.im
<1>1. CpuInv /\ [Next]_vars => [Back]_vars
  <2>1. CpuInv /\ Precise => Back
    BY RfePops DEF Precise, CpuInv, TypeOK
  <2>2. QED
    BY <2>1, NextIsPrecise
<1>2. Spec => [][Back]_vars
  BY <1>1, Invariance, PTL DEF Spec
<1>3. QED
  BY <1>2 DEF RfeUndoesException

\* With the cache isolated no store shows outside, and none faults.
THEOREM IsolationDrops == Spec => IsolatedStoresDropped
<1>1. CpuInv /\ [Next]_vars => [Dropped]_vars
  BY NextIsPrecise
<1>2. Spec => [][Dropped]_vars
  BY <1>1, Invariance, PTL DEF Spec
<1>3. QED
  BY <1>2 DEF IsolatedStoresDropped, Dropped

-----------------------------------------------------------------------------
\* How every step ends, as far as exceptions, the next address and the interrupt
\* latch go: c is coprocessor 0 as the instruction left it.
Ends(c) ==
    /\ out'.exc # EXC_NONE =>
          /\ cop0' = cop0_raise_exception(c, out'.exc, pc, branch_state, branch_target)
          /\ branch_state' = BRANCH_STATE_NO_DELAY
    /\ out'.exc = EXC_NONE =>
          /\ pc' = get_next_pc
          /\ cop0' = c
          /\ next_exc_code = EXC_NONE
          /\ next_exc_code' = check_interrupts(c)

\* An interrupt that was pending is so in c, unless the program disabled or masked it.
Settled(c) ==
    cop0.pending_interrupts /\ c.status.cur /\ c.status.im => c.pending_interrupts

LEMMA FinishEnds ==
  ASSUME NEW w, NEW ld, NEW br, NEW exc, NEW c, NEW lanes,
         finish_step(w, ld, br, exc, c, lanes)
  PROVE  Ends(c)
<1> DEFINE code == IF exc = EXC_NONE THEN next_exc_code ELSE exc
<1>1. out' = [exc |-> code, lanes |-> lanes]
  BY DEF finish_step
<1>2. out'.exc = code
  BY <1>1
<1>3. code # EXC_NONE =>
        /\ cop0' = cop0_raise_exception(c, code, pc, branch_state, branch_target)
        /\ branch_state' = BRANCH_STATE_NO_DELAY
  BY DEF finish_step, EnterHandler
<1>4. code = EXC_NONE =>
        /\ pc' = get_next_pc
        /\ cop0' = c
        /\ next_exc_code = EXC_NONE
        /\ next_exc_code' = check_interrupts(c)
  BY DEF finish_step
<1> HIDE DEF code
<1>5. QED
  BY <1>2, <1>3, <1>4 DEF Ends

\* mtc0 and rfe compute the flag again, from a cause bit that they do not write.
LEMMA WriteSettles ==
  ASSUME CpuInv, NEW reg \in Cop0Reg, NEW s \in Status, NEW v \in Word
  PROVE  Settled(cop0_write(cop0, reg, s, v))
<1>1. cop0 \in Cop0State /\ (cop0.pending_interrupts => cop0.cause.ip)
  BY InvTypes DEF FlagsCohere
<1>2. CASE reg = "status"
  BY <1>1, <1>2 DEF Settled, cop0_write, cop0_set_status, cop0_set_pending_interrupts,
                    Cop0State, Status, Cause
<1>3. CASE reg = "tar"
  BY <1>1, <1>3 DEF Settled, cop0_write, Cop0State
<1>4. CASE reg \notin {"status", "tar"}
  BY <1>4 DEF Settled, cop0_write
<1>5. QED
  BY <1>2, <1>3, <1>4

LEMMA RfeSettles == CpuInv => Settled(cop0_rfe(cop0))
<1> SUFFICES ASSUME CpuInv PROVE Settled(cop0_rfe(cop0))
  OBVIOUS
<1>1. cop0 \in Cop0State /\ (cop0.pending_interrupts => cop0.cause.ip)
  BY InvTypes DEF FlagsCohere
<1>2. QED
  BY <1>1 DEF Settled, cop0_rfe, cop0_set_pending_interrupts, Cop0State, Status, Cause

LEMMA StepEnds == CpuInv /\ cpu_step => \E c \in Cop0State : Ends(c) /\ Settled(c)
<1> SUFFICES ASSUME CpuInv, cpu_step PROVE \E c \in Cop0State : Ends(c) /\ Settled(c)
  OBVIOUS
<1>1. cop0 \in Cop0State /\ FlagsCohere(cop0) /\ Settled(cop0)
  BY InvTypes DEF Settled
<1>2. \A w, ld, exc : finish_plain(w, ld, exc) => Ends(cop0)
  BY FinishEnds DEF finish_plain
<1>3. CASE FetchFault
  BY <1>1, <1>2, <1>3 DEF FetchFault
<1>4. ASSUME NEW i \in Insts,
             Compute(i) \/ MoveHiLo(i) \/ TrapArith(i) \/ Mfc0(i) \/ Trap(i)
      PROVE  \E c \in Cop0State : Ends(c) /\ Settled(c)
  BY <1>1, <1>2, <1>4 DEF Compute, MoveHiLo, TrapArith, Mfc0, Trap
<1>5. ASSUME NEW i \in Insts, BranchOrJump(i) PROVE \E c \in Cop0State : Ends(c) /\ Settled(c)
  <2>1. finish_step(Write(i), NoSlot, BranchOf(i, r, get_next_pc), EXC_NONE, cop0, {})
    BY <1>5 DEF BranchOrJump
  <2>2. QED
    BY <1>1, <2>1, FinishEnds
<1>6. ASSUME NEW i \in Insts, NEW v \in MemVals, LoadWord(i, v)
      PROVE  \E c \in Cop0State : Ends(c) /\ Settled(c)
  BY <1>1, <1>2, <1>6 DEF LoadWord
<1>7. ASSUME NEW i \in Insts, NEW v \in IrqState, Store(i, v)
      PROVE  \E c \in Cop0State : Ends(c) /\ Settled(c)
  <2>1. \E lanes : finish_step(NoSlot, NoSlot, NoBranch, Fault(i), cop0, lanes)
    BY <1>7 DEF Store
  <2>2. QED
    BY <1>1, <2>1, FinishEnds
<1>8. ASSUME NEW i \in Insts, NEW s \in StatusInputs, Mtc0(i, s)
      PROVE  \E c \in Cop0State : Ends(c) /\ Settled(c)
  <2> DEFINE c == cop0_write(cop0, i.cop, s, reg_read(r, i.rt))
  <2>1. i.cop \in Cop0Reg /\ i.rt \in Reg /\ s \in Status
    BY InputAssumption DEF Inst
  <2>2. c \in Cop0State /\ Settled(c)
    BY <1>1, <2>1, InvTypes, RegReadType, WriteCoheres, WriteSettles
  <2>3. finish_step(NoSlot, NoSlot, NoBranch, EXC_NONE, c, {})
    BY <1>8 DEF Mtc0
  <2> HIDE DEF c
  <2>4. QED
    BY <2>2, <2>3, FinishEnds
<1>9. ASSUME NEW i \in Insts, Rfe(i) PROVE \E c \in Cop0State : Ends(c) /\ Settled(c)
  <2>1. finish_step(NoSlot, NoSlot, NoBranch, EXC_NONE, cop0_rfe(cop0), {})
    BY <1>9 DEF Rfe
  <2>2. cop0_rfe(cop0) \in Cop0State /\ Settled(cop0_rfe(cop0))
    BY <1>1, RfeCoheres, RfeSettles
  <2>3. QED
    BY <2>1, <2>2, FinishEnds
<1>10. QED
  BY <1>3, <1>4, <1>5, <1>6, <1>7, <1>8, <1>9 DEF cpu_step

\* Entering a handler disables interrupts.
LEMMA RaiseDisables ==
  ASSUME NEW c \in Cop0State, NEW code, NEW a, NEW bs, NEW bt
  PROVE  cop0_raise_exception(c, code, a, bs, bt).status.cur = FALSE
  BY DEF cop0_raise_exception, cop0_set_status, cop0_set_pending_interrupts, PushStatus,
         Cop0State, Status

Latches ==
    cop0.pending_interrupts /\ Waiting' =>
        /\ cop0'.pending_interrupts
        /\ \/ next_exc_code = EXC_NONE /\ next_exc_code' = EXC_INT
           \/ UNCHANGED cpu_vars

LEMMA NextLatches == CpuInv /\ [Next]_vars => [Latches]_vars
<1> SUFFICES ASSUME CpuInv, Next, cop0.pending_interrupts, Waiting'
             PROVE  /\ cop0'.pending_interrupts
                    /\ \/ next_exc_code = EXC_NONE /\ next_exc_code' = EXC_INT
                       \/ UNCHANGED cpu_vars
  BY DEF Latches
<1>1. cop0'.status.cur /\ cop0'.status.im /\ irq'.stat \cap irq'.mask # {}
  BY DEF Waiting
<1>2. CASE cpu_step
  <2>1. PICK c \in Cop0State : Ends(c) /\ Settled(c)
    BY <1>2, StepEnds
  <2>2. out'.exc = EXC_NONE
    BY <1>1, <2>1, RaiseDisables DEF Ends
  <2>3. cop0' = c /\ next_exc_code = EXC_NONE /\ next_exc_code' = check_interrupts(c)
    BY <2>1, <2>2 DEF Ends
  <2>4. c.pending_interrupts
    BY <1>1, <2>1, <2>3 DEF Settled
  <2>5. QED
    BY <2>3, <2>4 DEF check_interrupts
<1>3. ASSUME NEW lines \in SUBSET Irqs, IrqRaise(lines) PROVE cop0'.pending_interrupts
                                                              /\ UNCHANGED cpu_vars
  <2>1. cop0' = cop0_update_interrupts(cop0, irq') /\ UNCHANGED cpu_vars
    BY <1>3 DEF IrqRaise
  <2>2. cop0 \in Cop0State
    BY InvTypes
  <2>3. cop0'.status = cop0.status
    BY <2>1, <2>2 DEF cop0_update_interrupts, Cop0State
  <2>4. cop0'.pending_interrupts = (irq'.stat \cap irq'.mask # {} /\ cop0.status.cur)
    BY <2>1, <2>2 DEF cop0_update_interrupts, Cop0State
  <2>5. QED
    BY <1>1, <2>1, <2>3, <2>4
<1>4. QED
  BY <1>2, <1>3 DEF Next

\* No program leaves an interrupt pending through two instructions: what is not
\* masked, disabled or acknowledged is latched by the next instruction that ends,
\* and no step loses it on the way.
THEOREM LatencyBounded == Spec => InterruptLatency
<1>1. CpuInv /\ [Next]_vars => [Latches]_vars
  BY NextLatches
<1>2. Spec => [][Latches]_vars
  BY <1>1, Invariance, PTL DEF Spec
<1>3. QED
  BY <1>2 DEF InterruptLatency, Latches
================================================================================
