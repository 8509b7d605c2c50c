------------------------------- MODULE PsxProofs -------------------------------
(* The life of the machine keeps the interpreter's invariant from the first      *)
(* reset on, whatever psx_create found in its memory and whatever an executable   *)
(* leaves behind, and what programs are promised holds for the kernel and for the *)
(* executable: the theorems about Psx.                                           *)
EXTENDS Psx, RefinementProofs

\* Before the first reset only the CPU is in order.
PsxInv ==
    /\ PsxTypeOK
    /\ NextPcFollows
    /\ LatchedOnlyWhenEnabled
    /\ phase # "created" => FlagsCohere(cop0)

LEMMA PsxInvIsCpuInv == PsxInv /\ phase # "created" => CpuInv
  BY DEF PsxInv, PsxTypeOK, CpuInv

LEMMA Resets ==
  /\ RESET_VECTOR \in Word /\ Plus(RESET_VECTOR, 4) \in Word
  /\ [n \in Reg |-> 0] \in [Reg -> Word] /\ [n \in Reg |-> 0][0] = 0
  /\ 0 \in Word /\ NoSlot \in Slot
  /\ Quiet \in Out /\ BRANCH_STATE_NO_DELAY \in BranchState
  /\ irq_reset \in IrqState
<1>1. RESET_VECTOR \in Word /\ Plus(RESET_VECTOR, 4) \in Word
  BY VectorAssumption, WrapIsWord, WordIsInt
<1>2. QED
  BY <1>1, ZeroIsWord DEF Quiet, Out, ExcCode, BranchState, irq_reset, IrqState

LEMMA PsxInitInv == PsxInit => PsxInv
<1> SUFFICES ASSUME PsxInit PROVE PsxInv
  OBVIOUS
<1>1. cop0 \in Cop0State /\ irq \in IrqState
  BY LeftoverAssumption DEF PsxInit
<1>2. TypeOK
  BY <1>1, Resets DEF PsxInit, TypeOK
<1>3. QED
  BY <1>2, ExcFacts DEF PsxInit, PsxInv, PsxTypeOK, NextPcFollows, LatchedOnlyWhenEnabled

LEMMA ResetInv == PsxInv /\ psx_reset => PsxInv'
<1> SUFFICES ASSUME PsxInv, psx_reset PROVE PsxInv'
  OBVIOUS
<1>1. cop0' \in Cop0State /\ FlagsCohere(cop0') /\ irq' \in IrqState
  BY ResetCoheres, Resets DEF psx_reset
<1>2. TypeOK'
  BY <1>1, Resets DEF psx_reset, cpu_reset, TypeOK
<1>3. QED
  BY <1>1, <1>2, ExcFacts
  DEF psx_reset, cpu_reset, PsxInv, PsxTypeOK, NextPcFollows, LatchedOnlyWhenEnabled

\* The new program counters follow each other; what is in flight stays in its types.
LEMMA LoadInv ==
  ASSUME PsxInv, NEW exe \in Exes, load_exe(exe)
  PROVE  PsxInv'
<1>1. exe.pc \in Word /\ exe.gp \in Word /\ exe.sp \in Word /\ Plus(exe.pc, 4) \in Word
  <2>1. exe \in [pc : Word, gp : Word, sp : Word]
    BY ExeAssumption
  <2>2. exe.pc \in Word /\ exe.gp \in Word /\ exe.sp \in Word
    BY <2>1
  <2>3. 4 \in Int
    OBVIOUS
  <2>4. Plus(exe.pc, 4) \in Word
    BY <2>2, <2>3, WrapIsWord, WordIsInt
  <2>5. QED
    BY <2>2, <2>4
<1>2. TypeOK
  BY DEF PsxInv, PsxTypeOK
<1>3. /\ pc' = exe.pc /\ next_pc' = Plus(exe.pc, 4) /\ out' = Quiet
      /\ r' = [r EXCEPT ![GP] = exe.gp, ![SP] = exe.sp]
      /\ UNCHANGED <<hi, lo, load, branch_state, branch_target, next_exc_code, cop0, irq>>
  BY DEF load_exe
<1>4. r' \in [Reg -> Word] /\ r'[0] = 0
  <2>1. r \in [Reg -> Word] /\ r[0] = 0 /\ 0 \in Reg
    BY <1>2, ZeroIsWord DEF TypeOK
  <2>2. GP \in Reg /\ SP \in Reg /\ GP # 0 /\ SP # 0
    BY ExeAssumption
  <2>3. QED
    BY <1>1, <1>3, <2>1, <2>2
<1>5. TypeOK'
  BY <1>1, <1>2, <1>3, <1>4, Resets DEF TypeOK
<1>6. QED
  BY <1>1, <1>5
  DEF load_exe, PsxInv, PsxTypeOK, NextPcFollows, LatchedOnlyWhenEnabled

LEMMA RunInv == PsxInv /\ psx_run => PsxInv'
<1> SUFFICES ASSUME PsxInv, psx_run PROVE PsxInv'
  OBVIOUS
<1>1. CpuInv /\ phase' = phase
  BY PsxInvIsCpuInv DEF psx_run
<1>2. CpuInv' /\ fresh' \in BOOLEAN
  BY <1>1, StepInv, RaiseInv DEF psx_run, PsxInv, PsxTypeOK
<1>3. QED
  BY <1>1, <1>2 DEF PsxInv, PsxTypeOK, CpuInv

LEMMA PsxNextInv == PsxInv /\ [PsxNext]_psx_vars => PsxInv'
<1> SUFFICES ASSUME PsxInv, [PsxNext]_psx_vars PROVE PsxInv'
  OBVIOUS
<1>1. CASE UNCHANGED psx_vars
  BY <1>1 DEF psx_vars, vars, cpu_vars, PsxInv, PsxTypeOK, TypeOK, NextPcFollows,
              LatchedOnlyWhenEnabled
<1>2. QED
  BY <1>1, RunInv, ResetInv, LoadInv DEF PsxNext

-----------------------------------------------------------------------------
THEOREM Lifecycle == PsxSpec => []PsxInv
<1>1. QED
  BY PsxInitInv, PsxNextInv, PTL DEF PsxSpec

\* Types hold over the whole life, before the first reset too.
THEOREM LifecycleTypes == PsxSpec => []PsxTypeOK
<1>1. PsxInv => PsxTypeOK
  BY DEF PsxInv
<1>2. QED
  BY <1>1, Lifecycle, PTL

\* What malloc left in the flags of coprocessor 0 never reaches a program.
THEOREM ResetReaches == PsxSpec => []ResetSettles
<1>1. PsxInv => ResetSettles
  BY DEF PsxInv, ResetSettles, FlagsCohere, InterruptFlagSound, IsolationCached
<1>2. QED
  BY <1>1, Lifecycle, PTL

\* No reset and no executable latches an interrupt that was not enabled, though a
\* cleared structure would have one latched.
THEOREM LifecycleLatch == PsxSpec => []LatchedOnlyWhenEnabled
<1>1. PsxInv => LatchedOnlyWhenEnabled
  BY DEF PsxInv
<1>2. QED
  BY <1>1, Lifecycle, PTL

\* next_pc follows pc through resets and executables.
THEOREM LifecycleCounters == PsxSpec => []NextPcFollows
<1>1. PsxInv => NextPcFollows
  BY DEF PsxInv
<1>2. QED
  BY <1>1, Lifecycle, PTL

-----------------------------------------------------------------------------
\* A reset and an executable show nothing outside.
LEMMA QuietIsPrecise == out' = Quiet => Precise /\ Dropped
<1>1. Quiet.lanes = {} /\ Quiet.exc \notin SyncExc /\ Quiet.exc # EXC_ADES
  BY ExcFacts DEF Quiet, SyncExc
<1>2. QED
  BY <1>1 DEF Precise, Dropped

LEMMA PsxNextIsPrecise == PsxInv /\ [PsxNext]_psx_vars => [Precise /\ Dropped]_vars
<1> SUFFICES ASSUME PsxInv, PsxNext PROVE Precise /\ Dropped
  BY DEF psx_vars
<1>1. CASE psx_run
  <2>1. CpuInv
    BY <1>1, PsxInvIsCpuInv DEF psx_run
  <2>2. cpu_step \/ out' = Quiet
    BY <1>1 DEF psx_run, IrqRaise
  <2>3. QED
    BY <2>1, <2>2, StepIsPrecise, QuietIsPrecise
<1>2. CASE psx_reset \/ \E exe \in Exes : load_exe(exe)
  <2>1. out' = Quiet
    BY <1>2 DEF psx_reset, load_exe
  <2>2. QED
    BY <2>1, QuietIsPrecise
<1>3. QED
  BY <1>1, <1>2 DEF PsxNext

\* Faults leave no trace, in the kernel and in executables, and neither a reset nor
\* an executable looks like a fault.
THEOREM LifecycleFaults == PsxSpec => FaultsArePrecise
<1> DEFINE NoTrace == out'.exc \in SyncExc =>
                        /\ r' = Put(r, load) /\ hi' = hi /\ lo' = lo
                        /\ load' = NoSlot
                        /\ branch_state' = BRANCH_STATE_NO_DELAY
                        /\ out'.lanes = {} /\ irq' = irq
<1>1. PsxInv /\ [PsxNext]_psx_vars => [NoTrace]_vars
  BY PsxNextIsPrecise DEF Precise
<1>2. PsxSpec => [][NoTrace]_vars
  BY <1>1, Lifecycle, PTL DEF PsxSpec
<1>3. QED
  BY <1>2 DEF FaultsArePrecise

\* One rfe undoes what an exception pushed, whatever the machine was created with.
THEOREM LifecycleReturn == PsxSpec => RfeUndoesException
<1> DEFINE Back == out'.exc \in SyncExc =>
                     /\ cop0_rfe(cop0').status.cur = cop0.status.cur
                     /\ cop0_rfe(cop0').status.prev = cop0.status.prev
                     /\ cop0_rfe(cop0').status.im = cop0.status.im
<1>1. PsxInv /\ [PsxNext]_psx_vars => [Back]_vars
  <2>1. PsxInv /\ Precise => Back
    BY RfePops DEF Precise, PsxInv, PsxTypeOK, TypeOK
  <2>2. QED
    BY <2>1, PsxNextIsPrecise
<1>2. PsxSpec => [][Back]_vars
  BY <1>1, Lifecycle, PTL DEF PsxSpec
<1>3. QED
  BY <1>2 DEF RfeUndoesException

\* The isolation flag that stores test is right for the kernel and for executables:
\* an isolated store never shows outside, though a machine fresh from malloc may
\* hold a flag that differs from its status bit.
THEOREM LifecycleIsolation == PsxSpec => IsolatedStoresDropped
<1>1. PsxInv /\ [PsxNext]_psx_vars => [Dropped]_vars
  BY PsxNextIsPrecise
<1>2. PsxSpec => [][Dropped]_vars
  BY <1>1, Lifecycle, PTL DEF PsxSpec
<1>3. QED
  BY <1>2 DEF IsolatedStoresDropped, Dropped

-----------------------------------------------------------------------------
\* Whatever a reset set or an executable found in flight, what runs is the delay
\* slot machine.
RunKeepsDelaySlots == phase' = phase => [DS!Next]_(DS!dvars)

LEMMA PsxNextRefines == PsxInv /\ [PsxNext]_psx_vars => [RunKeepsDelaySlots]_psx_vars
<1> SUFFICES ASSUME PsxInv, PsxNext, phase' = phase PROVE [DS!Next]_(DS!dvars)
  BY DEF RunKeepsDelaySlots
<1>1. psx_run
  BY DEF PsxNext, psx_reset, load_exe
<1>2. CpuInv
  BY <1>1, PsxInvIsCpuInv DEF psx_run
<1>3. Next
  BY <1>1 DEF psx_run, Next
<1>4. QED
  BY <1>2, <1>3, NextRefines

\* Between resets and executables every step is one of the delay slot machine: a
\* branch, a load or an interrupt that the kernel left in flight reaches the
\* executable by the rules that programs know.
THEOREM LifecycleRuns == PsxSpec => RunsAreDelaySlots
<1>1. PsxInv /\ [PsxNext]_psx_vars => [RunKeepsDelaySlots]_psx_vars
  BY PsxNextRefines
<1>2. PsxSpec => [][RunKeepsDelaySlots]_psx_vars
  BY <1>1, Lifecycle, PTL DEF PsxSpec
<1>3. QED
  BY <1>2 DEF RunsAreDelaySlots, RunKeepsDelaySlots
==============================================================================
