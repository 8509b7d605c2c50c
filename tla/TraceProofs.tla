------------------------------ MODULE TraceProofs ------------------------------
(* Where an exception sends the program back to, for any program and any word   *)
(* size: the theorems about CpuTrace.                                          *)
EXTENDS CpuTrace, CpuProofs

\* A delay slot follows its branch: unless the branch itself stood in the slot of a
\* taken branch, control came from the address before.
TraceInv ==
    /\ CpuInv
    /\ last_pc \in Word /\ last_moved \in BOOLEAN
    /\ IS_IN_DELAY_SLOT(branch_state) /\ ~last_moved => pc = Plus(last_pc, 4)

-----------------------------------------------------------------------------
LEMMA TraceInitInv == TraceInit => TraceInv
<1> SUFFICES ASSUME TraceInit PROVE TraceInv
  OBVIOUS
<1>1. CpuInv /\ branch_state = BRANCH_STATE_NO_DELAY
  BY InitInv DEF TraceInit, Init
<1>2. ~IS_IN_DELAY_SLOT(branch_state)
  BY <1>1 DEF IS_IN_DELAY_SLOT, BRANCH_STATE_NO_DELAY, BRANCH_STATE_IN_DELAY_SLOT, BRANCH_STATE_TAKEN
<1>3. QED
  BY <1>1, <1>2, VectorAssumption DEF TraceInit, TraceInv

LEMMA TraceNextInv == TraceInv /\ [TraceNext]_trace_vars => TraceInv'
<1> SUFFICES ASSUME TraceInv, [TraceNext]_trace_vars PROVE TraceInv'
  OBVIOUS
<1>1. pc \in Word /\ next_pc = Plus(pc, 4) /\ CpuInv
  BY DEF TraceInv, CpuInv, TypeOK, NextPcFollows
<1>2. CASE TraceStep
  <2>1. CpuInv'
    BY <1>1, <1>2, StepInv DEF TraceStep
  <2>2. last_pc' = pc /\ last_moved' = IS_BRANCH_TAKEN(branch_state)
    BY <1>2 DEF TraceStep
  <2>3. PICK c \in Cop0State : Ends(c)
    BY <1>1, <1>2, StepEnds DEF TraceStep
  <2>4. IS_IN_DELAY_SLOT(branch_state') => out'.exc = EXC_NONE
    BY <2>3 DEF Ends, IS_IN_DELAY_SLOT, BRANCH_STATE_NO_DELAY, BRANCH_STATE_IN_DELAY_SLOT,
                BRANCH_STATE_TAKEN
  <2>5. IS_IN_DELAY_SLOT(branch_state') /\ ~last_moved' => pc' = Plus(last_pc', 4)
    BY <1>1, <2>2, <2>3, <2>4 DEF Ends, get_next_pc
  <2>6. last_moved' \in BOOLEAN
    BY <2>2 DEF IS_BRANCH_TAKEN
  <2>7. QED
    BY <1>1, <2>1, <2>2, <2>5, <2>6 DEF TraceInv
<1>3. ASSUME NEW lines \in SUBSET Irqs \ {{}}, TraceRaise(lines) PROVE TraceInv'
  <2>1. CpuInv'
    BY <1>1, <1>3, RaiseInv DEF TraceRaise
  <2>2. UNCHANGED <<last_pc, last_moved, pc, branch_state>>
    BY <1>3 DEF TraceRaise, IrqRaise, cpu_vars
  <2>3. QED
    BY <2>1, <2>2 DEF TraceInv
<1>4. CASE UNCHANGED trace_vars
  <2>1. CpuInv'
    BY <1>1, <1>4, NextInv DEF trace_vars
  <2>2. UNCHANGED <<last_pc, last_moved, pc, branch_state>>
    BY <1>4 DEF trace_vars, vars, cpu_vars
  <2>3. QED
    BY <2>1, <2>2 DEF TraceInv
<1>5. QED
  BY <1>2, <1>3, <1>4 DEF TraceNext

-----------------------------------------------------------------------------
\* Going four bytes on and back again.
LEMMA BackAgain == \A a \in Word : Minus(Plus(a, 4), 4) = a
<1> SUFFICES ASSUME NEW a \in Word PROVE Minus(Plus(a, 4), 4) = a
  OBVIOUS
<1>1. a \in Int /\ 0 <= a /\ a < WordMod /\ WordMod \in Nat /\ WordMod > 4
  BY WordAssumption DEF Word
<1>2. CASE a + 4 < WordMod
  <2>1. Plus(a, 4) = a + 4
    BY <1>1, <1>2 DEF Plus
  <2>2. Minus(a + 4, 4) = a % WordMod
    BY <1>1 DEF Minus
  <2>3. a % WordMod = a
    BY <1>1
  <2>4. QED
    BY <2>1, <2>2, <2>3
<1>3. CASE a + 4 >= WordMod
  <2>1. Plus(a, 4) = a + 4 - WordMod
    BY <1>1, <1>3 DEF Plus
  <2>2. Minus(a + 4 - WordMod, 4) = (a - WordMod) % WordMod
    BY <1>1 DEF Minus
  <2>3. (a - WordMod) % WordMod = a
    BY <1>1
  <2>4. QED
    BY <2>1, <2>2, <2>3
<1>4. QED
  BY <1>1, <1>2, <1>3

\* What an exception leaves in coprocessor 0.
LEMMA RaisedRegisters ==
  ASSUME NEW c \in Cop0State, NEW code, NEW bs, NEW bt, NEW a,
         cop0' = cop0_raise_exception(c, code, a, bs, bt)
  PROVE  /\ cop0'.epc = EpcOf(a, bs)
         /\ cop0'.cause.bd = IS_IN_DELAY_SLOT(bs) /\ cop0'.cause.bt = IS_BRANCH_TAKEN(bs)
         /\ IS_IN_DELAY_SLOT(bs) => cop0'.tar = bt
  BY DEF cop0_raise_exception, cop0_set_status, cop0_set_pending_interrupts, CauseOf, Cop0State

RestartNamed ==
    out'.exc # EXC_NONE =>
        /\ ~IS_IN_DELAY_SLOT(branch_state) => cop0'.epc = pc
        /\ IS_IN_DELAY_SLOT(branch_state) /\ ~last_moved => cop0'.epc = last_pc
TargetNamed ==
    out'.exc # EXC_NONE /\ cop0'.cause.bd =>
        /\ cop0'.cause.bt => cop0'.tar = get_next_pc
        /\ ~cop0'.cause.bt => get_next_pc = Plus(pc, 4)

LEMMA StepNames == TraceInv /\ [TraceNext]_trace_vars => [RestartNamed /\ TargetNamed]_trace_vars
<1> SUFFICES ASSUME TraceInv, TraceNext PROVE RestartNamed /\ TargetNamed
  OBVIOUS
<1>1. CASE TraceStep
  <2> SUFFICES ASSUME out'.exc # EXC_NONE PROVE RestartNamed /\ TargetNamed
    BY DEF RestartNamed, TargetNamed
  <2>1. PICK c \in Cop0State : Ends(c)
    BY <1>1, StepEnds DEF TraceStep, TraceInv
  <2>2. /\ cop0'.epc = EpcOf(pc, branch_state)
        /\ cop0'.cause.bd = IS_IN_DELAY_SLOT(branch_state)
        /\ cop0'.cause.bt = IS_BRANCH_TAKEN(branch_state)
        /\ IS_IN_DELAY_SLOT(branch_state) => cop0'.tar = branch_target
    BY <2>1, RaisedRegisters DEF Ends
  <2>3. /\ IS_IN_DELAY_SLOT(branch_state) /\ ~last_moved => pc = Plus(last_pc, 4)
        /\ last_pc \in Word /\ next_pc = Plus(pc, 4)
    BY DEF TraceInv, CpuInv, NextPcFollows
  <2>4. RestartNamed
    BY <2>2, <2>3, BackAgain DEF EpcOf, RestartNamed
  <2>5. TargetNamed
    BY <2>2, <2>3 DEF TargetNamed, get_next_pc
  <2>6. QED
    BY <2>4, <2>5
<1>2. ASSUME NEW lines \in SUBSET Irqs \ {{}}, TraceRaise(lines) PROVE RestartNamed /\ TargetNamed
  BY <1>2 DEF TraceRaise, IrqRaise, Quiet, RestartNamed, TargetNamed
<1>3. QED
  BY <1>1, <1>2 DEF TraceNext

LEMMA TraceInvariance == TraceSpec => []TraceInv
<1>1. QED
  BY TraceInitInv, TraceNextInv, PTL DEF TraceSpec

\* An exception names the instruction that raised it or the branch before it, for
\* every program in which no branch stands in the slot of a taken branch.
THEOREM ExceptionRestart == TraceSpec => EpcNamesRestart
<1>1. TraceInv /\ [TraceNext]_trace_vars => [RestartNamed]_trace_vars
  BY StepNames
<1>2. TraceSpec => [][RestartNamed]_trace_vars
  BY <1>1, TraceInvariance, PTL DEF TraceSpec
<1>3. QED
  BY <1>2 DEF EpcNamesRestart, RestartNamed

\* An exception in a delay slot leaves in coprocessor 0 where the branch leads.
THEOREM ExceptionTarget == TraceSpec => TarNamesTarget
<1>1. TraceInv /\ [TraceNext]_trace_vars => [TargetNamed]_trace_vars
  BY StepNames
<1>2. TraceSpec => [][TargetNamed]_trace_vars
  BY <1>1, TraceInvariance, PTL DEF TraceSpec
<1>3. QED
  BY <1>2 DEF TarNamesTarget, TargetNamed
==============================================================================
