------------------------------- MODULE CpuTrace -------------------------------
(* Cpu with the address of the instruction before this one as a history        *)
(* variable, to say which instruction an exception program counter names.      *)
EXTENDS Cpu

VARIABLES
    last_pc,        \* the address of the instruction the last step ran
    last_moved      \* whether that instruction stood in the slot of a taken branch

trace_vars == <<vars, last_pc, last_moved>>

TraceInit == Init /\ last_pc = RESET_VECTOR /\ last_moved = FALSE

TraceStep ==
    /\ cpu_step
    /\ last_pc' = pc
    /\ last_moved' = IS_BRANCH_TAKEN(branch_state)

TraceRaise(lines) == IrqRaise(lines) /\ UNCHANGED <<last_pc, last_moved>>

TraceNext ==
    \/ TraceStep
    \/ \E lines \in SUBSET Irqs \ {{}} : TraceRaise(lines)

TraceSpec == TraceInit /\ [][TraceNext]_trace_vars /\ WF_trace_vars(TraceStep)

-----------------------------------------------------------------------------
\* Where an exception sends the program back to: the instruction that raised
\* it, or the branch or jump before it, so that returning runs both again.  The
\* code computes the address of the branch as pc - 4, which names it unless that
\* branch was itself in the delay slot of a taken branch; the architecture leaves
\* that program undefined.
EpcNamesRestart ==
    [][out'.exc # EXC_NONE =>
          /\ ~IS_IN_DELAY_SLOT(branch_state) => cop0'.epc = pc
          /\ IS_IN_DELAY_SLOT(branch_state) /\ ~last_moved => cop0'.epc = last_pc]_trace_vars

\* After an exception in a delay slot the target address register and the cause
\* register hold what re-running the branch would compute: the branch-taken bit
\* and, if it is set, the address control would have gone to.
TarNamesTarget ==
    [][out'.exc # EXC_NONE /\ cop0'.cause.bd =>
          /\ cop0'.cause.bt => cop0'.tar = get_next_pc
          /\ ~cop0'.cause.bt => get_next_pc = Plus(pc, 4)]_trace_vars
===============================================================================
