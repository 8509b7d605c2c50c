------------------------------- MODULE R3000 -------------------------------
(* The instructions of cpu.c as pure operators: what an instruction reads,  *)
(* which register it writes, which load or branch it schedules and which    *)
(* exception it asks for.  They keep no state; Cpu and DelaySlots do.       *)
(* Arithmetic is kept abstract (Alu, MulDiv, LoadMerge are any functions)   *)
(* except where control depends on it: addresses, branches and overflow.    *)
EXTENDS Integers

CONSTANTS
    WordMod,    \* a word is a number below WordMod (2^32 in the code)
    SegMod,     \* the size of the region a j or jal stays in (2^28 in the code)
    NumRegs,    \* general purpose registers (32 in the code), the last one $ra
    Fns,        \* which of these functions an encoding picks, shift amount included
    Alu,        \* result of an instruction that only computes from two words
    MulDiv,     \* <<hi, lo>> of mult, multu, div and divu
    LoadMerge   \* what lwl and lwr make of the old word and the memory's

Word == 0 .. WordMod - 1
Reg == 0 .. NumRegs - 1

ASSUME WordAssumption == WordMod \in Nat /\ WordMod > 4 /\ WordMod % 4 = 0
ASSUME RegAssumption == NumRegs \in Nat /\ NumRegs > 1
\* A jump replaces the offset in the region and stays a word: true whenever the
\* region size divides the number of words, as 2^28 divides 2^32.
ASSUME SegAssumption ==
    /\ SegMod \in Nat \ {0}
    /\ \A a \in Word, b \in 0 .. SegMod - 1 : a - (a % SegMod) + b \in Word
ASSUME AluAssumption ==
    /\ Alu \in [Fns \X Word \X Word -> Word]
    /\ MulDiv \in [Fns \X Word \X Word -> Word \X Word]
    /\ LoadMerge \in [Fns \X Word \X Word -> Word]

Plus(a, b) == (a + b) % WordMod
Minus(a, b) == (a - b) % WordMod
Negative(a) == a >= WordMod \div 2                 \* (int32_t)a < 0
RA == NumRegs - 1                                  \* $ra, r[31]

-----------------------------------------------------------------------------
(* Exception codes and branch states, with the values of cop0.h and cpu.h.  *)
EXC_NONE == 255
EXC_INT == 0
EXC_ADEL == 4
EXC_ADES == 5
EXC_SYS == 8
EXC_BP == 9
EXC_RI == 10
EXC_OV == 12
SyncExc == {EXC_ADEL, EXC_ADES, EXC_SYS, EXC_BP, EXC_RI, EXC_OV}
ExcCode == SyncExc \cup {EXC_NONE, EXC_INT}

BRANCH_STATE_NO_DELAY == 0
BRANCH_STATE_IN_DELAY_SLOT == 1
BRANCH_STATE_TAKEN == 3
BranchState == {BRANCH_STATE_NO_DELAY, BRANCH_STATE_IN_DELAY_SLOT, BRANCH_STATE_TAKEN}
IS_IN_DELAY_SLOT(s) == s \in {BRANCH_STATE_IN_DELAY_SLOT, BRANCH_STATE_TAKEN}
IS_BRANCH_TAKEN(s) == s = BRANCH_STATE_TAKEN

-----------------------------------------------------------------------------
(* A decoded instruction.  "alu" stands for the instructions of two source   *)
(* registers, "alui" for those of one and an immediate (already extended to *)
(* a word), "muldiv" for the four that write hi and lo, "lb" and "lh" also    *)
(* for lbu and lhu, "ri" for every encoding without a handler.  Which         *)
(* function an instruction computes is its fn; for lwl and lwr, where the two *)
(* low bits of the address pick it, a fetch may return any.                   *)
AluOp == {"nop", "alu", "alui", "mfhi", "mflo"}
HiLoOp == {"mthi", "mtlo", "muldiv"}
TrapArithOp == {"add", "sub", "addi"}
BranchOp == {"beq", "bne", "blez", "bgtz", "bltz", "bgez", "bltzal", "bgezal"}
JumpOp == {"j", "jal", "jr", "jalr"}
LoadOp == {"lb", "lh", "lw", "lwl", "lwr"}
StoreOp == {"sb", "sh", "sw", "swl", "swr"}
Cop0Op == {"mfc0", "mtc0", "rfe"}
TrapOp == {"syscall", "break", "ri"}
Op == AluOp \cup HiLoOp \cup TrapArithOp \cup BranchOp \cup JumpOp
        \cup LoadOp \cup StoreOp \cup Cop0Op \cup TrapOp

\* The coprocessor 0 registers by what the CPU does with them; "other" stands
\* for those that are plain storage (bpc, bda, dcic, bdam, prid).
Cop0Reg == {"status", "cause", "epc", "tar", "badAddr", "other"}

Inst == [op : Op, fn : Fns, rs : Reg, rt : Reg, rd : Reg, imm : Word, cop : Cop0Reg]

-----------------------------------------------------------------------------
(* A register and a value: a write, or a load that waits in its delay slot. *)
Slot == [reg : Reg, val : Word]
NoSlot == [reg |-> 0, val |-> 0]

\* Register $zero is read-only, so a slot for it is no slot at all.
SlotFor(n, v) == IF n = 0 THEN NoSlot ELSE [reg |-> n, val |-> v]

Put(f, s) == IF s.reg = 0 THEN f ELSE [f EXCEPT ![s.reg] = s.val]

reg_read(f, n) == IF n = 0 THEN 0 ELSE f[n]

\* lwl and lwr see the load that is still in its delay slot.
reg_read_with_load(f, load, n) ==
    IF n # 0 /\ load.reg = n THEN load.val ELSE reg_read(f, n)

Addr(i, f) == Plus(reg_read(f, i.rs), i.imm)

-----------------------------------------------------------------------------
add_overflow_check(a, b) ==
    Negative(a) = Negative(b) /\ Negative(Plus(a, b)) # Negative(a)

sub_overflow_check(a, b) ==
    Negative(a) # Negative(b) /\ Negative(Minus(a, b)) # Negative(a)

BranchTaken(op, a, b) ==
    \/ op = "beq" /\ a = b
    \/ op = "bne" /\ a # b
    \/ op = "blez" /\ (Negative(a) \/ a = 0)
    \/ op = "bgtz" /\ ~Negative(a) /\ a # 0
    \/ op \in {"bltz", "bltzal"} /\ Negative(a)
    \/ op \in {"bgez", "bgezal"} /\ ~Negative(a)

Branch == [state : BranchState, target : Word]
NoBranch == [state |-> BRANCH_STATE_NO_DELAY, target |-> 0]

\* The branch or jump an instruction leaves for its delay slot; npc is the
\* address of that slot, from get_next_pc.
BranchOf(i, f, npc) ==
    LET a == reg_read(f, i.rs)
        b == reg_read(f, i.rt)
    IN  CASE i.op \in BranchOp ->
                [state |-> IF BranchTaken(i.op, a, b) THEN BRANCH_STATE_TAKEN
                                                      ELSE BRANCH_STATE_IN_DELAY_SLOT,
                 target |-> Plus(npc, 4 * i.imm)]
          [] i.op \in {"j", "jal"} ->
                [state |-> BRANCH_STATE_TAKEN,
                 target |-> npc - (npc % SegMod) + ((4 * i.imm) % SegMod)]
          [] i.op \in {"jr", "jalr"} -> [state |-> BRANCH_STATE_TAKEN, target |-> a]
          [] OTHER -> NoBranch

\* The register an instruction writes at once, through reg_write.
WriteOf(i, f, h, l, npc) ==
    LET a == reg_read(f, i.rs)
        b == reg_read(f, i.rt)
    IN  CASE i.op = "alu" -> SlotFor(i.rd, Alu[<<i.fn, a, b>>])
          [] i.op = "alui" -> SlotFor(i.rt, Alu[<<i.fn, a, i.imm>>])
          [] i.op = "add" -> SlotFor(i.rd, Plus(a, b))
          [] i.op = "sub" -> SlotFor(i.rd, Minus(a, b))
          [] i.op = "addi" -> SlotFor(i.rt, Plus(a, i.imm))
          [] i.op = "mfhi" -> SlotFor(i.rd, h)
          [] i.op = "mflo" -> SlotFor(i.rd, l)
          [] i.op \in {"bltzal", "bgezal", "jal"} -> SlotFor(RA, Plus(npc, 4))
          [] i.op = "jalr" -> SlotFor(i.rd, Plus(npc, 4))
          [] OTHER -> NoSlot

\* What mthi, mtlo, mult, multu, div and divu leave in hi and lo.
HiLoOf(i, f, h, l) ==
    LET a == reg_read(f, i.rs)
        b == reg_read(f, i.rt)
    IN  CASE i.op = "mthi" -> <<a, l>>
          [] i.op = "mtlo" -> <<h, a>>
          [] i.op = "muldiv" -> MulDiv[<<i.fn, a, b>>]
          [] OTHER -> <<h, l>>

\* The load an instruction schedules: v is what the memory or coprocessor 0
\* answers, old the register as reg_read_with_load sees it.
LoadOf(i, v, old) ==
    CASE i.op \in {"lb", "lh", "lw", "mfc0"} -> SlotFor(i.rt, v)
      [] i.op \in {"lwl", "lwr"} -> SlotFor(i.rt, LoadMerge[<<i.fn, old, v>>])
      [] OTHER -> NoSlot

\* The exception an instruction asks for.  A store with the cache isolated
\* returns before its address is looked at.
FaultOf(i, f, isolated) ==
    LET a == reg_read(f, i.rs)
        b == reg_read(f, i.rt)
        addr == Addr(i, f)
    IN  CASE i.op = "add" /\ add_overflow_check(a, b) -> EXC_OV
          [] i.op = "addi" /\ add_overflow_check(a, i.imm) -> EXC_OV
          [] i.op = "sub" /\ sub_overflow_check(a, b) -> EXC_OV
          [] i.op = "lh" /\ addr % 2 # 0 -> EXC_ADEL
          [] i.op = "lw" /\ addr % 4 # 0 -> EXC_ADEL
          [] i.op = "sh" /\ ~isolated /\ addr % 2 # 0 -> EXC_ADES
          [] i.op = "sw" /\ ~isolated /\ addr % 4 # 0 -> EXC_ADES
          [] i.op = "syscall" -> EXC_SYS
          [] i.op = "break" -> EXC_BP
          [] i.op = "ri" -> EXC_RI
          [] OTHER -> EXC_NONE

\* The bytes a store writes: swl from the start of the aligned word up to its
\* address, swr from its address to the end of the aligned word.
LanesOf(i, f) ==
    LET addr == Addr(i, f)
        low == addr - (addr % 4)
    IN  CASE i.op = "sb" -> {addr}
          [] i.op = "sh" -> addr .. addr + 1
          [] i.op = "sw" -> addr .. addr + 3
          [] i.op = "swl" -> low .. addr
          [] i.op = "swr" -> addr .. low + 3
          [] OTHER -> {}
=============================================================================
