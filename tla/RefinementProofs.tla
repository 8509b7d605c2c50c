--------------------------- MODULE RefinementProofs ---------------------------
(* The interpreter implements the delay slot machine: every step of cpu_run is  *)
(* a step of DelaySlots, under the mapping given in Cpu, and irq_raise is none. *)
EXTENDS CpuProofs

\* DelaySlots has its own copy of the operators of R3000; they are the same.
LEMMA SameOperators ==
  /\ \A a, b : DS!Plus(a, b) = Plus(a, b)
  /\ \A f, s : DS!Put(f, s) = Put(f, s)
  /\ \A i, f, iso : DS!FaultOf(i, f, iso) = FaultOf(i, f, iso)
  /\ \A i, f, h, l, n : DS!WriteOf(i, f, h, l, n) = WriteOf(i, f, h, l, n)
  /\ \A i, v, old : DS!LoadOf(i, v, old) = LoadOf(i, v, old)
  /\ \A i, f, n : DS!BranchOf(i, f, n) = BranchOf(i, f, n)
  /\ \A i, f, h, l : DS!HiLoOf(i, f, h, l) = HiLoOf(i, f, h, l)
  /\ DS!Word = Word /\ DS!Reg = Reg
  /\ DS!EXC_NONE = EXC_NONE /\ DS!BRANCH_STATE_TAKEN = BRANCH_STATE_TAKEN
<1>1. /\ \A a, b : DS!Plus(a, b) = Plus(a, b)
      /\ \A a, b : DS!Minus(a, b) = Minus(a, b)
      /\ \A a : DS!Negative(a) = Negative(a)
  BY DEF DS!Plus, Plus, DS!Minus, Minus, DS!Negative, Negative
<1>2. DS!Word = Word /\ DS!Reg = Reg /\ DS!RA = RA
  BY DEF DS!Word, Word, DS!Reg, Reg, DS!RA, RA
<1>3. /\ DS!NoSlot = NoSlot
      /\ \A n, v : DS!SlotFor(n, v) = SlotFor(n, v)
      /\ \A f, s : DS!Put(f, s) = Put(f, s)
      /\ \A f, n : DS!reg_read(f, n) = reg_read(f, n)
  BY DEF DS!NoSlot, NoSlot, DS!SlotFor, SlotFor, DS!Put, Put, DS!reg_read, reg_read
<1>4. \A i, f : DS!Addr(i, f) = Addr(i, f)
  BY <1>1, <1>3 DEF DS!Addr, Addr
<1>5. /\ \A a, b : DS!add_overflow_check(a, b) = add_overflow_check(a, b)
      /\ \A a, b : DS!sub_overflow_check(a, b) = sub_overflow_check(a, b)
      /\ \A op, a, b : DS!BranchTaken(op, a, b) = BranchTaken(op, a, b)
  BY <1>1 DEF DS!add_overflow_check, add_overflow_check, DS!sub_overflow_check,
              sub_overflow_check, DS!BranchTaken, BranchTaken
<1>6. /\ DS!EXC_NONE = EXC_NONE /\ DS!EXC_ADEL = EXC_ADEL /\ DS!EXC_ADES = EXC_ADES
      /\ DS!EXC_SYS = EXC_SYS /\ DS!EXC_BP = EXC_BP /\ DS!EXC_RI = EXC_RI
      /\ DS!EXC_OV = EXC_OV
      /\ DS!BRANCH_STATE_TAKEN = BRANCH_STATE_TAKEN
      /\ DS!BRANCH_STATE_IN_DELAY_SLOT = BRANCH_STATE_IN_DELAY_SLOT
      /\ DS!NoBranch = NoBranch
      /\ DS!BranchOp = BranchOp
  BY DEF DS!EXC_NONE, EXC_NONE, DS!EXC_ADEL, EXC_ADEL, DS!EXC_ADES, EXC_ADES, DS!EXC_SYS, EXC_SYS,
         DS!EXC_BP, EXC_BP, DS!EXC_RI, EXC_RI, DS!EXC_OV, EXC_OV,
         DS!BRANCH_STATE_TAKEN, BRANCH_STATE_TAKEN,
         DS!BRANCH_STATE_IN_DELAY_SLOT, BRANCH_STATE_IN_DELAY_SLOT,
         DS!BRANCH_STATE_NO_DELAY, BRANCH_STATE_NO_DELAY,
         DS!NoBranch, NoBranch, DS!BranchOp, BranchOp
<1>7. \A i, f, iso : DS!FaultOf(i, f, iso) = FaultOf(i, f, iso)
  BY <1>3, <1>4, <1>5, <1>6 DEF DS!FaultOf, FaultOf
<1>8. \A i, f, h, l, n : DS!WriteOf(i, f, h, l, n) = WriteOf(i, f, h, l, n)
  BY <1>1, <1>2, <1>3 DEF DS!WriteOf, WriteOf
<1>9. \A i, v, old : DS!LoadOf(i, v, old) = LoadOf(i, v, old)
  BY <1>3 DEF DS!LoadOf, LoadOf
<1>10. \A i, f, n : DS!BranchOf(i, f, n) = BranchOf(i, f, n)
  BY <1>1, <1>3, <1>5, <1>6 DEF DS!BranchOf, BranchOf
<1>11. \A i, f, h, l : DS!HiLoOf(i, f, h, l) = HiLoOf(i, f, h, l)
  BY <1>3 DEF DS!HiLoOf, HiLoOf
<1>12. QED
  BY <1>1, <1>2, <1>3, <1>6, <1>7, <1>8, <1>9, <1>10, <1>11

-----------------------------------------------------------------------------
\* The register the next instruction sees, while a load may still be waiting.
LEMMA NextFile ==
  ASSUME CpuInv
  PROVE  /\ Put(r, load) \in [Reg -> Word]
         /\ \A n \in Reg : reg_read_with_load(r, load, n) = Put(r, load)[n]
<1>1. r \in [Reg -> Word] /\ r[0] = 0 /\ load \in Slot
  BY DEF CpuInv, TypeOK
<1>2. Put(r, load) \in [Reg -> Word]
  BY <1>1, PutType
<1>3. \A n \in Reg : reg_read_with_load(r, load, n) = Put(r, load)[n]
  BY <1>1, ZeroIsWord DEF reg_read_with_load, reg_read, Put, Slot
<1>4. QED
  BY <1>2, <1>3

\* Cancelling a load that something overwrites, and committing it otherwise, is
\* what the pair of register files does.
LEMMA CommitIsPair ==
  ASSUME CpuInv, NEW w \in Slot, NEW ld \in Slot
  PROVE  commit_load(w, ld) = Put([Put(r, load) EXCEPT ![ld.reg] = r[ld.reg]], w)
<1>1. /\ r \in [Reg -> Word] /\ load \in Slot
      /\ load.reg \in Reg /\ w.reg \in Reg /\ ld.reg \in Reg
      /\ Put(r, load) \in [Reg -> Word]
  BY NextFile DEF CpuInv, TypeOK, Slot
<1> DEFINE kept == [Put(r, load) EXCEPT ![ld.reg] = r[ld.reg]]
<1>2. CASE load.reg = 0
  <2>1. Put(r, load) = r
    BY <1>2 DEF Put
  <2>2. kept = r
    BY <1>1, <2>1
  <2>3. QED
    BY <2>1, <2>2 DEF commit_load
<1>3. CASE load.reg # 0 /\ load.reg = ld.reg
  <2>1. kept = r
    BY <1>1, <1>3 DEF Put
  <2>2. QED
    BY <1>3, <2>1 DEF commit_load
<1>4. CASE load.reg # 0 /\ load.reg # ld.reg
  <2>1. kept = Put(r, load)
    BY <1>1, <1>4 DEF Put
  <2>2. CASE load.reg = w.reg
    BY <1>1, <1>4, <2>1, <2>2 DEF commit_load, Put
  <2>3. CASE load.reg # w.reg
    BY <1>4, <2>1, <2>3 DEF commit_load
  <2>4. QED
    BY <2>2, <2>3
<1>5. QED
  BY <1>2, <1>3, <1>4

\* A step without an exception of its own is the instruction completing, whether
\* control goes on or an interrupt diverts it.
LEMMA Completes ==
  ASSUME CpuInv, NEW i \in Insts, NEW v \in Word, NEW c, NEW lanes,
         pc % 4 = 0,
         FaultOf(i, r, TRUE) = EXC_NONE,
         finish_step(WriteOf(i, r, hi, lo, get_next_pc),
                     LoadOf(i, v, reg_read_with_load(r, load, i.rt)),
                     BranchOf(i, r, get_next_pc), EXC_NONE, c, lanes),
         hi' = HiLoOf(i, r, hi, lo)[1], lo' = HiLoOf(i, r, hi, lo)[2]
  PROVE  DS!Next
<1> USE InvTypes
<1> DEFINE w == WriteOf(i, r, hi, lo, get_next_pc)
           ld == LoadOf(i, v, reg_read_with_load(r, load, i.rt))
           br == BranchOf(i, r, get_next_pc)
<1>1. i \in Inst /\ i.rt \in Reg
  BY InputAssumption DEF Inst
<1>2. ld = LoadOf(i, v, Put(r, load)[i.rt])
  BY <1>1, NextFile
<1>3. w \in Slot /\ ld \in Slot
  <2>1. Put(r, load)[i.rt] \in Word
    BY <1>1, NextFile
  <2>2. QED
    BY <1>1, <1>2, <2>1, WriteType, LoadType
<1>4. r' = Put([Put(r, load) EXCEPT ![ld.reg] = r[ld.reg]], w) /\ load' = ld
  BY <1>3, CommitIsPair DEF finish_step, EnterHandler, check_interrupts
<1>5. DS!Flow(i)
  <2>1. CASE next_exc_code = EXC_NONE
    <3>1. /\ pc' = get_next_pc /\ next_pc' = Plus(get_next_pc, 4)
          /\ branch_state' = br.state /\ branch_target' = br.target
      BY <2>1 DEF finish_step, EnterHandler, check_interrupts
    <3>2. get_next_pc' = IF br.state = BRANCH_STATE_TAKEN THEN br.target ELSE Plus(get_next_pc, 4)
      BY <3>1 DEF get_next_pc, IS_BRANCH_TAKEN
    <3>3. QED
      BY <3>1, <3>2, SameOperators DEF DS!Flow
  <2>2. CASE next_exc_code # EXC_NONE
    <3>1. /\ pc' = EXC_VECTOR /\ next_pc' = Plus(EXC_VECTOR, 4)
          /\ branch_state' = BRANCH_STATE_NO_DELAY
      BY <2>2 DEF finish_step, EnterHandler, check_interrupts
    <3>2. get_next_pc' = Plus(EXC_VECTOR, 4)
      BY <3>1 DEF get_next_pc, IS_BRANCH_TAKEN, BRANCH_STATE_NO_DELAY, BRANCH_STATE_TAKEN
    <3>3. QED
      BY <3>1, <3>2, SameOperators DEF DS!Flow
  <2>3. QED
    BY <2>1, <2>2
<1>6. DS!Complete(i, v)
  BY <1>2, <1>4, <1>5, SameOperators DEF DS!Complete
<1>7. QED
  BY <1>6, SameOperators DEF DS!Next

\* The same for the instructions that leave hi and lo alone.
LEMMA CompletesPlain ==
  ASSUME CpuInv, NEW i \in Insts, NEW v \in Word, NEW c, NEW lanes,
         pc % 4 = 0,
         FaultOf(i, r, TRUE) = EXC_NONE,
         finish_step(WriteOf(i, r, hi, lo, get_next_pc),
                     LoadOf(i, v, reg_read_with_load(r, load, i.rt)),
                     BranchOf(i, r, get_next_pc), EXC_NONE, c, lanes),
         HiLoOf(i, r, hi, lo) = <<hi, lo>>, UNCHANGED <<hi, lo>>
  PROVE  DS!Next
<1>1. hi' = HiLoOf(i, r, hi, lo)[1] /\ lo' = HiLoOf(i, r, hi, lo)[2]
  OBVIOUS
<1>2. QED
  BY <1>1, Completes

\* A step with an exception of its own is a fault.
LEMMA Faults ==
  ASSUME CpuInv, NEW br, NEW c, NEW lanes, NEW exc \in SyncExc,
         finish_step(NoSlot, NoSlot, br, exc, c, lanes),
         UNCHANGED <<hi, lo>>,
         pc % 4 # 0 \/ \E i \in Insts : FaultOf(i, r, FALSE) # EXC_NONE
  PROVE  DS!Next
<1>1. /\ r' = Put(r, load) /\ load' = NoSlot
      /\ branch_state' = BRANCH_STATE_NO_DELAY
      /\ pc' = EXC_VECTOR /\ next_pc' = Plus(EXC_VECTOR, 4)
  BY FaultRaised
<1>2. Put(r, load)' = Put(r, load)
  BY <1>1 DEF Put, NoSlot
<1>3. get_next_pc' = Plus(EXC_VECTOR, 4)
  BY <1>1 DEF get_next_pc, IS_BRANCH_TAKEN, BRANCH_STATE_NO_DELAY, BRANCH_STATE_TAKEN
<1>4. DS!Fault
  BY <1>1, <1>2, <1>3, SameOperators DEF DS!Fault
<1>5. DS!CanFault
  BY SameOperators DEF DS!CanFault
<1>6. QED
  BY <1>4, <1>5 DEF DS!Next

\* Isolation only ever removes faults.
LEMMA IsolationRemovesFaults ==
  ASSUME NEW i, NEW f, NEW isolated \in BOOLEAN
  PROVE  /\ FaultOf(i, f, isolated) # EXC_NONE => FaultOf(i, f, FALSE) # EXC_NONE
         /\ FaultOf(i, f, isolated) = EXC_NONE => FaultOf(i, f, TRUE) = EXC_NONE
<1>1. FaultOf(i, f, FALSE) = EXC_NONE => FaultOf(i, f, TRUE) = EXC_NONE
  BY DEF FaultOf, EXC_NONE, EXC_OV, EXC_ADEL, EXC_ADES, EXC_SYS, EXC_BP, EXC_RI
<1>2. isolated = TRUE \/ isolated = FALSE
  OBVIOUS
<1>3. CASE isolated = TRUE
  BY <1>1, <1>3
<1>4. CASE isolated = FALSE
  BY <1>1, <1>4
<1>5. QED
  BY <1>2, <1>3, <1>4

\* What the instructions of each kind do not do.
LEMMA NoLoad == \A i, v, old : i.op \notin LoadOp \cup {"mfc0"} => LoadOf(i, v, old) = NoSlot
  BY DEF LoadOp, LoadOf

LEMMA NoJump == \A i, f, n : i.op \notin BranchOp \cup JumpOp => BranchOf(i, f, n) = NoBranch
  BY DEF BranchOp, JumpOp, BranchOf

LEMMA NoHiLo == \A i, f, h, l : i.op \notin HiLoOp => HiLoOf(i, f, h, l) = <<h, l>>
  BY DEF HiLoOp, HiLoOf

LEMMA NoWrite ==
  \A i, f, h, l, n : i.op \in HiLoOp \cup LoadOp \cup StoreOp \cup Cop0Op \cup TrapOp
                        => WriteOf(i, f, h, l, n) = NoSlot
  BY DEF HiLoOp, LoadOp, StoreOp, Cop0Op, TrapOp, WriteOf

LEMMA NoFault ==
  \A i, f : i.op \in AluOp \/ i.op \in HiLoOp \/ i.op \in BranchOp \cup JumpOp \/ i.op \in Cop0Op
            => FaultOf(i, f, TRUE) = EXC_NONE
  BY DEF AluOp, HiLoOp, BranchOp, JumpOp, Cop0Op, FaultOf

LEMMA InitRefines == Init => DS!Init
<1> SUFFICES ASSUME Init PROVE DS!Init
  OBVIOUS
<1>1. get_next_pc = Plus(RESET_VECTOR, 4)
  BY DEF Init, get_next_pc, IS_BRANCH_TAKEN, BRANCH_STATE_NO_DELAY, BRANCH_STATE_TAKEN
<1>2. Put(r, load) = r
  BY DEF Init, Put, NoSlot
<1>3. QED
  BY <1>1, <1>2, SameOperators DEF Init, DS!Init

\* Every step of cpu_run, one case per handler.
LEMMA StepRefines == CpuInv /\ cpu_step => DS!Next
<1> SUFFICES ASSUME CpuInv, cpu_step PROVE DS!Next
  OBVIOUS
<1> USE InvTypes, ZeroIsWord
<1>1. \A i \in Insts : i \in Inst /\ i.op \in Op
  BY InputAssumption DEF Inst
<1>2. \A i \in Insts : /\ Fault(i) \in SyncExc \cup {EXC_NONE}
                       /\ Fault(i) # EXC_NONE => FaultOf(i, r, FALSE) # EXC_NONE
                       /\ Fault(i) = EXC_NONE => FaultOf(i, r, TRUE) = EXC_NONE
  BY <1>1, FaultType, IsolationRemovesFaults DEF Fault
<1>3. CASE FetchFault
  <2>1. EXC_ADEL \in SyncExc
    BY DEF SyncExc
  <2>2. QED
    BY <1>3, <2>1, Faults DEF FetchFault, finish_plain
<1> SUFFICES ASSUME NEW i \in Insts, pc % 4 = 0,
                    \/ Compute(i)
                    \/ MoveHiLo(i)
                    \/ TrapArith(i)
                    \/ BranchOrJump(i)
                    \/ \E v \in MemVals : LoadWord(i, v)
                    \/ \E v \in IrqState : Store(i, v)
                    \/ Mfc0(i)
                    \/ \E s \in StatusInputs : Mtc0(i, s)
                    \/ Rfe(i)
                    \/ Trap(i)
             PROVE  DS!Next
  BY <1>3 DEF cpu_step
<1> DEFINE old == reg_read_with_load(r, load, i.rt)
<1>4. i \in Inst
  BY <1>1
<1>5. CASE Compute(i)
  <2>1. i.op \in AluOp /\ finish_plain(Write(i), NoSlot, EXC_NONE) /\ UNCHANGED <<hi, lo>>
    BY <1>5 DEF Compute
  <2>2. i.op \notin LoadOp \cup {"mfc0"} \cup BranchOp \cup JumpOp \cup HiLoOp
    BY <2>1 DEF AluOp, LoadOp, BranchOp, JumpOp, HiLoOp
  <2>3. /\ LoadOf(i, 0, old) = NoSlot /\ BranchOf(i, r, get_next_pc) = NoBranch
        /\ HiLoOf(i, r, hi, lo) = <<hi, lo>> /\ FaultOf(i, r, TRUE) = EXC_NONE
    <3>1. FaultOf(i, r, TRUE) = EXC_NONE
      BY <2>1, NoFault
    <3>2. LoadOf(i, 0, old) = NoSlot
      BY <2>2, NoLoad
    <3>3. BranchOf(i, r, get_next_pc) = NoBranch
      BY <2>2, NoJump
    <3>4. HiLoOf(i, r, hi, lo) = <<hi, lo>>
      BY <2>2, NoHiLo
    <3>5. QED
      BY <3>1, <3>2, <3>3, <3>4
  <2>4. finish_step(WriteOf(i, r, hi, lo, get_next_pc), LoadOf(i, 0, old),
                    BranchOf(i, r, get_next_pc), EXC_NONE, cop0, {})
    BY <2>1, <2>3 DEF finish_plain, Write
  <2>5. QED
    BY <2>1, <2>3, <2>4, CompletesPlain
<1>6. CASE MoveHiLo(i)
  <2>1. i.op \in HiLoOp /\ i.op \notin LoadOp \cup {"mfc0"} \cup BranchOp \cup JumpOp
    BY <1>6 DEF MoveHiLo, LoadOp, BranchOp, JumpOp, HiLoOp
  <2>2. /\ LoadOf(i, 0, old) = NoSlot /\ BranchOf(i, r, get_next_pc) = NoBranch
        /\ WriteOf(i, r, hi, lo, get_next_pc) = NoSlot /\ FaultOf(i, r, TRUE) = EXC_NONE
    BY <2>1, NoLoad, NoJump, NoWrite, NoFault
  <2>3. QED
    BY <1>6, <2>2, Completes DEF MoveHiLo, finish_plain
<1>7. CASE TrapArith(i)
  <2>1. i.op \notin LoadOp \cup {"mfc0"} \cup BranchOp \cup JumpOp \cup HiLoOp
    BY <1>7 DEF TrapArith, TrapArithOp, LoadOp, BranchOp, JumpOp, HiLoOp
  <2>2. /\ LoadOf(i, 0, old) = NoSlot /\ BranchOf(i, r, get_next_pc) = NoBranch
        /\ HiLoOf(i, r, hi, lo) = <<hi, lo>>
    BY <2>1, NoLoad, NoJump, NoHiLo
  <2>3. CASE Fault(i) = EXC_NONE
    <3>1. finish_plain(Write(i), NoSlot, EXC_NONE) /\ UNCHANGED <<hi, lo>>
      BY <1>7, <2>3 DEF TrapArith
    <3>2. finish_step(WriteOf(i, r, hi, lo, get_next_pc), LoadOf(i, 0, old),
                      BranchOf(i, r, get_next_pc), EXC_NONE, cop0, {})
      BY <2>2, <3>1 DEF finish_plain, Write
    <3>3. QED
      BY <1>2, <2>2, <2>3, <3>1, <3>2, CompletesPlain
  <2>4. CASE Fault(i) # EXC_NONE
    BY <1>2, <1>7, <2>4, Faults DEF TrapArith, finish_plain
  <2>5. QED
    BY <2>3, <2>4
<1>8. CASE BranchOrJump(i)
  <2>1. /\ i.op \in BranchOp \cup JumpOp
        /\ finish_step(Write(i), NoSlot, BranchOf(i, r, get_next_pc), EXC_NONE, cop0, {})
        /\ UNCHANGED <<hi, lo>>
    BY <1>8 DEF BranchOrJump
  <2>2. i.op \notin LoadOp \cup {"mfc0"} \cup HiLoOp
    BY <2>1 DEF LoadOp, BranchOp, JumpOp, HiLoOp
  <2>3. /\ LoadOf(i, 0, old) = NoSlot
        /\ HiLoOf(i, r, hi, lo) = <<hi, lo>> /\ FaultOf(i, r, TRUE) = EXC_NONE
    <3>1. FaultOf(i, r, TRUE) = EXC_NONE
      BY <2>1, NoFault
    <3>2. LoadOf(i, 0, old) = NoSlot
      BY <2>2, NoLoad
    <3>3. HiLoOf(i, r, hi, lo) = <<hi, lo>>
      BY <2>2, NoHiLo
    <3>4. QED
      BY <3>1, <3>2, <3>3
  <2>4. finish_step(WriteOf(i, r, hi, lo, get_next_pc), LoadOf(i, 0, old),
                    BranchOf(i, r, get_next_pc), EXC_NONE, cop0, {})
    BY <2>1, <2>3 DEF Write
  <2>5. QED
    BY <2>1, <2>3, <2>4, CompletesPlain
<1>9. ASSUME NEW v \in MemVals, LoadWord(i, v) PROVE DS!Next
  <2>1. i.op \notin BranchOp \cup JumpOp \cup HiLoOp /\ i.op \in LoadOp /\ v \in Word
    BY <1>9, InputAssumption DEF LoadWord, LoadOp, BranchOp, JumpOp, HiLoOp
  <2>2. /\ WriteOf(i, r, hi, lo, get_next_pc) = NoSlot /\ BranchOf(i, r, get_next_pc) = NoBranch
        /\ HiLoOf(i, r, hi, lo) = <<hi, lo>>
    BY <2>1, NoWrite, NoJump, NoHiLo
  <2>3. CASE Fault(i) = EXC_NONE
    <3>1. finish_plain(NoSlot, LoadOf(i, v, old), EXC_NONE) /\ UNCHANGED <<hi, lo>>
      BY <1>9, <2>3 DEF LoadWord
    <3>2. finish_step(WriteOf(i, r, hi, lo, get_next_pc), LoadOf(i, v, old),
                      BranchOf(i, r, get_next_pc), EXC_NONE, cop0, {})
      BY <2>2, <3>1 DEF finish_plain
    <3>3. QED
      BY <1>2, <2>1, <2>2, <2>3, <3>1, <3>2, CompletesPlain
  <2>4. CASE Fault(i) # EXC_NONE
    BY <1>2, <1>9, <2>4, Faults DEF LoadWord, finish_plain
  <2>5. QED
    BY <2>3, <2>4
<1>10. ASSUME NEW v \in IrqState, Store(i, v) PROVE DS!Next
  <2>1. /\ i.op \notin LoadOp \cup {"mfc0"} \cup BranchOp \cup JumpOp \cup HiLoOp
        /\ i.op \in StoreOp
    BY <1>10 DEF Store, StoreOp, LoadOp, BranchOp, JumpOp, HiLoOp
  <2>2. /\ WriteOf(i, r, hi, lo, get_next_pc) = NoSlot /\ BranchOf(i, r, get_next_pc) = NoBranch
        /\ LoadOf(i, 0, old) = NoSlot /\ HiLoOf(i, r, hi, lo) = <<hi, lo>>
    BY <2>1, NoWrite, NoJump, NoLoad, NoHiLo
  <2>3. PICK lanes : finish_step(NoSlot, NoSlot, NoBranch, Fault(i), cop0, lanes)
    BY <1>10 DEF Store
  <2>4. UNCHANGED <<hi, lo>>
    BY <1>10 DEF Store
  <2>5. CASE Fault(i) = EXC_NONE
    <3>1. finish_step(WriteOf(i, r, hi, lo, get_next_pc), LoadOf(i, 0, old),
                      BranchOf(i, r, get_next_pc), EXC_NONE, cop0, lanes)
      BY <2>2, <2>3, <2>5
    <3>2. QED
      BY <1>2, <2>2, <2>4, <2>5, <3>1, CompletesPlain
  <2>6. CASE Fault(i) # EXC_NONE
    BY <1>2, <2>3, <2>4, <2>6, Faults
  <2>7. QED
    BY <2>5, <2>6
<1>11. CASE Mfc0(i)
  <2>1. PICK v \in cop0_read(cop0, i.cop, MemVals) : finish_plain(NoSlot, LoadOf(i, v, 0), EXC_NONE)
    BY <1>11 DEF Mfc0
  <2>2. v \in Word
    BY <2>1, InputAssumption DEF cop0_read, Cop0State
  <2>3. i.op = "mfc0" /\ UNCHANGED <<hi, lo>>
    BY <1>11 DEF Mfc0
  <2>4. LoadOf(i, v, 0) = LoadOf(i, v, old)
    BY <2>3 DEF LoadOf
  <2>5. i.op \notin BranchOp \cup JumpOp \cup HiLoOp /\ i.op \in Cop0Op
    BY <2>3 DEF Cop0Op, BranchOp, JumpOp, HiLoOp
  <2>6. /\ WriteOf(i, r, hi, lo, get_next_pc) = NoSlot /\ BranchOf(i, r, get_next_pc) = NoBranch
        /\ HiLoOf(i, r, hi, lo) = <<hi, lo>> /\ FaultOf(i, r, TRUE) = EXC_NONE
    <3>1. FaultOf(i, r, TRUE) = EXC_NONE
      BY <2>5, NoFault
    <3>2. WriteOf(i, r, hi, lo, get_next_pc) = NoSlot
      BY <2>5, NoWrite
    <3>3. BranchOf(i, r, get_next_pc) = NoBranch
      BY <2>5, NoJump
    <3>4. HiLoOf(i, r, hi, lo) = <<hi, lo>>
      BY <2>5, NoHiLo
    <3>5. QED
      BY <3>1, <3>2, <3>3, <3>4
  <2>7. finish_step(WriteOf(i, r, hi, lo, get_next_pc), LoadOf(i, v, old),
                    BranchOf(i, r, get_next_pc), EXC_NONE, cop0, {})
    BY <2>1, <2>4, <2>6 DEF finish_plain
  <2>8. QED
    BY <2>2, <2>3, <2>6, <2>7, CompletesPlain
<1>12. ASSUME (\E s \in StatusInputs : Mtc0(i, s)) \/ Rfe(i) PROVE DS!Next
  <2>1. /\ i.op \in {"mtc0", "rfe"} /\ UNCHANGED <<hi, lo>>
        /\ \E c : finish_step(NoSlot, NoSlot, NoBranch, EXC_NONE, c, {})
    BY <1>12 DEF Mtc0, Rfe
  <2>2. /\ i.op \notin LoadOp \cup {"mfc0"} \cup BranchOp \cup JumpOp \cup HiLoOp
        /\ i.op \in Cop0Op
    BY <2>1 DEF Cop0Op, LoadOp, BranchOp, JumpOp, HiLoOp
  <2>3. /\ WriteOf(i, r, hi, lo, get_next_pc) = NoSlot /\ BranchOf(i, r, get_next_pc) = NoBranch
        /\ LoadOf(i, 0, old) = NoSlot /\ HiLoOf(i, r, hi, lo) = <<hi, lo>>
        /\ FaultOf(i, r, TRUE) = EXC_NONE
    <3>1. FaultOf(i, r, TRUE) = EXC_NONE
      BY <2>2, NoFault
    <3>2. WriteOf(i, r, hi, lo, get_next_pc) = NoSlot
      BY <2>2, NoWrite
    <3>3. BranchOf(i, r, get_next_pc) = NoBranch
      BY <2>2, NoJump
    <3>4. LoadOf(i, 0, old) = NoSlot
      BY <2>2, NoLoad
    <3>5. HiLoOf(i, r, hi, lo) = <<hi, lo>>
      BY <2>2, NoHiLo
    <3>6. QED
      BY <3>1, <3>2, <3>3, <3>4, <3>5
  <2>4. PICK c : finish_step(WriteOf(i, r, hi, lo, get_next_pc), LoadOf(i, 0, old),
                             BranchOf(i, r, get_next_pc), EXC_NONE, c, {})
    BY <2>1, <2>3
  <2>5. QED
    BY <2>1, <2>3, <2>4, CompletesPlain
<1>13. CASE Trap(i)
  <2>1. Fault(i) \in SyncExc
    BY <1>13 DEF Trap, TrapOp, Fault, FaultOf, SyncExc
  <2>2. QED
    BY <1>2, <1>13, <2>1, ExcFacts, Faults DEF Trap, finish_plain
<1>14. QED
  BY <1>5, <1>6, <1>7, <1>8, <1>9, <1>10, <1>11, <1>12, <1>13

\* irq_raise is invisible to the delay slot machine.
LEMMA RaiseRefines ==
  ASSUME NEW lines \in SUBSET Irqs, IrqRaise(lines)
  PROVE  UNCHANGED <<pc, get_next_pc, r, Put(r, load), hi, lo>>
  BY DEF IrqRaise, cpu_vars, get_next_pc, Put

LEMMA NextRefines == CpuInv /\ [Next]_vars => [DS!Next]_(DS!dvars)
<1> SUFFICES ASSUME CpuInv, [Next]_vars
             PROVE  DS!Next \/ UNCHANGED <<pc, get_next_pc, r, Put(r, load), hi, lo>>
  BY DEF DS!dvars
<1>1. CASE cpu_step
  BY <1>1, StepRefines
<1>2. CASE \E lines \in SUBSET Irqs \ {{}} : IrqRaise(lines)
  BY <1>2, RaiseRefines
<1>3. CASE UNCHANGED vars
  BY <1>3 DEF vars, cpu_vars, get_next_pc, Put
<1>4. QED
  BY <1>1, <1>2, <1>3 DEF Next

\* The interpreter, with its cancelled loads, latched interrupts and exceptions
\* anywhere, implements the delay slot machine.
THEOREM Refinement == Spec => ImplementsDelaySlots
<1>1. Spec => DS!Spec
  BY InitRefines, NextRefines, Invariance, PTL DEF Spec, DS!Spec
<1>2. QED
  BY <1>1 DEF ImplementsDelaySlots
================================================================================
