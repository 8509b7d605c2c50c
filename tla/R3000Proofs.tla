------------------------------ MODULE R3000Proofs ------------------------------
(* What the operators of R3000 and Cop0 return, for any word size, register    *)
(* file, arithmetic and interrupt lines.                                       *)
EXTENDS Cop0, TLAPS

\* Sums and differences wrap around to words.
LEMMA WrapIsWord == \A a, b \in Int : Plus(a, b) \in Word /\ Minus(a, b) \in Word
  BY WordAssumption DEF Plus, Minus, Word

LEMMA WordIsInt == \A w \in Word : w \in Int
  BY WordAssumption DEF Word

LEMMA ZeroIsWord == 0 \in Word /\ 0 \in Reg /\ RA \in Reg /\ NoSlot \in Slot
  BY WordAssumption, RegAssumption DEF Word, Reg, RA, NoSlot, Slot

\* A slot for register $zero is no slot.
LEMMA SlotForType ==
  ASSUME NEW n \in Reg, NEW v \in Word
  PROVE  SlotFor(n, v) \in Slot
  BY ZeroIsWord DEF SlotFor, Slot, NoSlot

\* Putting a slot into a register file keeps it one, and keeps $zero.
LEMMA PutType ==
  ASSUME NEW f \in [Reg -> Word], NEW s \in Slot
  PROVE  Put(f, s) \in [Reg -> Word] /\ Put(f, s)[0] = f[0]
  BY ZeroIsWord DEF Put, Slot

LEMMA RegReadType ==
  ASSUME NEW f \in [Reg -> Word], NEW n \in Reg
  PROVE  reg_read(f, n) \in Word
  BY ZeroIsWord DEF reg_read

LEMMA AddrType ==
  ASSUME NEW i \in Inst, NEW f \in [Reg -> Word]
  PROVE  Addr(i, f) \in Word
  BY RegReadType, WrapIsWord, WordIsInt DEF Addr, Inst

\* Every instruction writes at most one register, and a word.
LEMMA WriteType ==
  ASSUME NEW i \in Inst, NEW f \in [Reg -> Word],
         NEW h \in Word, NEW l \in Word, NEW npc \in Word
  PROVE  WriteOf(i, f, h, l, npc) \in Slot
<1> DEFINE a == reg_read(f, i.rs)
           b == reg_read(f, i.rt)
<1>1. i.rs \in Reg /\ i.rt \in Reg /\ i.rd \in Reg /\ i.imm \in Word /\ i.fn \in Fns
  BY DEF Inst
<1>2. a \in Word /\ b \in Word
  BY <1>1, RegReadType
<1>3. Alu[<<i.fn, a, b>>] \in Word /\ Alu[<<i.fn, a, i.imm>>] \in Word
  BY <1>1, <1>2, AluAssumption
<1>4. /\ Plus(a, b) \in Word /\ Minus(a, b) \in Word
      /\ Plus(a, i.imm) \in Word /\ Plus(npc, 4) \in Word
  <2>1. a \in Int /\ b \in Int /\ i.imm \in Int /\ npc \in Int /\ 4 \in Int
    BY <1>1, <1>2, WordIsInt
  <2>2. QED BY ONLY <2>1, WrapIsWord
<1> HIDE DEF a, b
<1>5. /\ SlotFor(i.rd, Alu[<<i.fn, a, b>>]) \in Slot
      /\ SlotFor(i.rt, Alu[<<i.fn, a, i.imm>>]) \in Slot
      /\ SlotFor(i.rd, Plus(a, b)) \in Slot
      /\ SlotFor(i.rd, Minus(a, b)) \in Slot
      /\ SlotFor(i.rt, Plus(a, i.imm)) \in Slot
      /\ SlotFor(i.rd, h) \in Slot
      /\ SlotFor(i.rd, l) \in Slot
      /\ SlotFor(RA, Plus(npc, 4)) \in Slot
      /\ SlotFor(i.rd, Plus(npc, 4)) \in Slot
      /\ NoSlot \in Slot
  BY <1>1, <1>3, <1>4, SlotForType, ZeroIsWord
<1>6. QED
  BY <1>5 DEF WriteOf, a, b

LEMMA HiLoType ==
  ASSUME NEW i \in Inst, NEW f \in [Reg -> Word], NEW h \in Word, NEW l \in Word
  PROVE  HiLoOf(i, f, h, l)[1] \in Word /\ HiLoOf(i, f, h, l)[2] \in Word
<1> DEFINE a == reg_read(f, i.rs)
           b == reg_read(f, i.rt)
<1>1. a \in Word /\ b \in Word /\ i.fn \in Fns
  BY RegReadType DEF Inst
<1>2. MulDiv[<<i.fn, a, b>>] \in Word \X Word
  BY <1>1, AluAssumption
<1>3. HiLoOf(i, f, h, l) \in Word \X Word
  <2> HIDE DEF a, b
  <2>1. QED BY <1>1, <1>2 DEF HiLoOf, a, b
<1>4. QED
  BY <1>3

LEMMA LoadType ==
  ASSUME NEW i \in Inst, NEW v \in Word, NEW old \in Word
  PROVE  LoadOf(i, v, old) \in Slot
<1>1. i.rt \in Reg /\ LoadMerge[<<i.fn, old, v>>] \in Word
  BY AluAssumption DEF Inst
<1>2. QED
  BY <1>1, SlotForType, ZeroIsWord DEF LoadOf

LEMMA BranchType ==
  ASSUME NEW i \in Inst, NEW f \in [Reg -> Word], NEW npc \in Word
  PROVE  BranchOf(i, f, npc) \in Branch
<1>1. reg_read(f, i.rs) \in Word /\ i.imm \in Word /\ 4 * i.imm \in Int
  BY RegReadType, WordIsInt DEF Inst
<1>2. Plus(npc, 4 * i.imm) \in Word
  BY <1>1, WrapIsWord, WordIsInt
<1>3. npc - (npc % SegMod) + ((4 * i.imm) % SegMod) \in Word
  <2>1. (4 * i.imm) % SegMod \in 0 .. SegMod - 1
    BY <1>1, SegAssumption
  <2>2. QED BY <2>1, SegAssumption
<1>4. QED
  BY <1>1, <1>2, <1>3, ZeroIsWord
  DEF BranchOf, Branch, NoBranch, BranchState, BRANCH_STATE_TAKEN,
      BRANCH_STATE_IN_DELAY_SLOT, BRANCH_STATE_NO_DELAY

\* An instruction asks for no exception or for one that is no interrupt.
LEMMA FaultType ==
  ASSUME NEW i \in Inst, NEW f \in [Reg -> Word], NEW isolated \in BOOLEAN
  PROVE  FaultOf(i, f, isolated) \in SyncExc \cup {EXC_NONE}
  BY DEF FaultOf, SyncExc

\* A store that does not fault stays within the address space.
LEMMA LanesType ==
  ASSUME NEW i \in Inst, NEW f \in [Reg -> Word], FaultOf(i, f, FALSE) = EXC_NONE
  PROVE  LanesOf(i, f) \subseteq Word
<1> DEFINE addr == Addr(i, f)
<1>1. addr \in 0 .. WordMod - 1 /\ WordMod \in Nat /\ WordMod % 4 = 0
  BY AddrType, WordAssumption DEF Word
<1>2. /\ i.op = "sh" => addr % 2 = 0
      /\ i.op = "sw" => addr % 4 = 0
  BY DEF FaultOf, EXC_ADES, EXC_NONE
<1> HIDE DEF addr
<1>3. /\ addr % 2 = 0 => addr + 1 < WordMod
      /\ addr - (addr % 4) + 3 < WordMod
      /\ addr - (addr % 4) >= 0
      /\ addr % 4 = 0 => addr + 3 < WordMod
  BY <1>1
<1>4. /\ {addr} \subseteq Word
      /\ addr % 2 = 0 => addr .. addr + 1 \subseteq Word
      /\ addr % 4 = 0 => addr .. addr + 3 \subseteq Word
      /\ (addr - (addr % 4)) .. addr \subseteq Word
      /\ addr .. (addr - (addr % 4)) + 3 \subseteq Word
  BY <1>1, <1>3 DEF Word
<1>5. QED
  BY <1>2, <1>4 DEF LanesOf, addr

-----------------------------------------------------------------------------
(* Coprocessor 0.  Its two cached flags agree with the registers they cache:  *)
(* isolation exactly, a pending interrupt at least soundly.                   *)
FlagsCohere(c) ==
    /\ c.pending_interrupts => c.status.cur /\ c.cause.ip
    /\ c.cache_isolated = c.status.isc

LEMMA ResetCoheres == cop0_reset \in Cop0State /\ FlagsCohere(cop0_reset)
<1>1. EXC_INT \in ExcCode \ {EXC_NONE}
  BY DEF ExcCode, EXC_INT, EXC_NONE
<1>2. cop0_reset.status \in Status /\ cop0_reset.cause \in Cause
  BY <1>1 DEF cop0_reset, Status, Cause
<1>3. QED
  BY <1>2, ZeroIsWord DEF cop0_reset, Cop0State, FlagsCohere

\* Setting the status keeps cause and refreshes both flags.
LEMMA SetStatus ==
  ASSUME NEW c \in Cop0State, NEW s \in Status
  PROVE  /\ cop0_set_status(c, s) \in Cop0State
         /\ FlagsCohere(cop0_set_status(c, s))
         /\ cop0_set_status(c, s).status = s
         /\ cop0_set_status(c, s).cause = c.cause
  BY DEF cop0_set_status, cop0_set_pending_interrupts, Cop0State, Status, Cause, FlagsCohere

LEMMA RfeCoheres ==
  ASSUME NEW c \in Cop0State, FlagsCohere(c)
  PROVE  cop0_rfe(c) \in Cop0State /\ FlagsCohere(cop0_rfe(c))
  BY DEF cop0_rfe, cop0_set_pending_interrupts, Cop0State, Status, Cause, FlagsCohere

LEMMA WriteCoheres ==
  ASSUME NEW c \in Cop0State, FlagsCohere(c), NEW reg \in Cop0Reg, NEW s \in Status, NEW v \in Word
  PROVE  cop0_write(c, reg, s, v) \in Cop0State /\ FlagsCohere(cop0_write(c, reg, s, v))
<1>1. CASE reg = "status"
  BY <1>1, SetStatus DEF cop0_write
<1>2. CASE reg = "tar"
  BY <1>2 DEF cop0_write, Cop0State, FlagsCohere
<1>3. CASE reg # "status" /\ reg # "tar"
  BY <1>3 DEF cop0_write
<1>4. QED
  BY <1>1, <1>2, <1>3

LEMMA UpdateCoheres ==
  ASSUME NEW c \in Cop0State, FlagsCohere(c), NEW q \in IrqState
  PROVE  /\ cop0_update_interrupts(c, q) \in Cop0State
         /\ FlagsCohere(cop0_update_interrupts(c, q))
         /\ cop0_update_interrupts(c, q).status = c.status
  BY DEF cop0_update_interrupts, Cop0State, Status, Cause, FlagsCohere

\* Raising an exception disables interrupts and remembers whether they were
\* enabled; it keeps the isolation bit and leaves nothing pending.
LEMMA RaiseCoheres ==
  ASSUME NEW c \in Cop0State, NEW code \in ExcCode \ {EXC_NONE}, NEW pc \in Word,
         NEW bs \in BranchState, NEW bt \in Word
  PROVE  LET d == cop0_raise_exception(c, code, pc, bs, bt)
         IN  /\ d \in Cop0State
             /\ FlagsCohere(d)
             /\ ~d.status.cur
             /\ d.status.prev = c.status.cur
             /\ d.status.old = c.status.prev
             /\ d.status.im = c.status.im
             /\ d.status.isc = c.status.isc
             /\ ~d.pending_interrupts
<1> DEFINE pushed == PushStatus(c.status)
           saved == [c EXCEPT
                       !.cause = CauseOf(c, code, bs),
                       !.tar = IF IS_IN_DELAY_SLOT(bs) THEN bt ELSE @,
                       !.epc = EpcOf(pc, bs),
                       !.badAddr = IF code \in {EXC_ADEL, EXC_ADES} THEN pc ELSE @]
<1>1. pushed \in Status /\ ~pushed.cur /\ pushed.isc = c.status.isc
      /\ pushed.prev = c.status.cur /\ pushed.old = c.status.prev /\ pushed.im = c.status.im
  BY DEF PushStatus, Cop0State, Status
<1>2. saved \in Cop0State
  <2>1. EpcOf(pc, bs) \in Word
    BY WrapIsWord, WordIsInt DEF EpcOf
  <2>2. CauseOf(c, code, bs) \in Cause
    BY DEF CauseOf, Cause, Cop0State, IS_IN_DELAY_SLOT, IS_BRANCH_TAKEN
  <2>3. QED
    BY <2>1, <2>2 DEF Cop0State
<1> DEFINE set == cop0_set_status(saved, pushed)
<1>3. set \in Cop0State /\ FlagsCohere(set) /\ set.status = pushed
  BY <1>1, <1>2, SetStatus
<1>4. cop0_raise_exception(c, code, pc, bs, bt) = [set EXCEPT !.pending_interrupts = FALSE]
  BY DEF cop0_raise_exception
<1> HIDE DEF pushed, saved, set
<1>5. QED
  BY <1>1, <1>3, <1>4 DEF Cop0State, FlagsCohere

\* Asserting lines, or storing to the controller, keeps its registers.
LEMMA IrqType ==
  ASSUME NEW q \in IrqState, NEW lines \in SUBSET Irqs, NEW lanes, NEW v \in IrqState
  PROVE  irq_raise(q, lines) \in IrqState /\ irq_write(q, lanes, v) \in IrqState
<1>1. irq_raise(q, lines) \in IrqState
  BY DEF irq_raise, IrqState
<1>2. \A base : LinesAt(base, lanes) \subseteq Irqs
  BY DEF LinesAt
<1>3. irq_write(q, lanes, v) \in IrqState
  BY <1>2 DEF irq_write, IrqState
<1>4. QED
  BY <1>1, <1>3

\* A store that writes no byte leaves the controller as it is.
LEMMA NoLanes ==
  ASSUME NEW q \in IrqState, NEW v \in IrqState
  PROVE  irq_write(q, {}, v) = q
<1>1. \A base : LinesAt(base, {}) = {}
  BY DEF LinesAt
<1>2. irq_write(q, {}, v) = [stat |-> q.stat, mask |-> q.mask]
  BY <1>1 DEF irq_write
<1>3. QED
  BY <1>2 DEF IrqState

-----------------------------------------------------------------------------
(* What the checks and the addresses of cpu.c amount to, for every word size. *)

\* The signed number that a word stands for.
Signed(a) == IF Negative(a) THEN a - WordMod ELSE a
SignedRange == -(WordMod \div 2) .. (WordMod \div 2) - 1

LEMMA HalfWord == \E h \in Nat : WordMod = 2 * h /\ WordMod \div 2 = h /\ h > 0
<1>1. WordMod \in Nat /\ WordMod > 4 /\ WordMod % 4 = 0
  BY WordAssumption
<1>2. WordMod = 2 * (WordMod \div 2) /\ WordMod \div 2 \in Nat /\ WordMod \div 2 > 0
  BY <1>1
<1>3. QED
  BY <1>2

\* The sum and the difference of words, without division.
LEMMA Wrapped ==
  ASSUME NEW a \in Word, NEW b \in Word
  PROVE  /\ Plus(a, b) = IF a + b < WordMod THEN a + b ELSE a + b - WordMod
         /\ Minus(a, b) = IF a >= b THEN a - b ELSE a - b + WordMod
<1>1. a \in 0 .. WordMod - 1 /\ b \in 0 .. WordMod - 1 /\ WordMod \in Nat /\ WordMod > 0
  BY WordAssumption DEF Word
<1>2. \A n \in 0 .. WordMod - 1 : n % WordMod = n
  BY <1>1
<1>3. Plus(a, b) = IF a + b < WordMod THEN a + b ELSE a + b - WordMod
  <2>1. CASE a + b < WordMod
    BY <1>1, <1>2, <2>1 DEF Plus
  <2>2. CASE ~(a + b < WordMod)
    <3>1. a + b - WordMod \in 0 .. WordMod - 1 /\ a + b \in Int
      BY <1>1, <2>2
    <3>2. (a + b) % WordMod = a + b - WordMod
      BY <1>1, <2>2, <3>1
    <3>3. QED
      BY <2>2, <3>2 DEF Plus
  <2>3. QED
    BY <2>1, <2>2
<1>4. Minus(a, b) = IF a >= b THEN a - b ELSE a - b + WordMod
  <2>1. CASE a >= b
    BY <1>1, <1>2, <2>1 DEF Minus
  <2>2. CASE ~(a >= b)
    <3>1. a - b + WordMod \in 0 .. WordMod - 1 /\ a - b \in Int
      BY <1>1, <2>2
    <3>2. (a - b) % WordMod = a - b + WordMod
      BY <1>1, <2>2, <3>1
    <3>3. QED
      BY <2>2, <3>2 DEF Minus
  <2>3. QED
    BY <2>1, <2>2
<1>5. QED
  BY <1>3, <1>4

\* add and addi trap exactly when the signed sum is no word, and otherwise write it:
\* the test of the signs in cpu.c is a test of the sum.
THEOREM AddTrapsOnOverflow ==
  \A a, b \in Word :
      /\ add_overflow_check(a, b) <=> Signed(a) + Signed(b) \notin SignedRange
      /\ ~add_overflow_check(a, b) => Signed(Plus(a, b)) = Signed(a) + Signed(b)
<1> SUFFICES ASSUME NEW a \in Word, NEW b \in Word
             PROVE  /\ add_overflow_check(a, b) <=> Signed(a) + Signed(b) \notin SignedRange
                    /\ ~add_overflow_check(a, b) => Signed(Plus(a, b)) = Signed(a) + Signed(b)
  OBVIOUS
<1> DEFINE s == Plus(a, b)
<1>1. PICK h \in Nat : WordMod = 2 * h /\ WordMod \div 2 = h /\ h > 0
  BY HalfWord
<1>2. /\ a \in Int /\ 0 <= a /\ a < 2 * h
      /\ b \in Int /\ 0 <= b /\ b < 2 * h
  BY <1>1 DEF Word
<1>3. s = IF a + b < 2 * h THEN a + b ELSE a + b - 2 * h
  BY <1>1, Wrapped
<1>4. /\ \A n : Negative(n) <=> n >= h
      /\ \A n : Signed(n) = IF n >= h THEN n - 2 * h ELSE n
      /\ \A n : n \in SignedRange <=> n \in -h .. h - 1
  BY <1>1 DEF Negative, Signed, SignedRange
<1>5. add_overflow_check(a, b) <=> (a >= h <=> b >= h) /\ ~(s >= h <=> a >= h)
  BY <1>1 DEF add_overflow_check, Negative
<1> HIDE DEF s
<1>6. /\ Signed(a) = IF a >= h THEN a - 2 * h ELSE a
      /\ Signed(b) = IF b >= h THEN b - 2 * h ELSE b
      /\ Signed(s) = IF s >= h THEN s - 2 * h ELSE s
      /\ Signed(a) + Signed(b) \in SignedRange <=> Signed(a) + Signed(b) \in -h .. h - 1
  BY <1>4
<1>7. add_overflow_check(a, b) <=> Signed(a) + Signed(b) \notin SignedRange
  BY <1>1, <1>2, <1>3, <1>5, <1>6
<1>8. ~add_overflow_check(a, b) => Signed(s) = Signed(a) + Signed(b)
  BY <1>1, <1>2, <1>3, <1>5, <1>6
<1>9. QED
  BY <1>7, <1>8 DEF s

\* sub traps exactly when the signed difference is no word.
THEOREM SubTrapsOnOverflow ==
  \A a, b \in Word :
      /\ sub_overflow_check(a, b) <=> Signed(a) - Signed(b) \notin SignedRange
      /\ ~sub_overflow_check(a, b) => Signed(Minus(a, b)) = Signed(a) - Signed(b)
<1> SUFFICES ASSUME NEW a \in Word, NEW b \in Word
             PROVE  /\ sub_overflow_check(a, b) <=> Signed(a) - Signed(b) \notin SignedRange
                    /\ ~sub_overflow_check(a, b) => Signed(Minus(a, b)) = Signed(a) - Signed(b)
  OBVIOUS
<1> DEFINE s == Minus(a, b)
<1>1. PICK h \in Nat : WordMod = 2 * h /\ WordMod \div 2 = h /\ h > 0
  BY HalfWord
<1>2. /\ a \in Int /\ 0 <= a /\ a < 2 * h
      /\ b \in Int /\ 0 <= b /\ b < 2 * h
  BY <1>1 DEF Word
<1>3. s = IF a >= b THEN a - b ELSE a - b + 2 * h
  BY <1>1, Wrapped
<1>4. /\ \A n : Negative(n) <=> n >= h
      /\ \A n : Signed(n) = IF n >= h THEN n - 2 * h ELSE n
      /\ \A n : n \in SignedRange <=> n \in -h .. h - 1
  BY <1>1 DEF Negative, Signed, SignedRange
<1>5. sub_overflow_check(a, b) <=> ~(a >= h <=> b >= h) /\ ~(s >= h <=> a >= h)
  BY <1>1 DEF sub_overflow_check, Negative
<1> HIDE DEF s
<1>6. /\ Signed(a) = IF a >= h THEN a - 2 * h ELSE a
      /\ Signed(b) = IF b >= h THEN b - 2 * h ELSE b
      /\ Signed(s) = IF s >= h THEN s - 2 * h ELSE s
      /\ Signed(a) - Signed(b) \in SignedRange <=> Signed(a) - Signed(b) \in -h .. h - 1
  BY <1>4
<1>7. sub_overflow_check(a, b) <=> Signed(a) - Signed(b) \notin SignedRange
  BY <1>1, <1>2, <1>3, <1>5, <1>6
<1>8. ~sub_overflow_check(a, b) => Signed(s) = Signed(a) - Signed(b)
  BY <1>1, <1>2, <1>3, <1>5, <1>6
<1>9. QED
  BY <1>7, <1>8 DEF s

\* The bytes of the aligned word around an address.
WordAround(a) == a - (a % 4) .. a - (a % 4) + 3

\* Every store that does not fault writes inside one aligned word: none reaches two
\* pages, two registers of a device, or a port and the register beside it.
THEOREM StoresKeepToAWord ==
  ASSUME NEW i \in Inst, NEW f \in [Reg -> Word], FaultOf(i, f, FALSE) = EXC_NONE
  PROVE  LanesOf(i, f) \subseteq WordAround(Addr(i, f))
<1> DEFINE addr == Addr(i, f)
<1>1. addr \in Int
  BY AddrType, WordIsInt
<1>2. /\ i.op = "sh" => addr % 2 = 0
      /\ i.op = "sw" => addr % 4 = 0
  BY DEF FaultOf, EXC_ADES, EXC_NONE
<1> HIDE DEF addr
<1>3. PICK q \in Int, k \in 0 .. 3 : addr = 4 * q + k /\ addr % 4 = k
  BY <1>1
<1>4. addr % 2 = 0 => k \in {0, 2}
  BY <1>3
<1>5. /\ {addr} \subseteq addr - k .. addr - k + 3
      /\ addr % 2 = 0 => addr .. addr + 1 \subseteq addr - k .. addr - k + 3
      /\ k = 0 => addr .. addr + 3 \subseteq addr - k .. addr - k + 3
      /\ addr - k .. addr \subseteq addr - k .. addr - k + 3
      /\ addr .. addr - k + 3 \subseteq addr - k .. addr - k + 3
  BY <1>1, <1>3, <1>4
<1>6. QED
  BY <1>2, <1>3, <1>5 DEF LanesOf, WordAround, addr

\* The idiom for a word at any address: swl at its last byte and swr at its first
\* write its four bytes, each exactly once unless the word is aligned.
THEOREM UnalignedStorePair ==
  ASSUME NEW i \in Inst, NEW j \in Inst, NEW f \in [Reg -> Word],
         i.op = "swl", j.op = "swr", Addr(i, f) = Addr(j, f) + 3
  PROVE  LET a == Addr(j, f)
         IN  /\ LanesOf(i, f) \cup LanesOf(j, f) = a .. a + 3
             /\ a % 4 # 0 => LanesOf(i, f) \cap LanesOf(j, f) = {}
<1> DEFINE a == Addr(j, f)
<1>1. a \in Int
  BY AddrType, WordIsInt
<1>2. /\ LanesOf(i, f) = (a + 3) - ((a + 3) % 4) .. a + 3
      /\ LanesOf(j, f) = a .. a - (a % 4) + 3
  BY DEF LanesOf
<1> HIDE DEF a
<1>3. PICK q \in Int, k \in 0 .. 3 : a = 4 * q + k /\ a % 4 = k
  BY <1>1
<1>4. CASE k = 0
  <2>1. (a + 3) % 4 = 3
    BY <1>1, <1>3, <1>4
  <2>2. LanesOf(i, f) = a .. a + 3 /\ LanesOf(j, f) = a .. a + 3
    BY <1>1, <1>2, <1>3, <1>4, <2>1
  <2>3. QED
    BY <1>3, <1>4, <2>2 DEF a
<1>5. CASE k # 0
  <2>1. (a + 3) % 4 = k - 1
    BY <1>1, <1>3, <1>5
  <2>2. LanesOf(i, f) = a - k + 4 .. a + 3 /\ LanesOf(j, f) = a .. a - k + 3
    BY <1>1, <1>2, <1>3, <2>1
  <2>3. /\ \A n : n \in LanesOf(i, f) \cup LanesOf(j, f) <=> n \in a .. a + 3
        /\ \A n : ~(n \in LanesOf(i, f) /\ n \in LanesOf(j, f))
    BY <1>1, <1>3, <1>5, <2>2
  <2>4. QED
    BY <2>3 DEF a
<1>6. QED
  BY <1>4, <1>5
================================================================================
