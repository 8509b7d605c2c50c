CONSTANTS
  WordMod = 16
  SegMod = 8
  NumRegs = 3
  Fns = {"f"}
  Alu <- MCAlu
  MulDiv <- MCMulDiv
  LoadMerge <- MCLoadMerge
  Irqs = {0}
  IRQ_STAT = 4
  IRQ_MASK = 12
  Insts <- KernelInsts
  MemVals = {12}
  StatusInputs <- Enabled
  RESET_VECTOR = 0
  EXC_VECTOR = 8
  GP = 1
  SP = 2
  Exes <- MCExes
  Leftovers <- MCLeftovers
SPECIFICATION PsxSpec
INVARIANTS
  PsxTypeOK
  LatchedOnlyWhenEnabled
  NextPcFollows
  ResetSettles
PROPERTIES
  RunsAreDelaySlots
