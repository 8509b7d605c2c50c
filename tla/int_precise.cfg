CONSTANTS
  WordMod = 16
  SegMod = 8
  NumRegs = 3
  Fns = {"f"}
  Alu <- MCAlu
  MulDiv <- MCMulDiv
  LoadMerge <- MCLoadMerge
  Irqs = {0}
  IRQ_STAT = 4
  IRQ_MASK = 12
  Insts <- InterruptInsts
  MemVals = {4, 12}
  StatusInputs <- StatusValues
  RESET_VECTOR = 0
  EXC_VECTOR = 8
SPECIFICATION Spec
PROPERTIES
  InterruptIsPrecise
