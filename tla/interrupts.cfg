CONSTANTS
  WordMod = 16
  SegMod = 8
  NumRegs = 3
  Fns = {"f"}
  Alu <- MCAlu
  MulDiv <- MCMulDiv
  LoadMerge <- MCLoadMerge
  Irqs = {0}
  IRQ_STAT = 4
  IRQ_MASK = 12
  Insts <- TraceInsts
  MemVals = {6}
  StatusInputs <- TraceStatus
  RESET_VECTOR = 0
  EXC_VECTOR = 8
SPECIFICATION TraceSpec
INVARIANTS
  InterruptFlagSound
  LatchedOnlyWhenEnabled
PROPERTIES
  RfeUndoesException
  InterruptServed
  InterruptLatency
  EpcNamesRestart
  TarNamesTarget
