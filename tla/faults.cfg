CONSTANTS
  WordMod = 16
  SegMod = 8
  NumRegs = 3
  Fns = {"f"}
  Alu <- MCAlu
  MulDiv <- MCMulDiv
  LoadMerge <- MCLoadMerge
  Irqs = {}
  IRQ_STAT = 4
  IRQ_MASK = 12
  Insts <- FaultInsts
  MemVals = {6, 12}
  StatusInputs <- Isolation
  RESET_VECTOR = 0
  EXC_VECTOR = 8
SPECIFICATION Spec
INVARIANTS
  TypeOK
  IsolationCached
PROPERTIES
  ImplementsDelaySlots
  IsolatedStoresDropped
  FaultsArePrecise
