CONSTANTS
  MAX_INSN_LENGTH = 15
  BufferSize = 16
  Instructions <- MCInstructions
  Leading <- MCLeading
SPECIFICATION Spec
INVARIANTS DecodesWhatTheProcessorReads LengthIsRight OperandsAreContiguous
CHECK_DEADLOCK FALSE
