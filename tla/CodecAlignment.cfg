SPECIFICATION Spec
CONSTANTS
  ByteBase = 4
  ScalarWidths <- MCScalarWidths
  FloatWidths <- MCScalarWidths
  ShiftBits = 2
  MinCapacity = 3
  MaxFields = 4
  MaxDenseSpan = 2
  BufferSize = 5
  CompileStructs <- compile_structs
  DecodeNested <- decode_nested
  Definitions <- MCAlignmentDefinitions
  Numbers <- MCNumbers
  Payloads <- MCPayloads
  MaxFrame = 5
INVARIANT AlignedFramesDecode
CHECK_DEADLOCK FALSE
