SPECIFICATION Spec
CONSTANTS
  ByteBase = 4
  ScalarWidths <- MCScalarWidths
  FloatWidths <- MCScalarWidths
  ShiftBits = 2
  MinCapacity = 3
  MaxFields = 4
  MaxDenseSpan = 2
  BufferSize = 5
  CompileStructs <- compile_structs
  DecodeNested <- decode_nested
  Definitions <- MCDefinitions
  Numbers <- MCNumbers
  Payloads <- MCPayloads
  MaxFrame = 5
INVARIANT BuildersAgree
INVARIANT BuiltFramesDecode
INVARIANT DispatchComplete
INVARIANT SizeBounds
INVARIANT AccessorsTotal
INVARIANT LanguagesAgree
CHECK_DEADLOCK FALSE
