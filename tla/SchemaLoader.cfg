SPECIFICATION FairSpec
CONSTANTS
  U8 = 256
  U32 = 4096
  U64 = 9000
  LowerCase <- MCLowerCase
  TypeWords <- MCTypeWords
  ImportWords <- MCImportWords
  Disks <- MCDisks
  Parse <- load_protocol_definition_impl
INVARIANTS
  LoadsWhatIsDeclared
  FormatsAgree
  ParserStaysInside
  CyclesAreRefused
  MergedOnce
PROPERTIES
  LoadsReturn
