--------------------------- MODULE SchemaCompiler ---------------------------
(***************************************************************************)
(* compile_protocol(): from the definition of a protocol to the layouts    *)
(* the decoders and the encoders walk.                                     *)
(*                                                                         *)
(* A definition is a record of two sequences of layouts, structs and       *)
(* messages; a layout is [fields, rules, trailing].  Fields refer to each  *)
(* other and to structs by position instead of by name; 0 or a position    *)
(* out of range is a name that is not defined.  A float is its bits.  Bit  *)
(* fields, constants of floats and the uniqueness of names are left out.   *)
(***************************************************************************)
EXTENDS WireFormat

CONSTANTS
  MaxFields,           \* kMaxFieldsPerMessage
  MaxDenseSpan,        \* kMaxDenseVariantLookupSpan
  CompileStructs(_)    \* the structs of a definition compiled, by position (StructCompiler)

ASSUME CompilerAssumption == MaxFields \in Nat \ {0} /\ MaxDenseSpan \in Nat

\* ChecksumAnchorKind
AnchorKinds ==
  {"frame_start", "frame_end", "field_start", "field_end", "before_self", "after_self"}

\* FieldKind, the two floats being one.
FieldKinds ==
  {"unsigned", "signed", "enum", "float", "bytes", "string", "struct", "collection", "variant"}

\* A FieldDefinition nothing was set in.
FieldDefinition ==
  [kind |-> "unsigned", width |-> 1, order |-> "little", encoding |-> "ascii",
   size |-> 0, size_from |-> <<>>, type |-> 0, alignment |-> 0,
   reserved |-> FALSE, fill |-> 0, count |-> 0, count_from |-> <<>>,
   tag_from |-> <<>>, cases |-> <<>>, expect |-> <<>>,
   checksum |-> <<>>, condition |-> <<>>, presence |-> <<>>]

FieldDefinitions ==
  [kind : FieldKinds, width : Nat, order : STRING, encoding : STRING,
   size : Nat, size_from : Seq(Nat), type : Nat, alignment : Nat,
   reserved : BOOLEAN, fill : Bytes, count : Nat, count_from : Seq(Nat),
   tag_from : Seq(Nat), cases : Seq([tag : Nat, type : Nat]), expect : Seq(Nat),
   checksum : LET anchors == [kind : AnchorKinds, field : Nat]
              IN  Seq([width : Nat, from : anchors, to : anchors]),
   condition : Seq([field : Nat, equals : Nat]), presence : Seq([field : Nat, bit : Nat])]

IsScalar(field) == field.kind \in {"unsigned", "signed", "enum", "float"}
IsText(field) == field.kind \in {"bytes", "string"}
IsGated(field) == Has(field.condition) \/ Has(field.presence)
IsDynamic(field) == IsText(field) /\ Has(field.size_from)

MinimumContribution(field) ==
  IF IsGated(field) \/ IsDynamic(field) THEN 0
  ELSE IF IsScalar(field) THEN field.width ELSE field.size

Failed == [ok |-> FALSE]

-----------------------------------------------------------------------------
\* The checks of compile_layout on field i; types holds the compiled structs by
\* position, those that may be used here.

Compiled(types, t) == t \in DOMAIN types /\ types[t].ok

Unsigned(fields, ref) == ref \in DOMAIN fields /\ fields[ref].kind \in {"unsigned", "enum"}
Prior(fields, i, optional) == \A k \in DOMAIN optional :
                                optional[k] < i /\ Unsigned(fields, optional[k])

NoCount(field) == field.count = 0 /\ field.count_from = <<>>
NoCases(field) == field.tag_from = <<>> /\ field.cases = <<>>

TextAccepted(fields, i) ==
  LET field == fields[i]
  IN  /\ field.expect = <<>>
      /\ (field.size = 0) # (field.size_from = <<>>)
      /\ Prior(fields, i, field.size_from)
      /\ NoCount(field) /\ NoCases(field)
      /\ field.reserved => /\ field.kind = "bytes" /\ field.size > 0
                           /\ field.checksum = <<>> /\ ~IsGated(field)

StructAccepted(field, types) ==
  /\ field.expect = <<>> /\ field.size = 0 /\ field.size_from = <<>>
  /\ NoCount(field) /\ NoCases(field)
  /\ Compiled(types, field.type)

CollectionAccepted(fields, i, types) ==
  LET field == fields[i]
  IN  /\ (field.count = 0) # (field.count_from = <<>>)
      /\ field.expect = <<>> /\ field.checksum = <<>> /\ NoCases(field)
      /\ Compiled(types, field.type) /\ types[field.type].minimum_size > 0
      /\ Prior(fields, i, field.count_from)

\* The span of the tags is computed in a uint64_t.  If they span all its values it
\* is 0, and the first case is stored in a table that has no elements: undefined,
\* and in the build a write to a null pointer, so that nothing is compiled.
TagsFit(cases) == \A j, k \in DOMAIN cases : cases[j].tag - cases[k].tag + 1 < WordBase

VariantAccepted(fields, i, types) ==
  LET field == fields[i]
  IN  /\ Has(field.tag_from) /\ field.cases # <<>>
      /\ field.expect = <<>> /\ field.checksum = <<>>
      /\ field.size = 0 /\ field.size_from = <<>> /\ NoCount(field)
      /\ Prior(fields, i, field.tag_from)
      /\ \A k \in DOMAIN field.cases : Compiled(types, field.cases[k].type)
      /\ TagsFit(field.cases)

ScalarAccepted(field) ==
  /\ ~field.reserved /\ field.width \in ScalarWidths /\ NoCount(field) /\ NoCases(field)
  /\ field.kind = "float" => field.width \in FloatWidths

GateAccepted(fields, i) ==
  LET field == fields[i]
  IN  /\ Has(field.condition) => Prior(fields, i, <<field.condition[1].field>>)
      /\ Has(field.presence) =>
           LET gate == field.presence[1]
           IN  /\ Prior(fields, i, <<gate.field>>)
               /\ 2 ^ gate.bit < Values(fields[gate.field].width)

\* Checksums are resolved after the fields: an anchor may name any field.
AnchorAccepted(fields, anchor) ==
  anchor.kind \in {"field_start", "field_end"} => anchor.field \in DOMAIN fields

ChecksumAccepted(fields, i) ==
  Has(fields[i].checksum) =>
    LET checksum == fields[i].checksum[1]
    IN  /\ Unsigned(fields, i) /\ checksum.width = fields[i].width
        /\ AnchorAccepted(fields, checksum.from) /\ AnchorAccepted(fields, checksum.to)

FieldAccepted(fields, i, types) ==
  LET field == fields[i]
  IN  /\ \E k \in 0..field.alignment : field.alignment \in {0, 2 ^ k}
      /\ CASE IsText(field) -> TextAccepted(fields, i)
           [] field.kind = "struct" -> StructAccepted(field, types)
           [] field.kind = "collection" -> CollectionAccepted(fields, i, types)
           [] field.kind = "variant" -> VariantAccepted(fields, i, types)
           [] OTHER -> ScalarAccepted(field)
      /\ GateAccepted(fields, i)
      /\ ChecksumAccepted(fields, i)

RuleAccepted(fields, rule) ==
  /\ Unsigned(fields, rule.field) /\ rule.multiplier # 0
  /\ Has(rule.other) => Unsigned(fields, rule.other[1])
  /\ Has(rule.when) => Unsigned(fields, rule.when[1].field)

-----------------------------------------------------------------------------
\* What compile_layout makes of an accepted field.

\* The dense table from tag to case, when the tags span little enough; a later
\* case of the same tag replaces an earlier one.
DenseLookup(cases) ==
  LET low == cases[1].tag
      high == cases[Len(cases)].tag
      at(tag) == {k \in DOMAIN cases : cases[k].tag = tag}
  IN  IF high - low + 1 > MaxDenseSpan THEN <<>>
      ELSE <<[tag \in low .. high |->
               IF at(tag) = {} THEN 0 ELSE Max(at(tag))]>>

\* std::sort() by tag.  It leaves the order of equal tags open; the library's is an
\* insertion sort, which keeps them in order, up to 16 cases.
SortedCases(cases) ==
  LET inserted(sorted, case) ==
        LET k == SelectInSeq(sorted, LAMBDA other : other.tag > case.tag)
        IN  IF k = 0 THEN Append(sorted, case) ELSE InsertAt(sorted, k, case)
      upto[i \in 0..Len(cases)] ==
        IF i = 0 THEN <<>> ELSE inserted(upto[i - 1], cases[i])
  IN  upto[Len(cases)]

CompiledField(field, types) ==
  LET cases == SortedCases(field.cases)
      sizes == {types[field.cases[k].type].minimum_size : k \in DOMAIN field.cases}
      lookup == IF cases = <<>> THEN <<>> ELSE DenseLookup(cases)
      compiled == [field EXCEPT
        !.cases = cases,
        !.alignment = IF @ = 0 THEN 1 ELSE @,
        !.size = CASE field.kind = "struct" -> types[field.type].minimum_size
                   [] field.kind = "collection" -> field.count * types[field.type].minimum_size
                   [] field.kind = "variant" -> Min(sizes)
                   [] OTHER -> @]
  IN  [part \in DOMAIN field \cup {"lookup"} |->
         IF part = "lookup" THEN lookup ELSE compiled[part]]

HasFixedSize(field, types) ==
  /\ ~IsGated(field) /\ ~IsDynamic(field)
  /\ field.kind \in {"struct", "collection"} => types[field.type].fixed
  /\ field.kind = "collection" => field.count_from = <<>>
  /\ field.kind = "variant" =>
       \A k \in DOMAIN field.cases :
         /\ types[field.cases[k].type].fixed
         /\ types[field.cases[k].type].minimum_size = field.size

\* The padding is left out.
MinimumSize_Unaligned(fields) ==
  FoldLeft(LAMBDA size, field : size + MinimumContribution(field), 0, fields)

MinimumSize(fields) ==
  LET size[i \in 0..Len(fields)] ==
        IF i = 0 THEN 0
        ELSE IF IsGated(fields[i]) THEN size[i - 1]
        ELSE AlignUp(size[i - 1], fields[i].alignment) + MinimumContribution(fields[i])
  IN  size[Len(fields)]

\* The bytes of the expected constants the layout starts with, one after the other.
DispatchPrefix(fields) ==
  LET constant(field) == IsScalar(field) /\ Has(field.expect)
      leading == {n \in 0..Len(fields) : \A k \in 1..n : constant(fields[k])}
  IN  FlattenSeq([i \in 1..Max(leading) |->
        WriteUnsigned(fields[i].expect[1], fields[i].width, fields[i].order)])

\* before_self and after_self name the checksum field itself.
CompiledAnchor(anchor, self) ==
  [kind |-> anchor.kind,
   field |-> IF anchor.kind \in {"before_self", "after_self"} THEN self ELSE anchor.field]

CompiledChecksum(fields, i) ==
  LET checksum == fields[i].checksum[1]
  IN  [field |-> i, width |-> checksum.width,
       from |-> CompiledAnchor(checksum.from, i), to |-> CompiledAnchor(checksum.to, i)]

\* The checksums of a layout, in the order of their fields.
Checksums(fields) ==
  LET upto[i \in 0..Len(fields)] ==
        IF i = 0 THEN <<>>
        ELSE IF Has(fields[i].checksum) THEN Append(upto[i - 1], CompiledChecksum(fields, i))
        ELSE upto[i - 1]
  IN  upto[Len(fields)]

CompileLayout(layout, types) ==
  IF /\ Len(layout.fields) \in 1..MaxFields
     /\ \A i \in DOMAIN layout.fields : FieldAccepted(layout.fields, i, types)
     /\ \A k \in DOMAIN layout.rules : RuleAccepted(layout.fields, layout.rules[k])
  THEN LET fields == [i \in DOMAIN layout.fields |-> CompiledField(layout.fields[i], types)]
       IN  [ok |-> TRUE,
            fields |-> fields,
            checksums |-> Checksums(fields),
            rules |-> layout.rules,
            trailing |-> layout.trailing,
            minimum_size |-> MinimumSize(fields),
            fixed |-> \A i \in DOMAIN fields : HasFixedSize(fields[i], types),
            prefix |-> DispatchPrefix(fields)]
  ELSE Failed

-----------------------------------------------------------------------------
Compile(definition) ==
  LET structs == CompileStructs(definition)
      messages == [i \in DOMAIN definition.messages |->
                     CompileLayout(definition.messages[i], structs)]
  IN  IF /\ definition.messages # <<>>
         /\ \A t \in DOMAIN structs : structs[t].ok
         /\ \A i \in DOMAIN messages : messages[i].ok
      THEN [ok |-> TRUE, structs |-> structs, messages |-> messages]
      ELSE Failed

\* The messages tried for a frame, in their order: those whose prefix starts
\* with its first byte, and those without a prefix.
DispatchCandidates(protocol, frame) ==
  {i \in DOMAIN protocol.messages : /\ frame # <<>> /\ protocol.messages[i].prefix # <<>>
                                    /\ protocol.messages[i].prefix[1] = frame[1]}
FallbackCandidates(protocol) ==
  {i \in DOMAIN protocol.messages : protocol.messages[i].prefix = <<>>}

=============================================================================
