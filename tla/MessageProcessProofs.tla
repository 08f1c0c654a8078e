------------------------ MODULE MessageProcessProofs ------------------------
(***************************************************************************)
(* Proofs about MessageProcess, for every set of definitions, for all      *)
(* payloads, numbers and sizes of the buffers.                             *)
(*                                                                         *)
(* BuildersAgree is an invariant: the segments joined are the bytes of the *)
(* buffer after every step of a call, also when a checksum is written into *)
(* the middle of them.  So is DispatchComplete: a frame that decodes as a  *)
(* message begins with the prefix the message is filed under.  So is       *)
(* SizeBounds: a frame that decodes has the bytes the compiler counted,    *)
(* the structs nested in it before it, in the order of their ranks.        *)
(***************************************************************************)
EXTENDS MessageProcess, SequenceTheorems, NaturalsInduction,
        WellFoundedInduction, TLAPS

-----------------------------------------------------------------------------
\* A set of numbers that is not empty has a least one.
LEMMA LeastNumber ==
  ASSUME NEW S \in SUBSET Nat, S # {}
  PROVE  \E n \in S : \A m \in S : n <= m
<1>. DEFINE R == OpToRel(<, Nat)
<1>1. \A i, j \in Nat : i < j => <<i, j>> \in R
  BY DEF OpToRel
<1>2. IsWellFoundedOn(R, Nat)
  BY NatLessThanWellFounded
<1>. HIDE DEF R
<1>3. PICK n \in S : \A m \in S : <<m, n>> \notin R
  BY <1>2, WFMin
<1>. WITNESS n \in S
<1>. SUFFICES ASSUME NEW m \in S PROVE n <= m
  OBVIOUS
<1>4. ~(m < n)
  BY <1>1, <1>3
<1>. QED
  BY <1>4

\* Induction over the members of a set.
LEMMA Induction ==
  ASSUME NEW S, 0 \in S, \A n \in Nat : n \in S => n + 1 \in S
  PROVE  \A n \in Nat : n \in S
<1>. SUFFICES ASSUME Nat \ S # {} PROVE FALSE
  OBVIOUS
<1>1. PICK n \in Nat \ S : \A m \in Nat \ S : n <= m
  BY LeastNumber
<1>2. n # 0 /\ n - 1 \in Nat /\ n - 1 \in S
  BY <1>1
<1>. QED
  BY <1>2

\* The checksums of the first fields, and of them with one more (compile_layout() collects them).
ChecksumsUpto(fields, m, f) ==
  f = [i \in 0..m |-> IF i = 0 THEN <<>>
                      ELSE IF Has(fields[i].checksum)
                           THEN Append(f[i - 1], CompiledChecksum(fields, i))
                      ELSE f[i - 1]]

\* There is such a list for every number of fields.
LEMMA ChecksumsUptoExist ==
  ASSUME NEW fields, NEW n \in Nat
  PROVE  \E f : ChecksumsUpto(fields, n, f)
<1>. DEFINE S == {m \in Nat : \E f : ChecksumsUpto(fields, m, f)}
<1>1. 0 \in S
  <2>1. ChecksumsUpto(fields, 0, [i \in 0..0 |-> <<>>])
    BY DEF ChecksumsUpto
  <2>. QED
    BY <2>1
<1>2. ASSUME NEW m \in Nat, m \in S PROVE m + 1 \in S
  <2>1. PICK f : ChecksumsUpto(fields, m, f)
    BY <1>2
  <2>. DEFINE next == IF Has(fields[m + 1].checksum)
                      THEN Append(f[m], CompiledChecksum(fields, m + 1)) ELSE f[m]
              g == [i \in 0..(m + 1) |-> IF i = m + 1 THEN next ELSE f[i]]
              h == [i \in 0..(m + 1) |-> IF i = 0 THEN <<>>
                      ELSE IF Has(fields[i].checksum)
                           THEN Append(g[i - 1], CompiledChecksum(fields, i))
                      ELSE g[i - 1]]
  <2>2. ASSUME NEW i \in 0..(m + 1) PROVE g[i] = h[i]
    <3>1. CASE i = m + 1
      <4>1. g[m] = f[m] /\ i - 1 = m
        BY <3>1
      <4>. QED
        BY <3>1, <4>1
    <3>2. CASE i # m + 1
      <4>1. i \in 0..m /\ (i # 0 => i - 1 \in 0..m /\ g[i - 1] = f[i - 1])
        BY <3>2
      <4>2. f[i] = IF i = 0 THEN <<>>
                   ELSE IF Has(fields[i].checksum)
                        THEN Append(f[i - 1], CompiledChecksum(fields, i))
                   ELSE f[i - 1]
        BY <2>1, <4>1 DEF ChecksumsUpto
      <4>. QED
        BY <3>2, <4>1, <4>2
    <3>. QED
      BY <3>1, <3>2
  <2>3. g = h
    BY <2>2
  <2>4. ChecksumsUpto(fields, m + 1, g)
    BY <2>3 DEF ChecksumsUpto
  <2>. QED
    BY <2>4
<1>. HIDE DEF S
<1>3. \A m \in Nat : m \in S
  BY <1>1, <1>2, Induction
<1>. QED
  BY <1>3 DEF S

\* A checksum that was made of a field that has one.
ChecksumOf(fields, i, sum) ==
  i \in DOMAIN fields /\ Has(fields[i].checksum) /\ sum = CompiledChecksum(fields, i)

\* Every checksum of a compiled layout was made of a field of it.
LEMMA ChecksumsAreOfFields ==
  ASSUME NEW fields, DOMAIN fields = 1..Len(fields), Len(fields) \in Nat
  PROVE  /\ Len(Checksums(fields)) \in Nat
         /\ \A k \in 1..Len(Checksums(fields)) :
              /\ Checksums(fields)[k].field \in DOMAIN fields
              /\ Has(fields[Checksums(fields)[k].field].checksum)
              /\ ChecksumOf(fields, Checksums(fields)[k].field, Checksums(fields)[k])
<1>1. PICK f : ChecksumsUpto(fields, Len(fields), f)
  BY ChecksumsUptoExist
<1>2. PICK g : ChecksumsUpto(fields, Len(fields), g) /\ Checksums(fields) = g[Len(fields)]
  <2>. DEFINE c == CHOOSE u : ChecksumsUpto(fields, Len(fields), u)
  <2>1. ChecksumsUpto(fields, Len(fields), c)
    BY <1>1
  <2>2. Checksums(fields) = c[Len(fields)]
    BY DEF Checksums, ChecksumsUpto
  <2>. QED
    BY <2>1, <2>2
<1>. DEFINE Sums == {[field |-> i, width |-> fields[i].checksum[1].width,
                       from |-> CompiledAnchor(fields[i].checksum[1].from, i),
                       to |-> CompiledAnchor(fields[i].checksum[1].to, i)] :
                      i \in {j \in DOMAIN fields : Has(fields[j].checksum)}}
            S == {m \in Nat : m <= Len(fields) => g[m] \in Seq(Sums)}
<1>3. 0 \in S
  BY <1>2 DEF ChecksumsUpto
<1>4. ASSUME NEW m \in Nat, m \in S PROVE m + 1 \in S
  <2>. SUFFICES ASSUME m + 1 <= Len(fields) PROVE g[m + 1] \in Seq(Sums)
    OBVIOUS
  <2>1. g[m] \in Seq(Sums)
    BY <1>4
  <2>2. g[m + 1] = IF Has(fields[m + 1].checksum)
                   THEN Append(g[m], CompiledChecksum(fields, m + 1)) ELSE g[m]
    <3>1. m + 1 \in 0..Len(fields) /\ m + 1 # 0 /\ (m + 1) - 1 = m
      OBVIOUS
    <3>. QED
      BY <3>1, <1>2 DEF ChecksumsUpto
  <2>3. CASE Has(fields[m + 1].checksum)
    <3>1. CompiledChecksum(fields, m + 1) \in Sums
      BY <2>3 DEF CompiledChecksum
    <3>. HIDE DEF Sums
    <3>. QED
      BY <2>1, <2>2, <2>3, <3>1
  <2>. QED
    BY <2>1, <2>2, <2>3
<1>. HIDE DEF S
<1>5. \A m \in Nat : m \in S
  BY <1>3, <1>4, Induction
<1>6. Checksums(fields) \in Seq(Sums)
  BY <1>2, <1>5 DEF S
<1>. HIDE DEF Sums
<1>7. /\ Len(Checksums(fields)) \in Nat
      /\ \A k \in 1..Len(Checksums(fields)) : Checksums(fields)[k] \in Sums
  BY <1>6
<1>8. \A sum \in Sums : /\ sum.field \in DOMAIN fields /\ Has(fields[sum.field].checksum)
                        /\ ChecksumOf(fields, sum.field, sum)
  BY DEF Sums, ChecksumOf, CompiledChecksum
<1>. QED
  BY <1>7, <1>8

-----------------------------------------------------------------------------

\* What the builders rely on in a field and in a layout.
FieldFits(field) ==
  /\ field.width \in Nat /\ field.size \in Nat /\ field.alignment \in Nat
  /\ Has(field.checksum) => field.kind \in {"unsigned", "enum"}

Fits(layout) ==
  /\ DOMAIN layout.fields = 1..Len(layout.fields) /\ Len(layout.fields) \in 1..MaxFields
  /\ \A i \in DOMAIN layout.fields : FieldFits(layout.fields[i])
  /\ Len(layout.checksums) \in Nat
  /\ \A k \in 1..Len(layout.checksums) :
       /\ layout.checksums[k].field \in DOMAIN layout.fields
       /\ Has(layout.fields[layout.checksums[k].field].checksum)

\* A field the compiler accepts is compiled to one the builders can rely on.
LEMMA CompiledFieldFits ==
  ASSUME NEW fields \in Seq(FieldDefinitions), NEW i \in DOMAIN fields, NEW types,
         \A t \in DOMAIN types : types[t].ok => types[t].minimum_size \in Nat,
         FieldAccepted(fields, i, types)
  PROVE  FieldFits(CompiledField(fields[i], types))
<1>. DEFINE field == fields[i]
            sizes == {types[field.cases[k].type].minimum_size : k \in DOMAIN field.cases}
            size == CASE field.kind = "struct" -> types[field.type].minimum_size
                      [] field.kind = "collection" -> field.count * types[field.type].minimum_size
                      [] field.kind = "variant" -> Min(sizes)
                      [] OTHER -> field.size
            compiled == CompiledField(field, types)
<1>1. field \in FieldDefinitions
  OBVIOUS
<1>2. /\ field.width \in Nat /\ field.size \in Nat /\ field.alignment \in Nat
      /\ field.count \in Nat /\ field.cases \in Seq([tag : Nat, type : Nat])
      /\ {"width", "size", "alignment", "kind", "checksum", "cases"} \subseteq DOMAIN field
  BY <1>1 DEF FieldDefinitions
<1>. HIDE DEF field
<1>3. /\ compiled.width = field.width /\ compiled.kind = field.kind
      /\ compiled.checksum = field.checksum /\ compiled.size = size
      /\ compiled.alignment = (IF field.alignment = 0 THEN 1 ELSE field.alignment)
  BY <1>2 DEF CompiledField
<1>4. size \in Nat
  <2>1. CASE field.kind = "struct"
    <3>1. Compiled(types, field.type)
      BY <2>1 DEF FieldAccepted, StructAccepted, IsText, field
    <3>. QED
      BY <2>1, <3>1 DEF Compiled
  <2>2. CASE field.kind = "collection"
    <3>1. Compiled(types, field.type)
      BY <2>2 DEF FieldAccepted, CollectionAccepted, IsText, field
    <3>2. \A a, b \in Nat : a * b \in Nat
      OBVIOUS
    <3>. QED
      BY <1>2, <2>2, <3>1, <3>2 DEF Compiled
  <2>3. CASE field.kind = "variant"
    <3>1. field.cases # <<>> /\ \A k \in DOMAIN field.cases : Compiled(types, field.cases[k].type)
      BY <2>3 DEF FieldAccepted, VariantAccepted, IsText, field
    <3>2. sizes \in SUBSET Nat
      BY <3>1 DEF Compiled
    <3>3. 1 \in DOMAIN field.cases
      BY <1>2, <3>1
    <3>4. types[field.cases[1].type].minimum_size \in sizes
      BY <3>3
    <3>5. \E n \in sizes : \A m \in sizes : n <= m
      BY <3>2, <3>4, LeastNumber
    <3>6. Min(sizes) \in sizes
      BY <3>5 DEF Min
    <3>. QED
      BY <2>3, <3>2, <3>6
  <2>. QED
    BY <1>2, <2>1, <2>2, <2>3
<1>5. Has(field.checksum) => field.kind \in {"unsigned", "enum"}
  BY DEF FieldAccepted, ChecksumAccepted, Unsigned, field
<1>. HIDE DEF size, compiled
<1>6. FieldFits(compiled)
  BY <1>2, <1>3, <1>4, <1>5 DEF FieldFits
<1>. QED
  BY <1>6 DEF compiled, field

\* So is a layout.
LEMMA CompiledLayoutFits ==
  ASSUME NEW layout, layout.fields \in Seq(FieldDefinitions), NEW types,
         \A t \in DOMAIN types : types[t].ok => types[t].minimum_size \in Nat,
         CompileLayout(layout, types).ok
  PROVE  Fits(CompileLayout(layout, types))
<1>. DEFINE fields == [i \in DOMAIN layout.fields |-> CompiledField(layout.fields[i], types)]
            compiled == CompileLayout(layout, types)
<1>1. /\ Len(layout.fields) \in 1..MaxFields
      /\ \A i \in DOMAIN layout.fields : FieldAccepted(layout.fields, i, types)
  BY DEF CompileLayout, Failed
<1>2. compiled.fields = fields /\ compiled.checksums = Checksums(fields)
  BY <1>1 DEF CompileLayout, Failed
<1>3. DOMAIN fields = 1..Len(layout.fields) /\ Len(fields) = Len(layout.fields)
  <2>. DEFINE n == Len(layout.fields)
  <2>1. DOMAIN fields = 1..n /\ n \in Nat
    OBVIOUS
  <2>. HIDE DEF n
  <2>2. fields \in Seq({fields[i] : i \in 1..n})
    BY <2>1
  <2>. QED
    BY <2>1, <2>2 DEF n
<1>4. \A i \in DOMAIN fields : FieldFits(fields[i])
  BY <1>1, CompiledFieldFits
<1>. HIDE DEF fields, compiled
<1>5. /\ Len(Checksums(fields)) \in Nat
      /\ \A k \in 1..Len(Checksums(fields)) :
           /\ Checksums(fields)[k].field \in DOMAIN fields
           /\ Has(fields[Checksums(fields)[k].field].checksum)
  BY <1>1, <1>3, ChecksumsAreOfFields
<1>6. Fits(compiled)
  BY <1>1, <1>2, <1>3, <1>4, <1>5 DEF Fits
<1>. QED
  BY <1>6 DEF compiled

\* So is every message of a protocol that compiles.
LEMMA ProtocolsFit ==
  ASSUME NEW definition \in Definitions, Compile(definition).ok,
         NEW i \in DOMAIN Compile(definition).messages
  PROVE  Fits(Compile(definition).messages[i])
<1>. DEFINE structs == CompileStructs(definition)
            messages == [k \in DOMAIN definition.messages |->
                           CompileLayout(definition.messages[k], structs)]
<1>1. /\ \A k \in DOMAIN messages : messages[k].ok
      /\ Compile(definition).messages = messages
  BY DEF Compile, Failed
<1>2. i \in DOMAIN definition.messages /\ messages[i] = CompileLayout(definition.messages[i], structs)
  BY <1>1
<1>3. /\ definition.messages[i].fields \in Seq(FieldDefinitions)
      /\ \A t \in DOMAIN structs : structs[t].ok => structs[t].minimum_size \in Nat
  BY <1>2, DefinitionAssumption DEF DefinitionAssumption
<1>4. CompileLayout(definition.messages[i], structs).ok
  BY <1>1, <1>2
<1>5. Compile(definition).messages[i] = CompileLayout(definition.messages[i], structs)
  BY <1>1, <1>2
<1>. HIDE DEF structs, messages
<1>6. Fits(CompileLayout(definition.messages[i], structs))
  BY <1>3, <1>4, CompiledLayoutFits
<1>. QED
  BY <1>5, <1>6

-----------------------------------------------------------------------------

\* The first segments of a list, joined one after the other.
FlattenedUpto(segs, m, f) ==
  f = [i \in 1..m |-> IF i = 1 THEN segs[i] ELSE f[i - 1] \o segs[i]]

\* There is such a joining for every number of segments.
LEMMA FlattenedUptoExists ==
  ASSUME NEW segs, NEW n \in Nat
  PROVE  \E f : FlattenedUpto(segs, n, f)
<1>. DEFINE S == {m \in Nat : \E f : FlattenedUpto(segs, m, f)}
<1>1. 0 \in S
  <2>. DEFINE f == [i \in 1..0 |-> <<>>]
  <2>1. f = [i \in 1..0 |-> IF i = 1 THEN segs[i] ELSE f[i - 1] \o segs[i]]
    OBVIOUS
  <2>2. FlattenedUpto(segs, 0, f)
    BY <2>1 DEF FlattenedUpto
  <2>. QED
    BY <2>2
<1>2. ASSUME NEW m \in Nat, m \in S PROVE m + 1 \in S
  <2>1. PICK f : FlattenedUpto(segs, m, f)
    BY <1>2
  <2>. DEFINE next == IF m = 0 THEN segs[m + 1] ELSE f[m] \o segs[m + 1]
              g == [i \in 1..(m + 1) |-> IF i = m + 1 THEN next ELSE f[i]]
              h == [i \in 1..(m + 1) |-> IF i = 1 THEN segs[i] ELSE g[i - 1] \o segs[i]]
  <2>2. ASSUME NEW i \in 1..(m + 1) PROVE g[i] = h[i]
    <3>1. CASE i = m + 1
      <4>1. (i = 1 <=> m = 0) /\ (m # 0 => m \in 1..(m + 1) /\ i - 1 = m /\ g[m] = f[m])
        BY <3>1
      <4>. QED
        BY <3>1, <4>1
    <3>2. CASE i # m + 1
      <4>1. i \in 1..m /\ (i # 1 => i - 1 \in 1..m /\ g[i - 1] = f[i - 1])
        BY <3>2
      <4>2. f[i] = IF i = 1 THEN segs[i] ELSE f[i - 1] \o segs[i]
        BY <2>1, <4>1 DEF FlattenedUpto
      <4>. QED
        BY <3>2, <4>1, <4>2
    <3>. QED
      BY <3>1, <3>2
  <2>3. g = h
    BY <2>2
  <2>4. FlattenedUpto(segs, m + 1, g)
    BY <2>3 DEF FlattenedUpto
  <2>. QED
    BY <2>4
<1>. HIDE DEF S
<1>3. \A m \in Nat : m \in S
  BY <1>1, <1>2, Induction
<1>. QED
  BY <1>3 DEF S

\* FlattenSeq joins the segments one after the other.
LEMMA FlattenedByParts ==
  ASSUME NEW segs, Len(segs) \in Nat, Len(segs) # 0
  PROVE  \E f : FlattenedUpto(segs, Len(segs), f) /\ FlattenSeq(segs) = f[Len(segs)]
<1>. DEFINE c == CHOOSE u : FlattenedUpto(segs, Len(segs), u)
<1>1. \E u : FlattenedUpto(segs, Len(segs), u)
  BY FlattenedUptoExists
<1>2. FlattenedUpto(segs, Len(segs), c)
  BY <1>1
<1>3. FlattenSeq(segs) = c[Len(segs)]
  BY DEF FlattenSeq, FlattenedUpto
<1>. QED
  BY <1>2, <1>3

\* Two lists that begin alike are joined alike as far.
LEMMA FlattenedAlike ==
  ASSUME NEW segs, NEW more, NEW f, NEW g, NEW m \in Nat \ {0},
         FlattenedUpto(segs, m, f), FlattenedUpto(more, m + 1, g),
         \A i \in 1..m : more[i] = segs[i]
  PROVE  f[m] = g[m]
<1>. DEFINE S == {k \in Nat : k \in 1..m => f[k] = g[k]}
<1>1. 0 \in S
  OBVIOUS
<1>2. ASSUME NEW k \in Nat, k \in S PROVE k + 1 \in S
  <2>. SUFFICES ASSUME k + 1 \in 1..m PROVE f[k + 1] = g[k + 1]
    OBVIOUS
  <2>1. k + 1 \in 1..(m + 1) /\ (k + 1) - 1 = k /\ (k + 1 # 1 => k \in 1..m)
    OBVIOUS
  <2>. DEFINE i == k + 1
  <2>2. f[k + 1] = IF k + 1 = 1 THEN segs[k + 1] ELSE f[k] \o segs[k + 1]
    <3>1. i \in 1..m /\ i - 1 = k
      BY <2>1
    <3>. HIDE DEF i
    <3>2. f[i] = IF i = 1 THEN segs[i] ELSE f[i - 1] \o segs[i]
      BY <3>1, Zenon DEF FlattenedUpto
    <3>. QED
      BY <3>1, <3>2 DEF i
  <2>3. g[k + 1] = IF k + 1 = 1 THEN more[k + 1] ELSE g[k] \o more[k + 1]
    BY <2>1 DEF FlattenedUpto
  <2>4. k + 1 # 1 => f[k] = g[k]
    BY <1>2, <2>1
  <2>. QED
    BY <2>2, <2>3, <2>4
<1>. HIDE DEF S
<1>3. \A k \in Nat : k \in S
  BY <1>1, <1>2, Induction
<1>. QED
  BY <1>3 DEF S

\* Lists of bytes are joined to a list of bytes.
LEMMA FlattenSeqType ==
  ASSUME NEW V, NEW segs \in Seq(Seq(V))
  PROVE  FlattenSeq(segs) \in Seq(V)
<1>1. CASE Len(segs) = 0
  <2>1. segs = <<>>
    BY <1>1
  <2>. QED
    BY <1>1, <2>1 DEF FlattenSeq
<1>2. CASE Len(segs) # 0
  <2>1. PICK f : FlattenedUpto(segs, Len(segs), f) /\ FlattenSeq(segs) = f[Len(segs)]
    BY <1>2, FlattenedByParts
  <2>. DEFINE S == {k \in Nat : k \in 1..Len(segs) => f[k] \in Seq(V)}
  <2>2. 0 \in S
    OBVIOUS
  <2>3. ASSUME NEW k \in Nat, k \in S PROVE k + 1 \in S
    <3>. SUFFICES ASSUME k + 1 \in 1..Len(segs) PROVE f[k + 1] \in Seq(V)
      OBVIOUS
    <3>1. (k + 1) - 1 = k /\ (k + 1 # 1 => k \in 1..Len(segs))
      OBVIOUS
    <3>2. f[k + 1] = IF k + 1 = 1 THEN segs[k + 1] ELSE f[k] \o segs[k + 1]
      BY <2>1, <3>1 DEF FlattenedUpto
    <3>3. segs[k + 1] \in Seq(V)
      OBVIOUS
    <3>4. k + 1 # 1 => f[k] \in Seq(V)
      BY <2>3, <3>1
    <3>5. k + 1 # 1 => f[k] \o segs[k + 1] \in Seq(V)
      BY <3>3, <3>4, ConcatProperties
    <3>. QED
      BY <3>2, <3>3, <3>5
  <2>. HIDE DEF S
  <2>4. \A k \in Nat : k \in S
    BY <2>2, <2>3, Induction
  <2>5. Len(segs) \in Nat /\ Len(segs) \in 1..Len(segs)
    BY <1>2
  <2>. QED
    BY <2>1, <2>4, <2>5 DEF S
<1>. QED
  BY <1>1, <1>2

\* A segment that is appended comes at the end of the joined bytes.
LEMMA FlattenAppend ==
  ASSUME NEW V, NEW segs \in Seq(Seq(V)), NEW bytes \in Seq(V)
  PROVE  FlattenSeq(Append(segs, bytes)) = FlattenSeq(segs) \o bytes
<1>. DEFINE more == Append(segs, bytes)  n == Len(segs)
<1>1. /\ more \in Seq(Seq(V)) /\ Len(more) = n + 1 /\ more[n + 1] = bytes
      /\ \A i \in 1..n : more[i] = segs[i]
  BY AppendProperties
<1>2. n \in Nat
  OBVIOUS
<1>. HIDE DEF more, n
<1>3. PICK g : FlattenedUpto(more, n + 1, g) /\ FlattenSeq(more) = g[n + 1]
  BY <1>1, <1>2, FlattenedByParts
<1>4. g[n + 1] = IF n = 0 THEN bytes ELSE g[n] \o bytes
  <2>1. n + 1 \in 1..(n + 1) /\ (n + 1) - 1 = n /\ (n + 1 = 1 <=> n = 0)
    BY <1>2
  <2>. QED
    BY <1>1, <1>3, <2>1 DEF FlattenedUpto
<1>5. CASE n = 0
  <2>1. segs = <<>>
    BY <1>5 DEF n
  <2>2. FlattenSeq(segs) = <<>>
    BY <2>1 DEF FlattenSeq
  <2>3. <<>> \o bytes = bytes
    BY ConcatEmptySeq
  <2>. QED
    BY <1>3, <1>4, <1>5, <2>2, <2>3 DEF more
<1>6. CASE n # 0
  <2>1. PICK f : FlattenedUpto(segs, n, f) /\ FlattenSeq(segs) = f[n]
    BY <1>2, <1>6, FlattenedByParts DEF n
  <2>3. f[n] = g[n]
    <3>1. \A i \in 1..n : more[i] = segs[i]
      BY <1>1
    <3>2. FlattenedUpto(segs, n, f)
      BY <2>1
    <3>3. FlattenedUpto(more, n + 1, g)
      BY <1>3
    <3>4. n \in Nat \ {0}
      BY <1>2, <1>6
    <3>. HIDE DEF FlattenedUpto
    <3>. QED
      BY <3>1, <3>2, <3>3, <3>4, FlattenedAlike
  <2>. QED
    BY <1>3, <1>4, <1>6, <2>1, <2>3 DEF more
<1>. QED
  BY <1>5, <1>6

\* Concatenation, by the members of the two lists.
LEMMA Concatenated ==
  ASSUME NEW V, NEW s \in Seq(V), NEW t \in Seq(V), NEW a, NEW b, Len(s) = a, Len(t) = b
  PROVE  /\ s \o t \in Seq(V) /\ Len(s \o t) = a + b
         /\ \A i \in 1..(a + b) : (s \o t)[i] = IF i <= a THEN s[i] ELSE t[i - a]
BY ConcatProperties

\* What replaces bytes of a list and what stays.
LEMMA OverwriteProperties ==
  ASSUME NEW V, NEW bytes \in Seq(V), NEW patch \in Seq(V), NEW offset \in Nat,
         offset + Len(patch) <= Len(bytes)
  PROVE  /\ Overwrite(bytes, offset, patch) \in Seq(V)
         /\ Len(Overwrite(bytes, offset, patch)) = Len(bytes)
         /\ \A i \in 1..Len(bytes) :
              Overwrite(bytes, offset, patch)[i] =
                IF i <= offset \/ i > offset + Len(patch) THEN bytes[i] ELSE patch[i - offset]
<1>. DEFINE n == Len(bytes)  p == Len(patch)
            before == SubSeq(bytes, 1, offset)
            after == SubSeq(bytes, offset + p + 1, n)
<1>1. n \in Nat /\ p \in Nat /\ offset + p <= n
  OBVIOUS
<1>2. \A i \in 1..n : bytes[i] \in V
  OBVIOUS
<1>. HIDE DEF n, p
<1>3. /\ before \in Seq(V) /\ Len(before) = offset
      /\ \A i \in 1..offset : before[i] = bytes[i]
  <2>1. \A i \in 1..offset : bytes[i] \in V
    BY <1>1, <1>2
  <2>2. /\ before \in Seq(V) /\ Len(before) = IF 1 <= offset THEN offset - 1 + 1 ELSE 0
        /\ \A i \in 1..(offset - 1 + 1) : before[i] = bytes[1 + i - 1]
    BY <2>1, SubSeqProperties
  <2>. QED
    BY <2>2
<1>4. /\ after \in Seq(V) /\ Len(after) = n - (offset + p)
      /\ \A i \in 1..(n - (offset + p)) : after[i] = bytes[offset + p + i]
  <2>1. \A i \in (offset + p + 1)..n : bytes[i] \in V
    BY <1>1, <1>2
  <2>2. offset + p + 1 \in Int /\ n \in Int
    BY <1>1
  <2>3. /\ after \in Seq(V)
        /\ Len(after) = IF offset + p + 1 <= n THEN n - (offset + p + 1) + 1 ELSE 0
        /\ \A i \in 1..(n - (offset + p + 1) + 1) : after[i] = bytes[(offset + p + 1) + i - 1]
    BY <2>1, <2>2, SubSeqProperties
  <2>. QED
    BY <1>1, <2>3, SMTT(30)
<1>. HIDE DEF before, after
<1>5. /\ before \o patch \in Seq(V) /\ Len(before \o patch) = offset + p
      /\ \A i \in 1..(offset + p) :
           (before \o patch)[i] = IF i <= offset THEN before[i] ELSE patch[i - offset]
  BY <1>3, ConcatProperties DEF p
<1>. DEFINE start == before \o patch
<1>. HIDE DEF start
<1>6. /\ start \o after \in Seq(V) /\ Len(start \o after) = n
      /\ \A i \in 1..n :
           (start \o after)[i] = IF i <= offset + p THEN start[i] ELSE after[i - (offset + p)]
  <2>1. start \in Seq(V) /\ Len(start) = offset + p
    BY <1>5 DEF start
  <2>2. after \in Seq(V) /\ Len(after) = n - (offset + p)
    BY <1>4
  <2>3. /\ start \o after \in Seq(V) /\ Len(start \o after) = (offset + p) + (n - (offset + p))
        /\ \A i \in 1..((offset + p) + (n - (offset + p))) :
             (start \o after)[i] = IF i <= offset + p THEN start[i] ELSE after[i - (offset + p)]
    BY <2>1, <2>2, Concatenated, SMTT(30)
  <2>4. (offset + p) + (n - (offset + p)) = n
    BY <1>1
  <2>. QED
    BY <2>3, <2>4
<1>7. Overwrite(bytes, offset, patch) = start \o after
  BY DEF Overwrite, Rest, start, before, after, n, p
<1>8. ASSUME NEW i \in 1..n
      PROVE  (start \o after)[i] =
               IF i <= offset \/ i > offset + p THEN bytes[i] ELSE patch[i - offset]
  <2>1. CASE i <= offset
    <3>1. i \in 1..offset /\ i \in 1..(offset + p) /\ i <= offset + p
      BY <1>1, <2>1
    <3>. QED
      BY <1>3, <1>5, <1>6, <2>1, <3>1 DEF start
  <2>2. CASE i > offset /\ i <= offset + p
    <3>1. i \in 1..(offset + p) /\ ~(i <= offset) /\ ~(i > offset + p)
      BY <1>1, <2>2
    <3>. QED
      BY <1>5, <1>6, <2>2, <3>1 DEF start
  <2>3. CASE i > offset + p
    <3>1. i - (offset + p) \in 1..(n - (offset + p)) /\ ~(i <= offset + p)
          /\ offset + p + (i - (offset + p)) = i
      BY <1>1, <2>3
    <3>. QED
      BY <1>4, <1>6, <2>3, <3>1
  <2>4. i <= offset \/ (i > offset /\ i <= offset + p) \/ i > offset + p
    BY <1>1
  <2>. QED
    BY <2>1, <2>2, <2>3, <2>4
<1>. QED
  BY <1>6, <1>7, <1>8 DEF n, p

\* The end of a list replaced.
LEMMA OverwriteEnd ==
  ASSUME NEW V, NEW s \in Seq(V), NEW t \in Seq(V), NEW patch \in Seq(V), Len(patch) = Len(t)
  PROVE  Overwrite(s \o t, Len(s), patch) = s \o patch
<1>. DEFINE a == Len(s)  b == Len(t)  whole == s \o t  written == Overwrite(whole, a, patch)
<1>1. a \in Nat /\ b \in Nat /\ Len(patch) = b
  OBVIOUS
<1>2. /\ whole \in Seq(V) /\ Len(whole) = a + b
      /\ \A i \in 1..(a + b) : whole[i] = IF i <= a THEN s[i] ELSE t[i - a]
  BY Concatenated
<1>3. /\ s \o patch \in Seq(V) /\ Len(s \o patch) = a + b
      /\ \A i \in 1..(a + b) : (s \o patch)[i] = IF i <= a THEN s[i] ELSE patch[i - a]
  BY <1>1, Concatenated
<1>. HIDE DEF a, b, whole
<1>4. a + Len(patch) <= Len(whole)
  BY <1>1, <1>2
<1>5. /\ written \in Seq(V) /\ Len(written) = Len(whole)
      /\ \A i \in 1..Len(whole) : written[i] =
           IF i <= a \/ i > a + Len(patch) THEN whole[i] ELSE patch[i - a]
  <2>1. a \in Nat /\ whole \in Seq(V)
    BY <1>1, <1>2
  <2>. QED
    BY <1>4, <2>1, OverwriteProperties
<1>. HIDE DEF written
<1>6. ASSUME NEW i \in 1..(a + b) PROVE written[i] = (s \o patch)[i]
  <2>1. ~(i > a + b)
    BY <1>1
  <2>. QED
    BY <1>1, <1>2, <1>3, <1>5, <2>1
<1>7. written = s \o patch
  BY <1>2, <1>3, <1>5, <1>6, SeqEqual
<1>. QED
  BY <1>7 DEF written, whole, a

\* Bytes that are replaced before more are added, or after.
LEMMA OverwriteThenAppend ==
  ASSUME NEW V, NEW bytes \in Seq(V), NEW patch \in Seq(V), NEW more \in Seq(V),
         NEW offset \in Nat, offset + Len(patch) <= Len(bytes)
  PROVE  Overwrite(bytes, offset, patch) \o more = Overwrite(bytes \o more, offset, patch)
<1>. DEFINE n == Len(bytes)  p == Len(patch)  m == Len(more)
            first == Overwrite(bytes, offset, patch)
            both == bytes \o more
            second == Overwrite(both, offset, patch)
<1>1. n \in Nat /\ p \in Nat /\ m \in Nat /\ offset + p <= n
  OBVIOUS
<1>2. /\ first \in Seq(V) /\ Len(first) = n
      /\ \A i \in 1..n : first[i] =
           IF i <= offset \/ i > offset + p THEN bytes[i] ELSE patch[i - offset]
  BY OverwriteProperties
<1>3. /\ both \in Seq(V) /\ Len(both) = n + m
      /\ \A i \in 1..(n + m) : both[i] = IF i <= n THEN bytes[i] ELSE more[i - n]
  BY ConcatProperties
<1>4. offset + p <= n + m
  BY <1>1
<1>. HIDE DEF first, both
<1>5. /\ second \in Seq(V) /\ Len(second) = n + m
      /\ \A i \in 1..(n + m) : second[i] =
           IF i <= offset \/ i > offset + p THEN both[i] ELSE patch[i - offset]
  BY <1>3, <1>4, OverwriteProperties, SMTT(30)
<1>6. /\ first \o more \in Seq(V) /\ Len(first \o more) = n + m
      /\ \A i \in 1..(n + m) : (first \o more)[i] = IF i <= n THEN first[i] ELSE more[i - n]
  <2>1. first \in Seq(V) /\ Len(first) = n
    BY <1>2
  <2>. QED
    BY <2>1, Concatenated, SMTT(30)
<1>. HIDE DEF n, p, m, second
<1>7. ASSUME NEW i \in 1..(n + m) PROVE (first \o more)[i] = second[i]
  <2>1. CASE i <= n
    <3>1. i \in 1..n
      BY <1>1, <2>1
    <3>. QED
      BY <1>2, <1>3, <1>5, <1>6, <2>1, <3>1
  <2>2. CASE i > n
    <3>1. ~(i <= n) /\ i > offset + p
      BY <1>1, <2>2
    <3>. QED
      BY <1>3, <1>5, <1>6, <3>1
  <2>3. i <= n \/ i > n
    BY <1>1
  <2>. QED
    BY <2>1, <2>2, <2>3
<1>8. first \o more = second
  BY <1>5, <1>6, <1>7, SeqEqual
<1>. QED
  BY <1>8 DEF first, second, both

-----------------------------------------------------------------------------

\* The first m segments, joined.
JoinedUpto(segs, m) == FlattenSeq(SubSeq(segs, 1, m))

\* They are a list of bytes.
LEMMA JoinedUptoType ==
  ASSUME NEW V, NEW segs \in Seq(Seq(V)), NEW m \in 0..Len(segs)
  PROVE  JoinedUpto(segs, m) \in Seq(V) /\ Len(JoinedUpto(segs, m)) \in Nat
<1>1. SubSeq(segs, 1, m) \in Seq(Seq(V))
  <2>1. \A i \in 1..m : segs[i] \in Seq(V)
    OBVIOUS
  <2>. QED
    BY <2>1, SubSeqProperties
<1>2. JoinedUpto(segs, m) \in Seq(V)
  BY <1>1, FlattenSeqType DEF JoinedUpto
<1>. QED
  BY <1>2

\* No segment, joined.
LEMMA JoinedUptoNone ==
  ASSUME NEW segs
  PROVE  JoinedUpto(segs, 0) = <<>>
<1>1. SubSeq(segs, 1, 0) = <<>>
  BY SubSeqEmpty
<1>. QED
  BY <1>1 DEF JoinedUpto, FlattenSeq

\* All the segments, joined.
LEMMA JoinedUptoAll ==
  ASSUME NEW V, NEW segs \in Seq(Seq(V))
  PROVE  JoinedUpto(segs, Len(segs)) = FlattenSeq(segs)
<1>1. SubSeq(segs, 1, Len(segs)) = segs
  BY SubSeqFull
<1>. QED
  BY <1>1 DEF JoinedUpto

\* One more segment.
LEMMA JoinedUptoNext ==
  ASSUME NEW V, NEW segs \in Seq(Seq(V)), NEW m \in 0..(Len(segs) - 1)
  PROVE  JoinedUpto(segs, m + 1) = JoinedUpto(segs, m) \o segs[m + 1]
<1>1. m + 1 \in 1..Len(segs) /\ 1 \in 1..Len(segs) /\ (m + 1) - 1 = m
  OBVIOUS
<1>2. SubSeq(segs, 1, m + 1) = SubSeq(segs, 1, (m + 1) - 1) \o <<segs[m + 1]>>
  BY <1>1, SubSeqRecursiveSecond
<1>3. SubSeq(segs, 1, m) \in Seq(Seq(V)) /\ segs[m + 1] \in Seq(V)
  <2>1. \A i \in 1..m : segs[i] \in Seq(V)
    OBVIOUS
  <2>. QED
    BY <2>1, SubSeqProperties
<1>4. SubSeq(segs, 1, m + 1) = Append(SubSeq(segs, 1, m), segs[m + 1])
  BY <1>1, <1>2, <1>3, AppendIsConcat
<1>. QED
  BY <1>3, <1>4, FlattenAppend DEF JoinedUpto

\* Lists that begin alike.
LEMMA JoinedUptoAlike ==
  ASSUME NEW V, NEW segs \in Seq(Seq(V)), NEW more \in Seq(Seq(V)),
         NEW m \in Nat, m <= Len(segs), m <= Len(more), \A i \in 1..m : more[i] = segs[i]
  PROVE  JoinedUpto(more, m) = JoinedUpto(segs, m)
<1>1. SubSeq(more, 1, m) = SubSeq(segs, 1, m)
  <2>1. \A i \in 1..m : segs[i] \in Seq(V) /\ more[i] \in Seq(V)
    OBVIOUS
  <2>2. SubSeq(more, 1, m) = [i \in 1..m |-> more[i]]
    OBVIOUS
  <2>3. SubSeq(segs, 1, m) = [i \in 1..m |-> segs[i]]
    OBVIOUS
  <2>. QED
    BY <2>2, <2>3
<1>. QED
  BY <1>1 DEF JoinedUpto

\* A segment appended leaves the ones before it.
LEMMA JoinedUptoAppend ==
  ASSUME NEW V, NEW segs \in Seq(Seq(V)), NEW bytes \in Seq(V), NEW m \in 0..Len(segs)
  PROVE  JoinedUpto(Append(segs, bytes), m) = JoinedUpto(segs, m)
<1>. DEFINE more == Append(segs, bytes)
<1>1. /\ more \in Seq(Seq(V)) /\ Len(more) = Len(segs) + 1
      /\ \A i \in 1..Len(segs) : more[i] = segs[i]
  BY AppendProperties
<1>2. m \in Nat /\ m <= Len(segs) /\ m <= Len(segs) + 1
  OBVIOUS
<1>. HIDE DEF more
<1>3. \A i \in 1..m : more[i] = segs[i]
  BY <1>1, <1>2
<1>4. JoinedUpto(more, m) = JoinedUpto(segs, m)
  BY <1>1, <1>2, <1>3, JoinedUptoAlike
<1>. QED
  BY <1>4 DEF more

\* One segment of a list, replaced.
Replaced(segs, k, patch) == [segs EXCEPT ![k] = patch]

\* A segment replaced by one as long is its bytes overwritten in the joined bytes
\* (copy_to() of a patched message and the patched buffer are the same).
LEMMA JoinedUptoPatched ==
  ASSUME NEW V, NEW segs \in Seq(Seq(V)), NEW k \in 1..Len(segs), NEW patch \in Seq(V),
         Len(patch) = Len(segs[k]), NEW m \in k..Len(segs)
  PROVE  LET offset == Len(JoinedUpto(segs, k - 1))
             whole == JoinedUpto(segs, m)
         IN  /\ offset \in Nat /\ offset + Len(patch) <= Len(whole)
             /\ JoinedUpto(Replaced(segs, k, patch), m) = Overwrite(whole, offset, patch)
             /\ Len(JoinedUpto(Replaced(segs, k, patch), m)) = Len(whole)
<1>. DEFINE n == Len(segs)
            patched == Replaced(segs, k, patch)
            before == JoinedUpto(segs, k - 1)
            offset == Len(before)
            p == Len(patch)
            Good(j) == LET whole == JoinedUpto(segs, j)
                       IN  /\ offset + p <= Len(whole)
                           /\ JoinedUpto(patched, j) = Overwrite(whole, offset, patch)
<1>1. /\ patched \in Seq(Seq(V)) /\ Len(patched) = n /\ patched[k] = patch
      /\ \A j \in 1..n : j # k => patched[j] = segs[j]
  BY ExceptSeq DEF Replaced
<1>2. n \in Nat /\ k \in 1..n /\ m \in k..n /\ p \in Nat /\ p = Len(segs[k]) /\ segs[k] \in Seq(V)
  OBVIOUS
<1>3. before \in Seq(V) /\ offset \in Nat
  <2>1. k - 1 \in 0..n
    BY <1>2
  <2>. QED
    BY <2>1, JoinedUptoType
<1>4. JoinedUpto(patched, k - 1) = before
  <2>. HIDE DEF patched, n
  <2>1. k - 1 \in Nat /\ k - 1 <= n
    BY <1>2
  <2>2. \A i \in 1..(k - 1) : i \in 1..n /\ i # k
    BY <1>2
  <2>3. \A i \in 1..(k - 1) : patched[i] = segs[i]
    BY <1>1, <2>2
  <2>4. k - 1 <= Len(segs) /\ k - 1 <= Len(patched)
    BY <1>1, <2>1 DEF n
  <2>. QED
    BY <1>1, <2>1, <2>3, <2>4, JoinedUptoAlike
<1>. HIDE DEF n, patched, offset, before, p
<1>5. Good(k)
  <2>1. k - 1 \in 0..(n - 1) /\ (k - 1) + 1 = k
    BY <1>2
  <2>2. JoinedUpto(segs, k) = before \o segs[k]
    BY <2>1, JoinedUptoNext DEF before, n
  <2>3. JoinedUpto(patched, k) = before \o patch
    BY <1>1, <1>4, <2>1, JoinedUptoNext
  <2>4. Len(before \o segs[k]) = offset + p
    BY <1>2, <1>3, ConcatProperties DEF offset
  <2>5. Overwrite(before \o segs[k], offset, patch) = before \o patch
    BY <1>2, <1>3, OverwriteEnd DEF offset, p
  <2>. QED
    BY <1>2, <1>3, <2>2, <2>3, <2>4, <2>5
<1>. DEFINE S == {j \in Nat : j + k \in k..n => Good(j + k)}
<1>6. 0 \in S
  BY <1>2, <1>5
<1>7. ASSUME NEW j \in Nat, j \in S PROVE j + 1 \in S
  <2>. DEFINE i == j + k
  <2>. SUFFICES ASSUME i + 1 \in k..n PROVE Good(i + 1)
    BY <1>2
  <2>1. i \in k..n /\ i \in 0..(n - 1) /\ i \in 0..n /\ i + 1 \in 1..n /\ i + 1 # k
    BY <1>2
  <2>2. Good(i)
    BY <1>7, <2>1
  <2>. HIDE DEF i
  <2>3. JoinedUpto(segs, i + 1) = JoinedUpto(segs, i) \o segs[i + 1]
    BY <2>1, JoinedUptoNext DEF n
  <2>4. JoinedUpto(patched, i + 1) = JoinedUpto(patched, i) \o segs[i + 1]
    BY <1>1, <2>1, JoinedUptoNext
  <2>5. JoinedUpto(segs, i) \in Seq(V) /\ segs[i + 1] \in Seq(V)
    BY <2>1, JoinedUptoType DEF n
  <2>6. Overwrite(JoinedUpto(segs, i), offset, patch) \o segs[i + 1] =
        Overwrite(JoinedUpto(segs, i) \o segs[i + 1], offset, patch)
    BY <1>3, <2>2, <2>5, OverwriteThenAppend, ZenonT(30) DEF p
  <2>7. Len(JoinedUpto(segs, i) \o segs[i + 1]) = Len(JoinedUpto(segs, i)) + Len(segs[i + 1])
    BY <2>5, ConcatProperties
  <2>8. offset + p <= Len(JoinedUpto(segs, i)) + Len(segs[i + 1])
    <3>1. Len(JoinedUpto(segs, i)) \in Nat /\ Len(segs[i + 1]) \in Nat
      BY <2>5
    <3>2. offset + p <= Len(JoinedUpto(segs, i))
      BY <2>2
    <3>. QED
      BY <1>2, <1>3, <3>1, <3>2, SMTT(30)
  <2>. QED
    BY <2>2, <2>3, <2>4, <2>6, <2>7, <2>8
<1>. HIDE DEF S
<1>8. \A j \in Nat : j \in S
  BY <1>6, <1>7, Induction
<1>9. Good(m)
  <2>1. m - k \in Nat /\ (m - k) + k = m
    BY <1>2
  <2>. QED
    BY <1>2, <1>8, <2>1 DEF S
<1>10. JoinedUpto(segs, m) \in Seq(V)
  <2>1. m \in 0..n
    BY <1>2
  <2>. QED
    BY <2>1, JoinedUptoType DEF n
<1>11. Len(Overwrite(JoinedUpto(segs, m), offset, patch)) = Len(JoinedUpto(segs, m))
  BY <1>3, <1>9, <1>10, OverwriteProperties, SMTT(30) DEF p
<1>. QED
  BY <1>3, <1>9, <1>11 DEF offset, before, p, patched

-----------------------------------------------------------------------------

\* The parts of the two records, and those the two have alike.
ContiguousParts ==
  {"next", "status", "failed", "finalized", "starts", "ends", "written", "bytes"}
SegmentedParts ==
  {"next", "status", "failed", "finalized", "starts", "ends", "written",
   "segments", "scratch", "segment"}

AnswerAlike(c, g) ==
  /\ c.next = g.next /\ c.status = g.status /\ c.finalized = g.finalized
  /\ c.starts = g.starts /\ c.ends = g.ends /\ c.written = g.written

\* The parts both have, and a place for every field.
Shaped(layout, c, g) ==
  /\ DOMAIN c = ContiguousParts /\ DOMAIN g = SegmentedParts
  /\ DOMAIN c.starts = DOMAIN layout.fields /\ DOMAIN c.ends = DOMAIN layout.fields
  /\ DOMAIN c.written = DOMAIN layout.fields /\ DOMAIN g.segment = DOMAIN layout.fields

\* Where the segment of each of the first fields lies.
Located(layout, c, g, n) ==
  \A i \in 1..(n - 1) :
    /\ g.segment[i] \in 1..Len(g.segments)
    /\ c.starts[i] = Len(JoinedUpto(g.segments, g.segment[i] - 1))
    /\ Has(layout.fields[i].checksum) =>
         Len(g.segments[g.segment[i]]) = layout.fields[i].width

\* Both hold lists of bytes.
Holding(c, g) == \E V : c.bytes \in Seq(V) /\ g.segments \in Seq(Seq(V))

\* The two builders, with their first n - 1 fields written, hold the same
\* message: the segments joined are the buffer, each field begins at its
\* segment, and the scratch buffer holds no more than the other.
Alike(layout, c, g, n) ==
  /\ ~c.failed /\ ~g.failed /\ AnswerAlike(c, g) /\ Shaped(layout, c, g)
  /\ Holding(c, g) /\ FlattenSeq(g.segments) = c.bytes
  /\ g.scratch \in Nat /\ g.scratch <= Len(c.bytes)
  /\ Located(layout, c, g, n)

\* The contiguous builder has given up.
Broken(c) == c.failed /\ DOMAIN c = ContiguousParts

\* Within a call, before field n: the contiguous builder has just failed, or the
\* two hold the same message in no more than two segments for each field.
Related(layout, c, g, n) ==
  \/ Broken(c) /\ c.status # "ok"
  \/ c.status = "ok" /\ Alike(layout, c, g, n) /\ Len(g.segments) <= 2 * (n - 1)

\* The padding of a field is never negative.
LEMMA AlignUpGrows ==
  ASSUME NEW offset \in Nat, NEW alignment \in Nat
  PROVE  AlignUp(offset, alignment) \in Nat /\ AlignUp(offset, alignment) >= offset
<1>1. CASE alignment <= 1 \/ offset % alignment = 0
  BY <1>1 DEF AlignUp
<1>2. CASE ~(alignment <= 1 \/ offset % alignment = 0)
  <2>1. offset % alignment \in 0..(alignment - 1)
    BY <1>2
  <2>. DEFINE r == offset % alignment
  <2>2. AlignUp(offset, alignment) = offset + (alignment - r)
    BY <1>2 DEF AlignUp
  <2>. HIDE DEF r
  <2>. QED
    BY <2>1, <2>2 DEF r
<1>. QED
  BY <1>1, <1>2

\* So many of the same byte.
LEMMA FillIsSeq ==
  ASSUME NEW n \in Nat, NEW byte
  PROVE  /\ [k \in 1..n |-> byte] \in Seq({byte})
         /\ Len([k \in 1..n |-> byte]) = n
OBVIOUS

\* A number is written in as many bytes as it is wide.
LEMMA WriteUnsignedIsSeq ==
  ASSUME NEW value, NEW width \in Nat, NEW order
  PROVE  \E W : WriteUnsigned(value, width, order) \in Seq(W) /\
                Len(WriteUnsigned(value, width, order)) = width
<1>. DEFINE shifted == CHOOSE f : f = [i \in 0..width |-> IF i = 0 THEN value
                                                         ELSE f[i - 1] \div ByteBase]
            little == [i \in 1..width |-> shifted[i - 1] % ByteBase]
            W == {little[i] : i \in 1..width}
<1>1. little \in Seq(W) /\ Len(little) = width
  <2>. HIDE DEF shifted
  <2>1. \A i \in 1..width : little[i] \in W
    OBVIOUS
  <2>2. little = [i \in 1..width |-> little[i]]
    OBVIOUS
  <2>. HIDE DEF little, W
  <2>. QED
    BY <2>1, <2>2
<1>2. Reverse(little) \in Seq(W) /\ Len(Reverse(little)) = width
  <2>. HIDE DEF little, W
  <2>1. Reverse(little) = [i \in 1..width |-> little[(width - i) + 1]]
    BY <1>1 DEF Reverse
  <2>2. \A i \in 1..width : little[(width - i) + 1] \in W
    BY <1>1
  <2>. QED
    BY <2>1, <2>2
<1>3. WriteUnsigned(value, width, order) = IF order = "little" THEN little ELSE Reverse(little)
  BY DEF WriteUnsigned
<1>. HIDE DEF little, W
<1>4. WriteUnsigned(value, width, order) \in Seq(W) /\ Len(WriteUnsigned(value, width, order)) = width
  BY <1>1, <1>2, <1>3
<1>. QED
  BY <1>4

\* What is alike stays so when what the builders answer changes alike.
LEMMA AlikeKept ==
  ASSUME NEW layout, NEW c, NEW g, NEW n, Alike(layout, c, g, n), NEW c2, NEW g2,
         AnswerAlike(c2, g2), DOMAIN c2 = DOMAIN c, DOMAIN g2 = DOMAIN g,
         c2.bytes = c.bytes, c2.starts = c.starts, c2.ends = c.ends, c2.failed = c.failed,
         DOMAIN c2.written = DOMAIN c.written, g2.failed = g.failed,
         g2.segments = g.segments, g2.scratch = g.scratch, g2.segment = g.segment
  PROVE  Alike(layout, c2, g2, n)
<1>1. Shaped(layout, c2, g2)
  BY DEF Alike, Shaped
<1>2. Located(layout, c2, g2, n)
  BY DEF Alike, Located
<1>3. Holding(c2, g2)
  BY DEF Alike, Holding
<1>. QED
  BY <1>1, <1>2, <1>3 DEF Alike

\* The value written in a field, noted.
Noted(builder, i, value) == [builder EXCEPT !.written[i] = value]

\* The value of a field is noted by both.
LEMMA AlikeWritten ==
  ASSUME NEW layout, NEW c, NEW g, NEW n, Alike(layout, c, g, n), NEW i, NEW value
  PROVE  /\ Alike(layout, Noted(c, i, value), Noted(g, i, value), n)
         /\ Noted(c, i, value).status = c.status /\ Noted(c, i, value).next = c.next
         /\ Noted(g, i, value).segments = g.segments
<1>. DEFINE c2 == Noted(c, i, value)  g2 == Noted(g, i, value)
<1>1. DOMAIN c = ContiguousParts /\ DOMAIN g = SegmentedParts
  BY DEF Alike, Shaped
<1>2. /\ DOMAIN c2 = DOMAIN c /\ c2.bytes = c.bytes /\ c2.starts = c.starts /\ c2.ends = c.ends
      /\ c2.failed = c.failed /\ c2.next = c.next /\ c2.status = c.status
      /\ c2.finalized = c.finalized /\ c2.written = [c.written EXCEPT ![i] = value]
  BY <1>1 DEF ContiguousParts, Noted
<1>3. /\ DOMAIN g2 = DOMAIN g /\ g2.segments = g.segments /\ g2.scratch = g.scratch
      /\ g2.segment = g.segment /\ g2.starts = g.starts /\ g2.ends = g.ends
      /\ g2.failed = g.failed /\ g2.next = g.next /\ g2.status = g.status
      /\ g2.finalized = g.finalized /\ g2.written = [g.written EXCEPT ![i] = value]
  BY <1>1 DEF SegmentedParts, Noted
<1>. HIDE DEF c2, g2
<1>4. AnswerAlike(c2, g2) /\ DOMAIN c2.written = DOMAIN c.written
  BY <1>2, <1>3 DEF Alike, AnswerAlike
<1>5. Alike(layout, c2, g2, n)
  BY <1>2, <1>3, <1>4, AlikeKept
<1>. QED
  BY <1>2, <1>3, <1>5 DEF c2, g2

\* So is any other answer, the next field and the status.
LEMMA AlikeOther ==
  ASSUME NEW layout, NEW c, NEW g, NEW n, Alike(layout, c, g, n),
         NEW part \in {"next", "status", "finalized"}, NEW value
  PROVE  Alike(layout, [c EXCEPT ![part] = value], [g EXCEPT ![part] = value], n)
<1>. DEFINE c2 == [c EXCEPT ![part] = value]  g2 == [g EXCEPT ![part] = value]
<1>1. DOMAIN c = ContiguousParts /\ DOMAIN g = SegmentedParts
  BY DEF Alike, Shaped
<1>2. /\ DOMAIN c2 = DOMAIN c /\ c2.bytes = c.bytes /\ c2.starts = c.starts /\ c2.ends = c.ends
      /\ c2.failed = c.failed /\ c2.written = c.written
      /\ c2.next = (IF part = "next" THEN value ELSE c.next)
      /\ c2.status = (IF part = "status" THEN value ELSE c.status)
      /\ c2.finalized = (IF part = "finalized" THEN value ELSE c.finalized)
  BY <1>1 DEF ContiguousParts
<1>3. /\ DOMAIN g2 = DOMAIN g /\ g2.segments = g.segments /\ g2.scratch = g.scratch
      /\ g2.segment = g.segment /\ g2.starts = g.starts /\ g2.ends = g.ends
      /\ g2.failed = g.failed /\ g2.written = g.written
      /\ g2.next = (IF part = "next" THEN value ELSE g.next)
      /\ g2.status = (IF part = "status" THEN value ELSE g.status)
      /\ g2.finalized = (IF part = "finalized" THEN value ELSE g.finalized)
  BY <1>1 DEF SegmentedParts
<1>. HIDE DEF c2, g2
<1>4. AnswerAlike(c2, g2) /\ DOMAIN c2.written = DOMAIN c.written
  BY <1>2, <1>3 DEF Alike, AnswerAlike
<1>5. Alike(layout, c2, g2, n)
  BY <1>2, <1>3, <1>4, AlikeKept
<1>. QED
  BY <1>5 DEF c2, g2

\* The next field.
LEMMA AlikeNext ==
  ASSUME NEW layout, NEW c, NEW g, NEW n, Alike(layout, c, g, n), NEW next
  PROVE  Alike(layout, [c EXCEPT !.next = next], [g EXCEPT !.next = next], n)
BY AlikeOther

\* The status.
LEMMA AlikeStatus ==
  ASSUME NEW layout, NEW c, NEW g, NEW n, Alike(layout, c, g, n), NEW status
  PROVE  Alike(layout, [c EXCEPT !.status = status], [g EXCEPT !.status = status], n)
BY AlikeOther

-----------------------------------------------------------------------------

\* Bytes at the end of the buffer.
Grown(c, bytes) == [c EXCEPT !.bytes = @ \o bytes, !.status = "ok"]

\* A segment where the buffer grows: there is always room for it in the scratch
\* buffer and in the list.
LEMMA AppendSegmentAlike ==
  ASSUME NEW layout, NEW c, NEW g, NEW n, Alike(layout, c, g, n),
         NEW W, NEW bytes \in Seq(W), Len(bytes) <= BufferSize - Len(c.bytes),
         Len(g.segments) < MaxSegments, NEW storage \in Storages
  PROVE  LET c2 == Grown(c, bytes)
             g2 == AppendSegment(g, bytes, storage)
         IN  /\ Alike(layout, c2, g2, n) /\ c2.status = "ok"
             /\ Len(g2.segments) = Len(g.segments) + 1
             /\ g2.segments[Len(g2.segments)] = bytes
             /\ Len(JoinedUpto(g2.segments, Len(g.segments))) = Len(c.bytes)
<1>. DEFINE c2 == Grown(c, bytes)
            g2 == AppendSegment(g, bytes, storage)
            scratch == IF storage = "borrowed" THEN 0 ELSE Len(bytes)
            m == Len(g.segments)
<1>1. DOMAIN c = ContiguousParts /\ DOMAIN g = SegmentedParts
  BY DEF Alike, Shaped
<1>2. PICK V : c.bytes \in Seq(V) /\ g.segments \in Seq(Seq(V)) /\ bytes \in Seq(V)
  <2>1. PICK U : c.bytes \in Seq(U) /\ g.segments \in Seq(Seq(U))
    BY DEF Alike, Holding
  <2>. DEFINE V == U \cup W
  <2>2. c.bytes \in Seq(V) /\ bytes \in Seq(V)
    BY <2>1, SeqMonotonic
  <2>3. Seq(U) \subseteq Seq(V)
    BY SeqMonotonic
  <2>4. g.segments \in Seq(Seq(V))
    <3>. HIDE DEF V
    <3>. QED
      BY <2>1, <2>3, SeqMonotonic
  <2>. QED
    BY <2>2, <2>4
<1>3. /\ Len(bytes) \in Nat /\ Len(c.bytes) \in Nat /\ m \in Nat /\ scratch \in Nat
      /\ scratch <= Len(bytes)
  BY <1>2
<1>4. scratch <= BufferSize - g.scratch
  <2>1. g.scratch \in Nat /\ g.scratch <= Len(c.bytes) /\ BufferSize \in Nat
    BY BuilderAssumption DEF Alike, BuilderAssumption
  <2>. HIDE DEF scratch
  <2>. QED
    BY <1>3, <2>1
<1>5. g2 = [g EXCEPT !.segments = Append(@, bytes), !.status = "ok", !.scratch = @ + scratch]
  <2>1. ~(scratch > BufferSize - g.scratch) /\ ~(m >= MaxSegments)
    <3>1. m < MaxSegments /\ MaxSegments \in Nat
      BY CompilerAssumption DEF MaxSegments, CompilerAssumption
    <3>2. g.scratch \in Nat /\ BufferSize \in Nat
      BY BuilderAssumption DEF Alike, BuilderAssumption
    <3>. HIDE DEF scratch, m
    <3>. QED
      BY <1>3, <1>4, <3>1, <3>2
  <2>. QED
    BY <2>1 DEF AppendSegment
<1>6. /\ DOMAIN c2 = ContiguousParts /\ c2.bytes = c.bytes \o bytes /\ c2.status = "ok"
      /\ c2.next = c.next /\ c2.failed = c.failed /\ c2.finalized = c.finalized
      /\ c2.starts = c.starts /\ c2.ends = c.ends /\ c2.written = c.written
  BY <1>1 DEF ContiguousParts, Grown
<1>7. /\ DOMAIN g2 = SegmentedParts /\ g2.segments = Append(g.segments, bytes) /\ g2.status = "ok"
      /\ g2.next = g.next /\ g2.failed = g.failed /\ g2.finalized = g.finalized
      /\ g2.starts = g.starts /\ g2.ends = g.ends /\ g2.written = g.written
      /\ g2.segment = g.segment /\ g2.scratch = g.scratch + scratch
  BY <1>1, <1>5 DEF SegmentedParts
<1>. HIDE DEF c2, g2, scratch, m
<1>8. /\ g2.segments \in Seq(Seq(V)) /\ Len(g2.segments) = m + 1 /\ g2.segments[m + 1] = bytes
      /\ \A i \in 1..m : g2.segments[i] = g.segments[i]
  BY <1>2, <1>7, AppendProperties DEF m
<1>9. c2.bytes \in Seq(V) /\ Len(c2.bytes) = Len(c.bytes) + Len(bytes)
  BY <1>2, <1>6, ConcatProperties
<1>10. FlattenSeq(g2.segments) = c2.bytes
  <2>1. FlattenSeq(Append(g.segments, bytes)) = FlattenSeq(g.segments) \o bytes
    BY <1>2, FlattenAppend
  <2>. QED
    BY <1>6, <1>7, <2>1 DEF Alike
<1>11. \A i \in 0..m : JoinedUpto(g2.segments, i) = JoinedUpto(g.segments, i)
  BY <1>2, <1>7, JoinedUptoAppend DEF m
<1>12. Located(layout, c2, g2, n)
  <2>. SUFFICES ASSUME NEW i \in 1..(n - 1)
                PROVE  /\ g2.segment[i] \in 1..Len(g2.segments)
                       /\ c2.starts[i] = Len(JoinedUpto(g2.segments, g2.segment[i] - 1))
                       /\ Has(layout.fields[i].checksum) =>
                            Len(g2.segments[g2.segment[i]]) = layout.fields[i].width
    BY DEF Located
  <2>1. /\ g.segment[i] \in 1..m
        /\ c.starts[i] = Len(JoinedUpto(g.segments, g.segment[i] - 1))
        /\ Has(layout.fields[i].checksum) =>
             Len(g.segments[g.segment[i]]) = layout.fields[i].width
    BY DEF Alike, Located, m
  <2>2. g.segment[i] \in 1..(m + 1) /\ g.segment[i] - 1 \in 0..m
    BY <1>3, <2>1, SMTT(30)
  <2>. QED
    BY <1>6, <1>7, <1>8, <1>11, <2>1, <2>2
<1>13. g2.scratch \in Nat /\ g2.scratch <= Len(c2.bytes)
  <2>1. g.scratch \in Nat /\ g.scratch <= Len(c.bytes)
    BY DEF Alike
  <2>. QED
    BY <1>3, <1>7, <1>9, <2>1
<1>14. AnswerAlike(c2, g2) /\ Shaped(layout, c2, g2) /\ ~c2.failed /\ ~g2.failed
  BY <1>6, <1>7 DEF Alike, AnswerAlike, Shaped
<1>15. Alike(layout, c2, g2, n)
  BY <1>8, <1>9, <1>10, <1>12, <1>13, <1>14 DEF Alike, Holding
<1>16. Len(JoinedUpto(g2.segments, m)) = Len(c.bytes)
  <2>1. JoinedUpto(g2.segments, m) = JoinedUpto(g.segments, m)
    BY <1>3, <1>11
  <2>2. JoinedUpto(g.segments, m) = FlattenSeq(g.segments)
    BY <1>2, JoinedUptoAll DEF m
  <2>. QED
    BY <2>1, <2>2 DEF Alike
<1>. QED
  BY <1>6, <1>8, <1>15, <1>16 DEF c2, g2, m

\* put_scalar(), copied bytes and borrowed ones: a field is written by both or the
\* contiguous builder fails.
LEMMA PutRelated ==
  ASSUME NEW layout, Fits(layout), NEW c, NEW g, NEW i \in DOMAIN layout.fields,
         Alike(layout, c, g, i), Len(g.segments) <= 2 * (i - 1) + 1,
         NEW W, NEW bytes \in Seq(W), NEW storage \in Storages, NEW other,
         Has(layout.fields[i].checksum) => Len(bytes) = layout.fields[i].width
  PROVE  Related(layout, Put(c, i, bytes, other), Put(g, i, bytes, storage), i + 1)
<1>. DEFINE c3 == Put(c, i, bytes, other)  g3 == Put(g, i, bytes, storage)
            c2 == Grown(c, bytes)
            g2 == AppendSegment(g, bytes, storage)
            start == Len(c.bytes)  m == Len(g.segments)
<1>1. DOMAIN c = ContiguousParts /\ DOMAIN g = SegmentedParts /\ FlattenSeq(g.segments) = c.bytes
  BY DEF Alike, Shaped
<1>2. c3 = ContiguousPut(c, i, bytes) /\ g3 = SegmentedPut(g, i, bytes, storage)
  BY <1>1 DEF Put, IsContiguous, ContiguousParts, SegmentedParts
<1>3. Len(bytes) \in Nat /\ start \in Nat /\ m \in Nat /\ BufferSize \in Nat
  <2>1. PICK V : c.bytes \in Seq(V) /\ g.segments \in Seq(Seq(V))
    BY DEF Alike, Holding
  <2>. QED
    BY <2>1, BuilderAssumption DEF BuilderAssumption
<1>4. i \in 1..MaxFields /\ MaxFields \in Nat
  BY CompilerAssumption DEF Fits, CompilerAssumption
<1>5. CASE Len(bytes) > BufferSize - start
  <2>1. c3 = Fails(c, "buffer_too_small")
    BY <1>2, <1>5 DEF ContiguousPut
  <2>2. Broken(c3) /\ c3.status # "ok"
    BY <1>1, <2>1 DEF Fails, Broken, ContiguousParts
  <2>. QED
    BY <2>2 DEF Related
<1>6. CASE ~(Len(bytes) > BufferSize - start)
  <2>1. Len(bytes) <= BufferSize - start
    BY <1>3, <1>6
  <2>2. m < MaxSegments
    BY <1>3, <1>4 DEF MaxSegments
  <2>3. /\ Alike(layout, c2, g2, i) /\ c2.status = "ok"
        /\ Len(g2.segments) = m + 1 /\ g2.segments[Len(g2.segments)] = bytes
        /\ Len(JoinedUpto(g2.segments, m)) = start
    BY <2>1, <2>2, AppendSegmentAlike
  <2>. DEFINE c4 == [c2 EXCEPT !.starts[i] = start, !.ends[i] = start + Len(bytes)]
              g4 == [g2 EXCEPT !.starts[i] = start, !.ends[i] = start + Len(bytes),
                               !.segment[i] = Len(g2.segments)]
  <2>4. c3 = c4
    <3>1. c3 = [c EXCEPT !.bytes = @ \o bytes, !.status = "ok",
                         !.starts[i] = Len(c.bytes), !.ends[i] = Len(c.bytes) + Len(bytes)]
      BY <1>2, <1>6 DEF ContiguousPut
    <3>. QED
      BY <1>1, <3>1 DEF Grown
  <2>5. g3 = g4
    <3>1. g2.status = "ok"
      BY <2>3 DEF Alike, AnswerAlike
    <3>2. start = Len(Joined(g))
      BY <1>1 DEF Joined
    <3>. HIDE DEF g2, start
    <3>. QED
      BY <1>2, <3>1, <3>2 DEF SegmentedPut, g2
  <2>6. DOMAIN c2 = ContiguousParts /\ DOMAIN g2 = SegmentedParts
    BY <2>3 DEF Alike, Shaped
  <2>. HIDE DEF c2, g2, start
  <2>7. /\ DOMAIN c4 = ContiguousParts /\ c4.bytes = c2.bytes /\ c4.status = c2.status
        /\ c4.next = c2.next /\ c4.failed = c2.failed /\ c4.finalized = c2.finalized
        /\ c4.starts = [c2.starts EXCEPT ![i] = start]
        /\ c4.ends = [c2.ends EXCEPT ![i] = start + Len(bytes)] /\ c4.written = c2.written
    BY <2>6 DEF ContiguousParts
  <2>8. /\ DOMAIN g4 = SegmentedParts /\ g4.segments = g2.segments /\ g4.status = g2.status
        /\ g4.next = g2.next /\ g4.failed = g2.failed /\ g4.finalized = g2.finalized
        /\ g4.starts = [g2.starts EXCEPT ![i] = start]
        /\ g4.ends = [g2.ends EXCEPT ![i] = start + Len(bytes)] /\ g4.written = g2.written
        /\ g4.segment = [g2.segment EXCEPT ![i] = Len(g2.segments)] /\ g4.scratch = g2.scratch
    BY <2>6 DEF SegmentedParts
  <2>. HIDE DEF c4, g4
  <2>9. AnswerAlike(c4, g4)
    <3>1. AnswerAlike(c2, g2)
      BY <2>3 DEF Alike
    <3>. QED
      BY <2>7, <2>8, <3>1 DEF AnswerAlike
  <2>10. Shaped(layout, c4, g4)
    BY <2>3, <2>7, <2>8 DEF Alike, Shaped
  <2>11. Located(layout, c4, g4, i + 1)
    <3>. SUFFICES ASSUME NEW k \in 1..((i + 1) - 1)
                  PROVE  /\ g4.segment[k] \in 1..Len(g4.segments)
                         /\ c4.starts[k] = Len(JoinedUpto(g4.segments, g4.segment[k] - 1))
                         /\ Has(layout.fields[k].checksum) =>
                              Len(g4.segments[g4.segment[k]]) = layout.fields[k].width
      BY DEF Located
    <3>. k \in 1..i
      BY <1>4
    <3>1. i \in DOMAIN c2.starts /\ i \in DOMAIN g2.segment
      BY <2>3 DEF Alike, Shaped
    <3>2. CASE k = i
      <4>1. g4.segment[k] = m + 1 /\ c4.starts[k] = start
        BY <2>3, <2>7, <2>8, <3>1, <3>2
      <4>2. (m + 1) - 1 = m /\ m + 1 \in 1..(m + 1)
        BY <1>3
      <4>. QED
        BY <2>3, <2>8, <3>2, <4>1, <4>2
    <3>3. CASE k # i
      <4>1. k \in 1..(i - 1)
        BY <1>4, <3>3
      <4>2. /\ g2.segment[k] \in 1..Len(g2.segments)
            /\ c2.starts[k] = Len(JoinedUpto(g2.segments, g2.segment[k] - 1))
            /\ Has(layout.fields[k].checksum) =>
                 Len(g2.segments[g2.segment[k]]) = layout.fields[k].width
        BY <2>3, <4>1 DEF Alike, Located
      <4>3. k \in DOMAIN layout.fields
        BY <1>4, <4>1 DEF Fits
      <4>4. g4.segment[k] = g2.segment[k] /\ c4.starts[k] = c2.starts[k]
        BY <2>3, <2>7, <2>8, <3>3, <4>3 DEF Alike, Shaped
      <4>. QED
        BY <2>8, <4>2, <4>4
    <3>. QED
      BY <3>2, <3>3
  <2>12. Holding(c4, g4)
    BY <2>3, <2>7, <2>8 DEF Alike, Holding
  <2>13. Alike(layout, c4, g4, i + 1)
    BY <2>3, <2>7, <2>8, <2>9, <2>10, <2>11, <2>12 DEF Alike
  <2>14. Len(g4.segments) <= 2 * ((i + 1) - 1)
    BY <1>3, <1>4, <2>3, <2>8, SMTT(30)
  <2>. QED
    BY <2>3, <2>4, <2>5, <2>7, <2>13, <2>14 DEF Related
<1>. QED
  BY <1>5, <1>6

\* Before field n, and after its padding.
Padded(layout, c, g, i) ==
  \/ Broken(c) /\ c.status # "ok"
  \/ c.status = "ok" /\ Alike(layout, c, g, i) /\ Len(g.segments) <= 2 * (i - 1) + 1

\* Zeros in the buffer are a segment of their own, and none where there is no gap.
LEMMA PadRelated ==
  ASSUME NEW layout, Fits(layout), NEW c, NEW g, NEW i \in DOMAIN layout.fields,
         c.status = "ok", Alike(layout, c, g, i), Len(g.segments) <= 2 * (i - 1)
  PROVE  Padded(layout, Pad(layout, c, i), Pad(layout, g, i), i)
<1>. DEFINE c2 == Pad(layout, c, i)  g2 == Pad(layout, g, i)
            total == Len(c.bytes)  m == Len(g.segments)
            aligned == AlignUp(total, layout.fields[i].alignment)
            gap == aligned - total
<1>1. DOMAIN c = ContiguousParts /\ DOMAIN g = SegmentedParts /\ Joined(g) = c.bytes
  BY DEF Alike, Shaped, Joined
<1>2. c2 = ContiguousPad(layout, c, i) /\ g2 = SegmentedPad(layout, g, i)
  BY <1>1 DEF Pad, IsContiguous, ContiguousParts, SegmentedParts
<1>3. PICK V : c.bytes \in Seq(V) /\ g.segments \in Seq(Seq(V))
  BY DEF Alike, Holding
<1>4. total \in Nat /\ m \in Nat /\ BufferSize \in Nat
  BY <1>3, BuilderAssumption DEF BuilderAssumption
<1>5. i \in 1..MaxFields /\ MaxFields \in Nat /\ layout.fields[i].alignment \in Nat
  BY CompilerAssumption DEF Fits, FieldFits, CompilerAssumption
<1>6. aligned \in Nat /\ gap \in Nat /\ aligned = total + gap
  <2>1. aligned \in Nat /\ aligned >= total
    BY <1>4, <1>5, AlignUpGrows
  <2>. HIDE DEF aligned, total
  <2>. QED
    BY <1>4, <2>1
<1>7. CASE aligned > BufferSize
  <2>1. c2 = Fails(c, "buffer_too_small")
    BY <1>2, <1>7 DEF ContiguousPad
  <2>2. Broken(c2) /\ c2.status # "ok"
    BY <1>1, <2>1 DEF Fails, Broken, ContiguousParts
  <2>. QED
    BY <2>2 DEF Padded
<1>8. CASE ~(aligned > BufferSize)
  <2>1. c2 = [c EXCEPT !.bytes = @ \o Zeros(gap)]
    BY <1>2, <1>8 DEF ContiguousPad
  <2>2. g2 = IF gap = 0 THEN g ELSE AppendSegment(g, Zeros(gap), "owned")
    BY <1>1, <1>2 DEF SegmentedPad
  <2>. HIDE DEF c2, g2, gap, total, aligned
  <2>3. CASE gap = 0
    <3>1. Zeros(gap) = <<>>
      BY <2>3 DEF Zeros
    <3>2. c.bytes \o Zeros(gap) = c.bytes
      BY <1>3, <3>1, ConcatEmptySeq
    <3>3. /\ DOMAIN c2 = DOMAIN c /\ c2.bytes = c.bytes /\ c2.starts = c.starts /\ c2.ends = c.ends
          /\ c2.failed = c.failed /\ c2.next = c.next /\ c2.status = c.status
          /\ c2.finalized = c.finalized /\ c2.written = c.written
      BY <1>1, <2>1, <3>2 DEF ContiguousParts
    <3>4. AnswerAlike(c2, g)
      BY <3>3 DEF Alike, AnswerAlike
    <3>5. Alike(layout, c2, g, i)
      BY <3>3, <3>4, AlikeKept
    <3>6. m <= 2 * (i - 1) + 1
      BY <1>4, <1>5
    <3>7. g2 = g
      BY <2>2, <2>3
    <3>8. Padded(layout, c2, g2, i)
      BY <3>3, <3>5, <3>6, <3>7 DEF Padded
    <3>. QED
      BY <3>8 DEF c2, g2
  <2>4. CASE gap # 0
    <3>1. Zeros(gap) \in Seq({0}) /\ Len(Zeros(gap)) = gap
      BY <1>6, FillIsSeq DEF Zeros
    <3>2. Len(Zeros(gap)) <= BufferSize - Len(c.bytes)
      BY <1>4, <1>6, <1>8, <3>1 DEF total
    <3>3. m < MaxSegments
      BY <1>4, <1>5 DEF MaxSegments
    <3>4. /\ Alike(layout, Grown(c, Zeros(gap)), AppendSegment(g, Zeros(gap), "owned"), i)
          /\ Grown(c, Zeros(gap)).status = "ok"
          /\ Len(AppendSegment(g, Zeros(gap), "owned").segments) = m + 1
      <4>. DEFINE zeros == Zeros(gap)  storage == "owned"
      <4>1. zeros \in Seq({0}) /\ Len(zeros) <= BufferSize - Len(c.bytes)
        BY <3>1, <3>2
      <4>2. Len(g.segments) < MaxSegments /\ storage \in Storages
        BY <3>3 DEF m, Storages
      <4>. HIDE DEF zeros, m, storage
      <4>3. LET c3 == Grown(c, zeros)
                g3 == AppendSegment(g, zeros, storage)
            IN  /\ Alike(layout, c3, g3, i) /\ c3.status = "ok"
                /\ Len(g3.segments) = Len(g.segments) + 1
        BY <4>1, <4>2, AppendSegmentAlike
      <4>. QED
        BY <4>3 DEF zeros, m, storage
    <3>5. c2 = Grown(c, Zeros(gap))
      BY <1>1, <2>1 DEF Grown, ContiguousParts
    <3>6. m + 1 <= 2 * (i - 1) + 1
      BY <1>4, <1>5
    <3>7. g2 = AppendSegment(g, Zeros(gap), "owned")
      BY <2>2, <2>4
    <3>8. Alike(layout, c2, g2, i) /\ c2.status = "ok" /\ Len(g2.segments) = m + 1
      BY <3>4, <3>5, <3>7
    <3>9. Padded(layout, c2, g2, i)
      BY <3>6, <3>8 DEF Padded
    <3>. QED
      BY <3>9 DEF c2, g2
  <2>. QED
    BY <2>3, <2>4
<1>. QED
  BY <1>7, <1>8

\* The value of a field is noted by both, within a call.
LEMMA RelatedWritten ==
  ASSUME NEW layout, NEW c, NEW g, NEW n, Related(layout, c, g, n), NEW i, NEW value
  PROVE  Related(layout, Noted(c, i, value), Noted(g, i, value), n)
<1>1. CASE Broken(c) /\ c.status # "ok"
  <2>1. Broken(Noted(c, i, value)) /\ Noted(c, i, value).status # "ok"
    BY <1>1 DEF Broken, ContiguousParts, Noted
  <2>. QED
    BY <2>1 DEF Related
<1>2. CASE c.status = "ok" /\ Alike(layout, c, g, n) /\ Len(g.segments) <= 2 * (n - 1)
  <2>1. /\ Alike(layout, Noted(c, i, value), Noted(g, i, value), n)
        /\ Noted(c, i, value).status = c.status
        /\ Noted(g, i, value).segments = g.segments
    BY <1>2, AlikeWritten
  <2>. QED
    BY <1>2, <2>1 DEF Related
<1>. QED
  BY <1>1, <1>2 DEF Related

\* A number.
LEMMA PutScalarRelated ==
  ASSUME NEW layout, Fits(layout), NEW c, NEW g, NEW i \in DOMAIN layout.fields,
         Alike(layout, c, g, i), Len(g.segments) <= 2 * (i - 1) + 1, NEW value
  PROVE  Related(layout, PutScalar(layout, c, i, value), PutScalar(layout, g, i, value), i + 1)
<1>. DEFINE field == layout.fields[i]
            bytes == WriteUnsigned(value, field.width, field.order)
            c2 == Put(c, i, bytes, "scalar")  g2 == Put(g, i, bytes, "scalar")
<1>1. field.width \in Nat
  BY DEF Fits, FieldFits
<1>2. PICK W : bytes \in Seq(W) /\ Len(bytes) = field.width
  BY <1>1, WriteUnsignedIsSeq
<1>. HIDE DEF bytes
<1>3. Related(layout, c2, g2, i + 1)
  BY <1>2, PutRelated DEF Storages
<1>4. /\ PutScalar(layout, c, i, value) =
           IF c2.status # "ok" THEN c2 ELSE Noted(c2, i, value)
      /\ PutScalar(layout, g, i, value) =
           IF g2.status # "ok" THEN g2 ELSE Noted(g2, i, value)
  BY DEF PutScalar, bytes, Noted
<1>. HIDE DEF c2, g2
<1>5. CASE c2.status # "ok"
  <2>1. Broken(c2)
    BY <1>3, <1>5 DEF Related
  <2>. QED
    BY <1>4, <1>5, <2>1 DEF Related
<1>6. CASE c2.status = "ok"
  <2>1. g2.status = "ok"
    BY <1>3, <1>6 DEF Related, Alike, AnswerAlike
  <2>. QED
    BY <1>3, <1>4, <1>6, <2>1, RelatedWritten
<1>. QED
  BY <1>5, <1>6

\* A field filled in: a placeholder, an expected value or the fill byte.
LEMMA FillInRelated ==
  ASSUME NEW layout, Fits(layout), NEW c, NEW g, NEW i \in DOMAIN layout.fields,
         Alike(layout, c, g, i), Len(g.segments) <= 2 * (i - 1) + 1
  PROVE  Related(layout, FillIn(layout, c, i), FillIn(layout, g, i), i + 1)
<1>. DEFINE field == layout.fields[i]
            Filled(n, byte) == [k \in 1..n |-> byte]
<1>1. field.width \in Nat /\ field.size \in Nat
  BY DEF Fits, FieldFits
<1>2. CASE Has(field.checksum)
  <2>. DEFINE bytes == Filled(field.width, 0)
  <2>1. bytes \in Seq({0}) /\ Len(bytes) = field.width
    BY <1>1, FillIsSeq
  <2>2. /\ FillIn(layout, c, i) = Noted(Put(c, i, bytes, "owned"), i, 0)
        /\ FillIn(layout, g, i) = Noted(Put(g, i, bytes, "owned"), i, 0)
    BY <1>2 DEF FillIn, Noted
  <2>. HIDE DEF bytes
  <2>3. Related(layout, Put(c, i, bytes, "owned"), Put(g, i, bytes, "owned"), i + 1)
    BY <2>1, PutRelated DEF Storages
  <2>. QED
    BY <2>2, <2>3, RelatedWritten
<1>3. CASE ~Has(field.checksum) /\ Has(field.expect)
  BY <1>3, PutScalarRelated DEF FillIn
<1>4. CASE ~Has(field.checksum) /\ ~Has(field.expect) /\ field.reserved
  <2>. DEFINE bytes == Filled(field.size, field.fill)
  <2>1. bytes \in Seq({field.fill})
    BY <1>1, FillIsSeq
  <2>2. /\ FillIn(layout, c, i) = Put(c, i, bytes, "owned")
        /\ FillIn(layout, g, i) = Put(g, i, bytes, "owned")
    BY <1>4 DEF FillIn
  <2>. HIDE DEF bytes
  <2>3. Related(layout, Put(c, i, bytes, "owned"), Put(g, i, bytes, "owned"), i + 1)
    BY <1>4, <2>1, PutRelated DEF Storages
  <2>. QED
    BY <2>2, <2>3
<1>5. CASE ~Has(field.checksum) /\ ~Has(field.expect) /\ ~field.reserved
  <2>1. FillIn(layout, c, i) = Fails(c, "invalid_data")
    BY <1>5 DEF FillIn
  <2>2. DOMAIN c = ContiguousParts
    BY DEF Alike, Shaped
  <2>3. Broken(Fails(c, "invalid_data")) /\ Fails(c, "invalid_data").status # "ok"
    BY <2>2 DEF Fails, Broken, ContiguousParts
  <2>. QED
    BY <2>1, <2>3 DEF Related
<1>. QED
  BY <1>2, <1>3, <1>4, <1>5

\* A field passed over.
LEMMA PassOverRelated ==
  ASSUME NEW layout, Fits(layout), NEW c, NEW g, NEW i \in DOMAIN layout.fields,
         Related(layout, c, g, i)
  PROVE  Related(layout, PassOver(layout, c, i), PassOver(layout, g, i), i + 1)
<1>. DEFINE c2 == Pad(layout, c, i)  g2 == Pad(layout, g, i)
<1>1. CASE c.status # "ok"
  BY <1>1 DEF PassOver, Related
<1>2. CASE c.status = "ok"
  <2>1. Alike(layout, c, g, i) /\ Len(g.segments) <= 2 * (i - 1) /\ g.status = "ok"
    BY <1>2 DEF Related, Alike, AnswerAlike
  <2>2. /\ PassOver(layout, c, i) = IF c2.status # "ok" THEN c2 ELSE FillIn(layout, c2, i)
        /\ PassOver(layout, g, i) = IF g2.status # "ok" THEN g2 ELSE FillIn(layout, g2, i)
    BY <1>2, <2>1 DEF PassOver
  <2>3. \/ Broken(c2) /\ c2.status # "ok"
        \/ c2.status = "ok" /\ Alike(layout, c2, g2, i) /\ Len(g2.segments) <= 2 * (i - 1) + 1
    BY <1>2, <2>1, PadRelated DEF Padded
  <2>. HIDE DEF c2, g2
  <2>4. CASE Broken(c2) /\ c2.status # "ok"
    BY <2>2, <2>4 DEF Related
  <2>5. CASE c2.status = "ok" /\ Alike(layout, c2, g2, i) /\ Len(g2.segments) <= 2 * (i - 1) + 1
    <3>1. g2.status = "ok"
      BY <2>5 DEF Alike, AnswerAlike
    <3>2. Related(layout, FillIn(layout, c2, i), FillIn(layout, g2, i), i + 1)
      BY <2>5, FillInRelated
    <3>. QED
      BY <2>2, <2>5, <3>1, <3>2
  <2>. QED
    BY <2>3, <2>4, <2>5
<1>. QED
  BY <1>1, <1>2

\* The fields passed over, one after the other.
Passed(layout, builder, first, last, f) ==
  f = [i \in first..last |-> IF i = first THEN [builder EXCEPT !.status = "ok"]
                             ELSE PassOver(layout, f[i - 1], i)]

\* advance_to() passes over any number of fields.
LEMMA PassedExists ==
  ASSUME NEW layout, NEW builder, NEW first \in Nat, NEW n \in Nat
  PROVE  \E f : Passed(layout, builder, first, first + n, f)
<1>. DEFINE start == [builder EXCEPT !.status = "ok"]
            S == {m \in Nat : \E f : Passed(layout, builder, first, first + m, f)}
<1>1. 0 \in S
  <2>. DEFINE f == [i \in first..(first + 0) |-> start]
  <2>1. f = [i \in first..(first + 0) |-> IF i = first THEN start ELSE PassOver(layout, f[i - 1], i)]
    <3>1. \A i \in first..(first + 0) : i = first
      OBVIOUS
    <3>. QED
      BY <3>1
  <2>2. Passed(layout, builder, first, first + 0, f)
    BY <2>1 DEF Passed
  <2>. QED
    BY <2>2
<1>2. ASSUME NEW m \in Nat, m \in S PROVE m + 1 \in S
  <2>1. PICK f : Passed(layout, builder, first, first + m, f)
    BY <1>2
  <2>. DEFINE last == first + (m + 1)
              g == [i \in first..last |-> IF i = last THEN PassOver(layout, f[first + m], i) ELSE f[i]]
              h == [i \in first..last |-> IF i = first THEN start ELSE PassOver(layout, g[i - 1], i)]
  <2>2. ASSUME NEW i \in first..last PROVE g[i] = h[i]
    <3>1. CASE i = last
      <4>1. i - 1 = first + m /\ i - 1 \in first..last /\ i - 1 # last /\ i # first
        BY <3>1
      <4>2. g[i - 1] = f[first + m]
        BY <4>1
      <4>. QED
        BY <3>1, <4>1, <4>2
    <3>2. CASE i # last
      <4>1. i \in first..(first + m) /\ (i # first => i - 1 \in first..last /\ i - 1 # last)
        BY <3>2
      <4>2. f[i] = IF i = first THEN start ELSE PassOver(layout, f[i - 1], i)
        BY <2>1, <4>1 DEF Passed
      <4>3. i # first => g[i - 1] = f[i - 1]
        BY <4>1
      <4>4. g[i] = f[i] /\ h[i] = IF i = first THEN start ELSE PassOver(layout, g[i - 1], i)
        BY <3>2
      <4>. HIDE DEF g, h, start, last
      <4>. QED
        BY <4>2, <4>3, <4>4
    <3>. QED
      BY <3>1, <3>2
  <2>3. g = h
    BY <2>2
  <2>4. Passed(layout, builder, first, last, g)
    <3>. HIDE DEF g
    <3>. QED
      BY <2>3 DEF Passed
  <2>. QED
    BY <2>4
<1>. HIDE DEF S
<1>3. \A m \in Nat : m \in S
  BY <1>1, <1>2, Induction
<1>. QED
  BY <1>3 DEF S

\* The builder after the last field passed over.
Arrived(builder, target) ==
  IF builder.status # "ok" THEN builder ELSE [builder EXCEPT !.next = target]

\* advance_to() passes over the fields one after the other.
LEMMA AdvanceIsPassed ==
  ASSUME NEW layout, NEW builder, ~builder.failed, builder.next \in Nat \ {0},
         NEW target \in Nat, target >= builder.next
  PROVE  \E f : /\ Passed(layout, builder, builder.next - 1, target - 1, f)
                /\ AdvanceTo(layout, builder, target) = Arrived(f[target - 1], target)
<1>. DEFINE first == builder.next - 1  last == target - 1
            f == CHOOSE u : Passed(layout, builder, first, last, u)
<1>1. first \in Nat /\ last - first \in Nat /\ last = first + (last - first)
  OBVIOUS
<1>2. \E u : Passed(layout, builder, first, last, u)
  <2>. DEFINE k == last - first
  <2>1. first \in Nat /\ k \in Nat /\ last = first + k
    BY <1>1
  <2>. HIDE DEF first, last, k
  <2>2. \E u : Passed(layout, builder, first, first + k, u)
    BY <2>1, PassedExists
  <2>. QED
    BY <2>1, <2>2
<1>3. Passed(layout, builder, first, last, f)
  BY <1>2
<1>4. AdvanceTo(layout, builder, target) = Arrived(f[last], target)
  BY DEF AdvanceTo, Passed, Arrived
<1>. QED
  BY <1>3, <1>4

\* The two builders advance alike.
LEMMA AdvanceRelated ==
  ASSUME NEW layout, Fits(layout), NEW c, NEW g, c.next \in 1..(Len(layout.fields) + 1),
         Alike(layout, c, g, c.next), Len(g.segments) <= 2 * (c.next - 1),
         NEW target \in c.next..(Len(layout.fields) + 1)
  PROVE  LET c2 == AdvanceTo(layout, c, target)
             g2 == AdvanceTo(layout, g, target)
         IN  /\ Related(layout, c2, g2, target)
             /\ c2.status = "ok" => c2.next = target
<1>. DEFINE first == c.next - 1  last == target - 1  n == Len(layout.fields)
<1>1. n \in Nat /\ first \in Nat /\ last \in Nat /\ first <= last /\ last <= n /\ target \in Nat
  BY SMTT(30) DEF Fits
<1>2. /\ ~c.failed /\ ~g.failed /\ g.next = c.next
      /\ c.next \in Nat \ {0} /\ target >= c.next
  BY <1>1, SMTT(30) DEF Alike, AnswerAlike
<1>3. PICK fc : /\ Passed(layout, c, first, last, fc)
                /\ AdvanceTo(layout, c, target) = Arrived(fc[last], target)
  <2>. c.next \in Nat \ {0} /\ target \in Nat /\ target >= c.next /\ ~c.failed
    BY <1>1, <1>2
  <2>1. \E f : /\ Passed(layout, c, c.next - 1, target - 1, f)
               /\ AdvanceTo(layout, c, target) = Arrived(f[target - 1], target)
    BY AdvanceIsPassed
  <2>. QED
    BY <1>2, <2>1
<1>4. PICK fg : /\ Passed(layout, g, first, last, fg)
                /\ AdvanceTo(layout, g, target) = Arrived(fg[last], target)
  <2>. g.next \in Nat \ {0} /\ target \in Nat /\ target >= g.next /\ ~g.failed
    BY <1>1, <1>2
  <2>1. \E f : /\ Passed(layout, g, g.next - 1, target - 1, f)
               /\ AdvanceTo(layout, g, target) = Arrived(f[target - 1], target)
    BY AdvanceIsPassed
  <2>. QED
    BY <1>2, <2>1
<1>. DEFINE Good(i) == Related(layout, fc[i], fg[i], i + 1)
            S == {m \in Nat : first + m \in first..last => Good(first + m)}
<1>5. 0 \in S
  <2>1. /\ fc[first] = [c EXCEPT !.status = "ok"] /\ fg[first] = [g EXCEPT !.status = "ok"]
    BY <1>1, <1>3, <1>4 DEF Passed
  <2>2. Alike(layout, fc[first], fg[first], c.next)
    <3>1. Alike(layout, [c EXCEPT !.status = "ok"], [g EXCEPT !.status = "ok"], c.next)
      BY AlikeStatus
    <3>. QED
      BY <2>1, <3>1
  <2>3. fc[first].status = "ok" /\ fg[first].segments = g.segments
    BY <2>1 DEF Alike, Shaped, ContiguousParts, SegmentedParts
  <2>4. first + 1 = c.next /\ first + 0 = first
    OBVIOUS
  <2>. HIDE DEF first
  <2>5. Good(first)
    BY <2>2, <2>3, <2>4 DEF Related
  <2>. QED
    BY <2>4, <2>5
<1>6. ASSUME NEW m \in Nat, m \in S PROVE m + 1 \in S
  <2>. DEFINE i == first + (m + 1)
  <2>. SUFFICES ASSUME i \in first..last PROVE Good(i)
    OBVIOUS
  <2>1. i \in first..last /\ i # first /\ i - 1 = first + m /\ first + m \in first..last
        /\ i \in 1..n /\ (i - 1) + 1 = i
    <3>1. i = (first + m) + 1
      <4>. HIDE DEF first
      <4>. QED
        BY <1>1
    <3>. HIDE DEF first, last, n, i
    <3>. QED
      BY <1>1, <3>1
  <2>2. Good(i - 1)
    BY <1>6, <2>1
  <2>3. fc[i] = PassOver(layout, fc[i - 1], i) /\ fg[i] = PassOver(layout, fg[i - 1], i)
    <3>. HIDE DEF i, first, last
    <3>. QED
      BY <1>3, <1>4, <2>1 DEF Passed
  <2>. HIDE DEF i
  <2>4. i \in DOMAIN layout.fields
    BY <2>1 DEF Fits
  <2>5. Related(layout, fc[i - 1], fg[i - 1], i)
    BY <2>1, <2>2
  <2>. QED
    BY <2>3, <2>4, <2>5, PassOverRelated
<1>. HIDE DEF S
<1>7. \A m \in Nat : m \in S
  BY <1>5, <1>6, Induction
<1>8. Related(layout, fc[last], fg[last], target)
  <2>0. last + 1 = target
    BY <1>1
  <2>1. last - first \in Nat /\ first + (last - first) = last /\ last + 1 = target /\ last \in first..last
    <3>. HIDE DEF first, last
    <3>. QED
      BY <1>1, <2>0
  <2>. HIDE DEF first, last
  <2>2. Good(last)
    BY <1>7, <2>1 DEF S
  <2>. QED
    BY <2>1, <2>2
<1>. HIDE DEF last
<1>9. CASE fc[last].status # "ok"
  BY <1>3, <1>8, <1>9 DEF Related, Arrived
<1>10. CASE fc[last].status = "ok"
  <2>. DEFINE c2 == [fc[last] EXCEPT !.next = target]  g2 == [fg[last] EXCEPT !.next = target]
  <2>1. Alike(layout, fc[last], fg[last], target) /\ Len(fg[last].segments) <= 2 * (target - 1)
        /\ fg[last].status = "ok"
    BY <1>8, <1>10 DEF Related, Alike, AnswerAlike
  <2>2. AdvanceTo(layout, c, target) = c2 /\ AdvanceTo(layout, g, target) = g2
    BY <1>3, <1>4, <1>10, <2>1 DEF Arrived
  <2>3. Alike(layout, c2, g2, target)
    BY <2>1, AlikeNext
  <2>4. c2.status = "ok" /\ c2.next = target /\ g2.segments = fg[last].segments
    BY <1>10, <2>1 DEF Alike, Shaped, ContiguousParts, SegmentedParts
  <2>. QED
    BY <2>1, <2>2, <2>3, <2>4 DEF Related
<1>. QED
  BY <1>9, <1>10

-----------------------------------------------------------------------------

\* Between two calls: the contiguous builder gave up, or the two are alike.
Steady(layout, c, g) ==
  /\ c.next \in 1..(Len(layout.fields) + 1)
  /\ Alike(layout, c, g, c.next) /\ Len(g.segments) <= 2 * (c.next - 1)
Together(layout, c, g) == Broken(c) \/ Steady(layout, c, g)

\* A call that is refused is refused by both.
LEMMA RefusedTogether ==
  ASSUME NEW layout, NEW c, NEW g, Together(layout, c, g)
  PROVE  Together(layout, Refused(c), Refused(g))
<1>1. CASE Broken(c)
  BY <1>1 DEF Together, Broken, Refused, ContiguousParts
<1>2. CASE Steady(layout, c, g)
  <2>1. Alike(layout, Refused(c), Refused(g), c.next)
    BY <1>2, AlikeStatus DEF Steady, Refused
  <2>2. Refused(c).next = c.next /\ Refused(g).segments = g.segments
    BY <1>2 DEF Steady, Alike, Shaped, Refused, ContiguousParts, SegmentedParts
  <2>. QED
    BY <1>2, <2>1, <2>2 DEF Together, Steady
<1>. QED
  BY <1>1, <1>2 DEF Together

\* A field written is the last one written, for both.
LEMMA WrittenTogether ==
  ASSUME NEW layout, Fits(layout), NEW c, NEW g, NEW i \in DOMAIN layout.fields,
         Related(layout, c, g, i + 1)
  PROVE  Together(layout, Written(c, i), Written(g, i))
<1>1. CASE c.status # "ok"
  BY <1>1 DEF Related, Written, Together
<1>2. CASE c.status = "ok"
  <2>. DEFINE c2 == [c EXCEPT !.next = i + 1]  g2 == [g EXCEPT !.next = i + 1]
  <2>1. Alike(layout, c, g, i + 1) /\ Len(g.segments) <= 2 * ((i + 1) - 1) /\ g.status = "ok"
    BY <1>2 DEF Related, Alike, AnswerAlike
  <2>2. Written(c, i) = c2 /\ Written(g, i) = g2
    BY <1>2, <2>1 DEF Written
  <2>3. Alike(layout, c2, g2, i + 1)
    BY <2>1, AlikeNext
  <2>4. c2.next = i + 1 /\ g2.segments = g.segments
    BY <2>1 DEF Alike, Shaped, ContiguousParts, SegmentedParts
  <2>5. i + 1 \in 1..(Len(layout.fields) + 1)
    BY DEF Fits
  <2>. HIDE DEF c2, g2
  <2>6. Steady(layout, c2, g2)
    BY <2>1, <2>3, <2>4, <2>5 DEF Steady
  <2>. QED
    BY <2>2, <2>6 DEF Together
<1>. QED
  BY <1>1, <1>2

\* Both may set the field or neither.
LEMMA MaySetAlike ==
  ASSUME NEW layout, NEW c, NEW g, Together(layout, c, g), NEW i, NEW accepted
  PROVE  /\ MaySet(layout, c, i, accepted) => Steady(layout, c, g)
         /\ Steady(layout, c, g) =>
              (MaySet(layout, c, i, accepted) <=> MaySet(layout, g, i, accepted))
BY DEF Together, Broken, Steady, Alike, AnswerAlike, MaySet

\* set_unsigned(), set_signed() and set_float().
LEMMA SetScalarTogether ==
  ASSUME NEW layout, Fits(layout), NEW c, NEW g, Together(layout, c, g), NEW i,
         NEW accepted, NEW value
  PROVE  Together(layout, SetScalar(layout, c, i, accepted, value),
                          SetScalar(layout, g, i, accepted, value))
<1>1. CASE ~MaySet(layout, c, i, accepted) /\ ~Steady(layout, c, g)
  <2>1. SetScalar(layout, c, i, accepted, value) = Refused(c)
    BY <1>1 DEF SetScalar
  <2>2. Broken(Refused(c))
    BY <1>1 DEF Together, Broken, Refused, ContiguousParts
  <2>. QED
    BY <2>1, <2>2 DEF Together
<1>2. CASE ~MaySet(layout, c, i, accepted) /\ Steady(layout, c, g)
  <2>1. ~MaySet(layout, g, i, accepted)
    BY <1>2, MaySetAlike
  <2>2. /\ SetScalar(layout, c, i, accepted, value) = Refused(c)
        /\ SetScalar(layout, g, i, accepted, value) = Refused(g)
    BY <1>2, <2>1 DEF SetScalar
  <2>. QED
    BY <2>2, RefusedTogether
<1>3. CASE MaySet(layout, c, i, accepted)
  <2>. DEFINE c2 == AdvanceTo(layout, c, i)  g2 == AdvanceTo(layout, g, i)
  <2>1. Steady(layout, c, g) /\ MaySet(layout, g, i, accepted) /\ i \in DOMAIN layout.fields
    BY <1>3, MaySetAlike DEF MaySet
  <2>2. i \in c.next..(Len(layout.fields) + 1)
    BY <1>3, <2>1 DEF MaySet, Steady, Fits
  <2>3. Related(layout, c2, g2, i)
    BY <2>1, <2>2, AdvanceRelated DEF Steady
  <2>4. /\ SetScalar(layout, c, i, accepted, value) =
             IF c2.status # "ok" THEN c2 ELSE Written(PutScalar(layout, c2, i, value), i)
        /\ SetScalar(layout, g, i, accepted, value) =
             IF g2.status # "ok" THEN g2 ELSE Written(PutScalar(layout, g2, i, value), i)
    BY <1>3, <2>1 DEF SetScalar
  <2>. HIDE DEF c2, g2
  <2>5. CASE c2.status # "ok"
    BY <2>3, <2>4, <2>5 DEF Related, Together
  <2>6. CASE c2.status = "ok"
    <3>1. Alike(layout, c2, g2, i) /\ Len(g2.segments) <= 2 * (i - 1) /\ g2.status = "ok"
      BY <2>3, <2>6 DEF Related, Alike, AnswerAlike
    <3>2. Len(g2.segments) <= 2 * (i - 1) + 1
      <4>1. PICK V : g2.segments \in Seq(Seq(V))
        BY <3>1 DEF Alike, Holding
      <4>2. Len(g2.segments) \in Nat
        BY <4>1
      <4>. QED
        BY <2>1, <3>1, <4>2 DEF Fits
    <3>3. Related(layout, PutScalar(layout, c2, i, value), PutScalar(layout, g2, i, value), i + 1)
      BY <2>1, <3>1, <3>2, PutScalarRelated
    <3>4. Together(layout, Written(PutScalar(layout, c2, i, value), i),
                           Written(PutScalar(layout, g2, i, value), i))
      BY <2>1, <3>3, WrittenTogether
    <3>. QED
      BY <2>4, <2>6, <3>1, <3>4
  <2>. QED
    BY <2>5, <2>6
<1>. QED
  BY <1>1, <1>2, <1>3

\* What the one copies the other may borrow.
LEMMA SetPayloadTogether ==
  ASSUME NEW layout, Fits(layout), NEW c, NEW g, Together(layout, c, g), NEW i,
         NEW accepted, NEW storage \in Storages, NEW W, NEW payload,
         i \in DOMAIN layout.fields /\ accepted =>
           payload \in Seq(W) /\ ~Has(layout.fields[i].checksum)
  PROVE  Together(layout, SetPayload(layout, c, i, accepted, payload, "owned"),
                          SetPayload(layout, g, i, accepted, payload, storage))
<1>1. CASE ~MaySet(layout, c, i, accepted) /\ ~Steady(layout, c, g)
  <2>1. SetPayload(layout, c, i, accepted, payload, "owned") = Refused(c)
    BY <1>1 DEF SetPayload
  <2>2. Broken(Refused(c))
    BY <1>1 DEF Together, Broken, Refused, ContiguousParts
  <2>. QED
    BY <2>1, <2>2 DEF Together
<1>2. CASE ~MaySet(layout, c, i, accepted) /\ Steady(layout, c, g)
  <2>1. ~MaySet(layout, g, i, accepted)
    BY <1>2, MaySetAlike
  <2>2. /\ SetPayload(layout, c, i, accepted, payload, "owned") = Refused(c)
        /\ SetPayload(layout, g, i, accepted, payload, storage) = Refused(g)
    BY <1>2, <2>1 DEF SetPayload
  <2>. QED
    BY <2>2, RefusedTogether
<1>3. CASE MaySet(layout, c, i, accepted)
  <2>. DEFINE c2 == AdvanceTo(layout, c, i)  g2 == AdvanceTo(layout, g, i)
              c3 == Put(c2, i, payload, "owned")  g3 == Put(g2, i, payload, storage)
  <2>1. /\ Steady(layout, c, g) /\ MaySet(layout, g, i, accepted) /\ i \in DOMAIN layout.fields
        /\ payload \in Seq(W) /\ ~Has(layout.fields[i].checksum)
    BY <1>3, MaySetAlike DEF MaySet
  <2>2. i \in c.next..(Len(layout.fields) + 1)
    BY <1>3, <2>1 DEF MaySet, Steady, Fits
  <2>3. Related(layout, c2, g2, i)
    BY <2>1, <2>2, AdvanceRelated DEF Steady
  <2>4. /\ SetPayload(layout, c, i, accepted, payload, "owned") =
             IF c2.status # "ok" THEN c2 ELSE Written(c3, i)
        /\ SetPayload(layout, g, i, accepted, payload, storage) =
             IF g2.status # "ok" THEN g2 ELSE Written(g3, i)
    BY <1>3, <2>1 DEF SetPayload
  <2>. HIDE DEF c2, g2
  <2>5. CASE c2.status # "ok"
    BY <2>3, <2>4, <2>5 DEF Related, Together
  <2>6. CASE c2.status = "ok"
    <3>1. Alike(layout, c2, g2, i) /\ Len(g2.segments) <= 2 * (i - 1) /\ g2.status = "ok"
      BY <2>3, <2>6 DEF Related, Alike, AnswerAlike
    <3>2. Len(g2.segments) <= 2 * (i - 1) + 1
      <4>1. PICK V : g2.segments \in Seq(Seq(V))
        BY <3>1 DEF Alike, Holding
      <4>2. Len(g2.segments) \in Nat
        BY <4>1
      <4>. QED
        BY <2>1, <3>1, <4>2 DEF Fits
    <3>3. Related(layout, c3, g3, i + 1)
      BY <2>1, <3>1, <3>2, PutRelated
    <3>. HIDE DEF c3, g3
    <3>4. Together(layout, Written(c3, i), Written(g3, i))
      BY <2>1, <3>3, WrittenTogether
    <3>. QED
      BY <2>4, <2>6, <3>1, <3>4
  <2>. QED
    BY <2>5, <2>6
<1>. QED
  BY <1>1, <1>2, <1>3

-----------------------------------------------------------------------------

\* A digest takes the place of its placeholder, in one buffer or in a segment.
LEMMA PatchAlike ==
  ASSUME NEW layout, Fits(layout), NEW c, NEW g, NEW n, n = Len(layout.fields) + 1,
         Alike(layout, c, g, n), NEW field \in DOMAIN layout.fields,
         Has(layout.fields[field].checksum), NEW digest
  PROVE  LET c2 == Patch(layout, c, field, digest)
             g2 == Patch(layout, g, field, digest)
         IN  /\ Alike(layout, c2, g2, n)
             /\ c2.status = c.status /\ c2.next = c.next
             /\ Len(g2.segments) = Len(g.segments)
<1>. DEFINE c2 == Patch(layout, c, field, digest)
            g2 == Patch(layout, g, field, digest)
            patch == WriteUnsigned(digest, layout.fields[field].width, layout.fields[field].order)
            k == g.segment[field]  m == Len(g.segments)
            segs == g.segments  patched == Replaced(segs, k, patch)
            offset == Len(JoinedUpto(segs, k - 1))
<1>1. DOMAIN c = ContiguousParts /\ DOMAIN g = SegmentedParts /\ FlattenSeq(segs) = c.bytes
  BY DEF Alike, Shaped
<1>2. /\ c2 = [c EXCEPT !.bytes = Overwrite(c.bytes, c.starts[field], patch)]
      /\ g2 = [g EXCEPT !.segments = patched]
  <2>1. Patch(layout, c, field, digest) = ContiguousPatch(layout, c, field, digest)
    BY <1>1 DEF Patch, IsContiguous, ContiguousParts
  <2>2. Patch(layout, g, field, digest) = SegmentedPatch(layout, g, field, digest)
    BY <1>1 DEF Patch, IsContiguous, SegmentedParts
  <2>. QED
    BY <2>1, <2>2 DEF ContiguousPatch, SegmentedPatch, Replaced
<1>3. layout.fields[field].width \in Nat
  BY DEF Fits, FieldFits
<1>4. PICK W : patch \in Seq(W) /\ Len(patch) = layout.fields[field].width
  BY <1>3, WriteUnsignedIsSeq
<1>5. /\ k \in 1..m /\ c.starts[field] = offset
      /\ Len(segs[k]) = layout.fields[field].width
  <2>1. field \in 1..(n - 1)
    BY DEF Fits
  <2>. QED
    BY <2>1 DEF Alike, Located
<1>. HIDE DEF patch
<1>6. PICK V : c.bytes \in Seq(V) /\ segs \in Seq(Seq(V)) /\ patch \in Seq(V)
  <2>1. PICK U : c.bytes \in Seq(U) /\ segs \in Seq(Seq(U))
    BY DEF Alike, Holding
  <2>. DEFINE V == U \cup W
  <2>2. c.bytes \in Seq(V) /\ patch \in Seq(V)
    BY <1>4, <2>1, SeqMonotonic
  <2>3. Seq(U) \subseteq Seq(V)
    BY SeqMonotonic
  <2>4. segs \in Seq(Seq(V))
    <3>. HIDE DEF V, segs
    <3>. QED
      BY <2>1, <2>3, SeqMonotonic
  <2>. QED
    BY <2>2, <2>4
<1>7. m \in Nat
  BY <1>6
<1>8. /\ c2.bytes = Overwrite(c.bytes, offset, patch)
      /\ DOMAIN c2 = ContiguousParts /\ c2.status = c.status /\ c2.next = c.next
      /\ c2.failed = c.failed /\ c2.finalized = c.finalized
      /\ c2.starts = c.starts /\ c2.ends = c.ends /\ c2.written = c.written
  <2>. HIDE DEF offset
  <2>. QED
    BY <1>1, <1>2, <1>5 DEF ContiguousParts
<1>9. /\ g2.segments = patched
      /\ DOMAIN g2 = SegmentedParts /\ g2.status = g.status /\ g2.next = g.next
      /\ g2.failed = g.failed /\ g2.finalized = g.finalized
      /\ g2.starts = g.starts /\ g2.ends = g.ends /\ g2.written = g.written
      /\ g2.segment = g.segment /\ g2.scratch = g.scratch
  BY <1>1, <1>2 DEF SegmentedParts
<1>. HIDE DEF c2, g2
<1>10. /\ patched \in Seq(Seq(V)) /\ Len(patched) = m /\ patched[k] = patch
       /\ \A i \in 1..m : i # k => patched[i] = segs[i]
  BY <1>5, <1>6 DEF Replaced
<1>. HIDE DEF k, segs
<1>11. Len(patch) = Len(segs[k])
  BY <1>4, <1>5
<1>12. ASSUME NEW i \in k..m
       PROVE  /\ offset \in Nat /\ offset + Len(patch) <= Len(JoinedUpto(segs, i))
              /\ JoinedUpto(patched, i) = Overwrite(JoinedUpto(segs, i), offset, patch)
              /\ Len(JoinedUpto(patched, i)) = Len(JoinedUpto(segs, i))
  <2>1. k \in 1..Len(segs) /\ i \in k..Len(segs)
    BY <1>5, <1>12 DEF segs
  <2>. QED
    BY <1>6, <1>11, <2>1, JoinedUptoPatched
<1>13. JoinedUpto(segs, m) = c.bytes
  BY <1>1, <1>6, JoinedUptoAll DEF segs
<1>14. JoinedUpto(patched, m) = FlattenSeq(patched)
  <2>. HIDE DEF patched
  <2>1. JoinedUpto(patched, Len(patched)) = FlattenSeq(patched)
    BY <1>10, JoinedUptoAll
  <2>. QED
    BY <1>10, <2>1
<1>15. m \in k..m
  BY <1>5, <1>7
<1>16. /\ FlattenSeq(g2.segments) = c2.bytes /\ Len(c2.bytes) = Len(c.bytes)
       /\ offset \in Nat /\ offset + Len(patch) <= Len(c.bytes)
  BY <1>8, <1>9, <1>12, <1>13, <1>14, <1>15
<1>17. c2.bytes \in Seq(V)
  <2>. HIDE DEF offset
  <2>. QED
    BY <1>6, <1>8, <1>16, OverwriteProperties
<1>18. ASSUME NEW i \in 1..m
       PROVE  /\ Len(JoinedUpto(patched, i - 1)) = Len(JoinedUpto(segs, i - 1))
              /\ Len(patched[i]) = Len(segs[i])
  <2>1. Len(patched[i]) = Len(segs[i])
    BY <1>10, <1>11
  <2>2. CASE i - 1 \in k..m
    BY <1>12, <2>1, <2>2
  <2>3. CASE ~(i - 1 \in k..m)
    <3>. DEFINE j == i - 1
    <3>1. j \in Nat /\ j <= m /\ \A l \in 1..j : l \in 1..m /\ l # k
      BY <1>5, <1>7, <2>3
    <3>2. Len(segs) = m /\ \A l \in 1..j : patched[l] = segs[l]
      BY <1>10, <3>1 DEF segs
    <3>. HIDE DEF j, patched
    <3>3. JoinedUpto(patched, j) = JoinedUpto(segs, j)
      BY <1>6, <1>10, <3>1, <3>2, JoinedUptoAlike
    <3>. QED
      BY <2>1, <3>3 DEF j
  <2>. QED
    BY <2>2, <2>3
<1>. HIDE DEF offset, patched
<1>19. Located(layout, c2, g2, n)
  <2>. SUFFICES ASSUME NEW i \in 1..(n - 1)
                PROVE  /\ g2.segment[i] \in 1..Len(g2.segments)
                       /\ c2.starts[i] = Len(JoinedUpto(g2.segments, g2.segment[i] - 1))
                       /\ Has(layout.fields[i].checksum) =>
                            Len(g2.segments[g2.segment[i]]) = layout.fields[i].width
    BY DEF Located
  <2>1. /\ g.segment[i] \in 1..m
        /\ c.starts[i] = Len(JoinedUpto(segs, g.segment[i] - 1))
        /\ Has(layout.fields[i].checksum) =>
             Len(segs[g.segment[i]]) = layout.fields[i].width
    BY DEF Alike, Located, segs
  <2>. QED
    BY <1>8, <1>9, <1>10, <1>18, <2>1
<1>20. AnswerAlike(c2, g2) /\ Shaped(layout, c2, g2) /\ ~c2.failed /\ ~g2.failed
  BY <1>8, <1>9 DEF Alike, AnswerAlike, Shaped
<1>21. g2.scratch \in Nat /\ g2.scratch <= Len(c2.bytes)
  BY <1>9, <1>16 DEF Alike
<1>22. Holding(c2, g2)
  BY <1>9, <1>10, <1>17 DEF Holding
<1>23. Alike(layout, c2, g2, n)
  BY <1>16, <1>19, <1>20, <1>21, <1>22 DEF Alike
<1>. QED
  BY <1>8, <1>9, <1>10, <1>23 DEF c2, g2, m, segs

\* While the checksums are written, after every field.
Summing(layout, c, g) ==
  LET n == Len(layout.fields) + 1
  IN  Related(layout, c, g, n) /\ (c.status = "ok" => c.next = n)

\* A checksum is over the same bytes, and is written in the same place.
LEMMA WriteChecksumSumming ==
  ASSUME NEW layout, Fits(layout), NEW c, NEW g, Summing(layout, c, g), NEW sum,
         sum.field \in DOMAIN layout.fields, Has(layout.fields[sum.field].checksum)
  PROVE  Summing(layout, WriteChecksum(layout, c, sum), WriteChecksum(layout, g, sum))
<1>. DEFINE n == Len(layout.fields) + 1
<1>1. CASE c.status # "ok"
  BY <1>1 DEF Summing, Related, WriteChecksum
<1>2. CASE c.status = "ok"
  <2>. DEFINE total == Len(c.bytes)
              from == AnchorOffset(sum.from, c.starts, c.ends, total)
              to == AnchorOffset(sum.to, c.starts, c.ends, total)
              digest == Digest(Slice(c.bytes, from, to - from), sum.width)
              c2 == Patch(layout, c, sum.field, digest)
              g2 == Patch(layout, g, sum.field, digest)
              c3 == Noted(c2, sum.field, digest)  g3 == Noted(g2, sum.field, digest)
  <2>1. /\ Alike(layout, c, g, n) /\ Len(g.segments) <= 2 * (n - 1) /\ g.status = "ok"
        /\ g.starts = c.starts /\ g.ends = c.ends /\ c.next = n
    BY <1>2 DEF Summing, Related, Alike, AnswerAlike
  <2>2. Output(c) = c.bytes /\ Output(g) = c.bytes
    BY <2>1 DEF Output, IsContiguous, Joined, Alike, Shaped, ContiguousParts, SegmentedParts
  <2>3. /\ WriteChecksum(layout, c, sum) =
             IF from > to \/ to > total THEN Fails(c, "invalid_data") ELSE c3
        /\ WriteChecksum(layout, g, sum) =
             IF from > to \/ to > total THEN Fails(g, "invalid_data") ELSE g3
    BY <1>2, <2>1, <2>2 DEF WriteChecksum, Noted
  <2>. HIDE DEF from, to, total, digest
  <2>4. CASE from > to \/ to > total
    <3>1. Broken(Fails(c, "invalid_data")) /\ Fails(c, "invalid_data").status # "ok"
      BY <2>1 DEF Fails, Broken, Alike, Shaped, ContiguousParts
    <3>. HIDE DEF n
    <3>2. WriteChecksum(layout, c, sum) = Fails(c, "invalid_data")
      BY <2>3, <2>4
    <3>. QED
      BY <3>1, <3>2 DEF Related, Summing
  <2>5. CASE ~(from > to \/ to > total)
    <3>1. /\ Alike(layout, c2, g2, n) /\ c2.status = c.status /\ c2.next = c.next
          /\ Len(g2.segments) = Len(g.segments)
      BY <2>1, PatchAlike
    <3>. HIDE DEF c2, g2
    <3>2. /\ Alike(layout, c3, g3, n) /\ c3.status = c2.status /\ c3.next = c2.next
          /\ g3.segments = g2.segments
      BY <3>1, AlikeWritten
    <3>. HIDE DEF c3, g3
    <3>3. c3.status = "ok" /\ c3.next = n /\ Len(g3.segments) <= 2 * (n - 1)
      BY <1>2, <2>1, <3>1, <3>2
    <3>4. Related(layout, c3, g3, n)
      BY <3>2, <3>3 DEF Related
    <3>5. Summing(layout, c3, g3)
      BY <3>3, <3>4 DEF Summing
    <3>. QED
      BY <2>3, <2>5, <3>5
  <2>. QED
    BY <2>4, <2>5
<1>. QED
  BY <1>1, <1>2

\* The checksums written, one after the other.
Summed(layout, builder, m, f) ==
  f = [k \in 0..m |-> IF k = 0 THEN builder
                      ELSE WriteChecksum(layout, f[k - 1], layout.checksums[k])]

\* There may be any number of them.
LEMMA SummedExists ==
  ASSUME NEW layout, NEW builder, NEW n \in Nat
  PROVE  \E f : Summed(layout, builder, n, f)
<1>. DEFINE S == {m \in Nat : \E f : Summed(layout, builder, m, f)}
<1>1. 0 \in S
  <2>. DEFINE f == [k \in 0..0 |-> builder]
  <2>1. f = [k \in 0..0 |-> IF k = 0 THEN builder
                            ELSE WriteChecksum(layout, f[k - 1], layout.checksums[k])]
    OBVIOUS
  <2>2. Summed(layout, builder, 0, f)
    BY <2>1 DEF Summed
  <2>. QED
    BY <2>2
<1>2. ASSUME NEW m \in Nat, m \in S PROVE m + 1 \in S
  <2>1. PICK f : Summed(layout, builder, m, f)
    BY <1>2
  <2>. DEFINE last == m + 1
              g == [k \in 0..last |-> IF k = last
                                      THEN WriteChecksum(layout, f[m], layout.checksums[k])
                                      ELSE f[k]]
              h == [k \in 0..last |-> IF k = 0 THEN builder
                                      ELSE WriteChecksum(layout, g[k - 1], layout.checksums[k])]
  <2>2. ASSUME NEW k \in 0..last PROVE g[k] = h[k]
    <3>1. CASE k = last
      <4>1. k - 1 = m /\ k - 1 \in 0..last /\ k - 1 # last /\ k # 0
        BY <3>1
      <4>2. g[k - 1] = f[m]
        BY <4>1
      <4>. QED
        BY <3>1, <4>1, <4>2
    <3>2. CASE k # last
      <4>1. k \in 0..m /\ (k # 0 => k - 1 \in 0..last /\ k - 1 # last)
        BY <3>2
      <4>2. f[k] = IF k = 0 THEN builder ELSE WriteChecksum(layout, f[k - 1], layout.checksums[k])
        BY <2>1, <4>1 DEF Summed
      <4>3. k # 0 => g[k - 1] = f[k - 1]
        BY <4>1
      <4>4. /\ g[k] = f[k]
            /\ h[k] = IF k = 0 THEN builder
                      ELSE WriteChecksum(layout, g[k - 1], layout.checksums[k])
        BY <3>2
      <4>. HIDE DEF g, h, last
      <4>. QED
        BY <4>2, <4>3, <4>4
    <3>. QED
      BY <3>1, <3>2
  <2>3. g = h
    BY <2>2
  <2>4. Summed(layout, builder, last, g)
    <3>. HIDE DEF g
    <3>. QED
      BY <2>3 DEF Summed
  <2>. QED
    BY <2>4
<1>. HIDE DEF S
<1>3. \A m \in Nat : m \in S
  BY <1>1, <1>2, Induction
<1>. QED
  BY <1>3 DEF S

\* finalize() writes them one after the other.
LEMMA WriteChecksumsIsSummed ==
  ASSUME NEW layout, Fits(layout), NEW builder
  PROVE  \E f : /\ Summed(layout, builder, Len(layout.checksums), f)
                /\ WriteChecksums(layout, builder) = f[Len(layout.checksums)]
<1>. DEFINE f == CHOOSE u : Summed(layout, builder, Len(layout.checksums), u)
<1>1. Summed(layout, builder, Len(layout.checksums), f)
  BY SummedExists DEF Fits
<1>2. WriteChecksums(layout, builder) = f[Len(layout.checksums)]
  BY DEF WriteChecksums, Summed
<1>. QED
  BY <1>1, <1>2

\* The checksums are written alike.
LEMMA WriteChecksumsSumming ==
  ASSUME NEW layout, Fits(layout), NEW c, NEW g, Summing(layout, c, g)
  PROVE  Summing(layout, WriteChecksums(layout, c), WriteChecksums(layout, g))
<1>. DEFINE n == Len(layout.checksums)
<1>1. PICK fc : Summed(layout, c, n, fc) /\ WriteChecksums(layout, c) = fc[n]
  BY WriteChecksumsIsSummed
<1>2. PICK fg : Summed(layout, g, n, fg) /\ WriteChecksums(layout, g) = fg[n]
  BY WriteChecksumsIsSummed
<1>. DEFINE S == {m \in Nat : m <= n => Summing(layout, fc[m], fg[m])}
<1>3. n \in Nat
  BY DEF Fits
<1>. HIDE DEF n
<1>4. 0 \in S
  <2>1. fc[0] = c /\ fg[0] = g
    BY <1>1, <1>2, <1>3 DEF Summed
  <2>. QED
    BY <2>1
<1>5. ASSUME NEW m \in Nat, m \in S PROVE m + 1 \in S
  <2>. SUFFICES ASSUME m + 1 <= n PROVE Summing(layout, fc[m + 1], fg[m + 1])
    OBVIOUS
  <2>1. Summing(layout, fc[m], fg[m])
    BY <1>3, <1>5
  <2>. DEFINE k == m + 1
  <2>2. k \in 0..n /\ k # 0 /\ k - 1 = m /\ k \in 1..n
    BY <1>3
  <2>. HIDE DEF k
  <2>3. /\ fc[k] = WriteChecksum(layout, fc[m], layout.checksums[k])
        /\ fg[k] = WriteChecksum(layout, fg[m], layout.checksums[k])
    BY <1>1, <1>2, <2>2 DEF Summed
  <2>4. /\ layout.checksums[k].field \in DOMAIN layout.fields
        /\ Has(layout.fields[layout.checksums[k].field].checksum)
    BY <2>2 DEF Fits, n
  <2>5. Summing(layout, fc[k], fg[k])
    BY <2>1, <2>3, <2>4, WriteChecksumSumming
  <2>. QED
    BY <2>5 DEF k
<1>. HIDE DEF S
<1>6. \A m \in Nat : m \in S
  BY <1>4, <1>5, Induction
<1>7. Summing(layout, fc[n], fg[n])
  BY <1>3, <1>6 DEF S
<1>. QED
  BY <1>1, <1>2, <1>7

\* finalize(), the first and the ones after it.
LEMMA FinalizeTogether ==
  ASSUME NEW layout, Fits(layout), NEW c, NEW g, Together(layout, c, g)
  PROVE  Together(layout, BuilderFinalize(layout, c), BuilderFinalize(layout, g))
<1>. DEFINE n == Len(layout.fields) + 1
<1>1. CASE Broken(c)
  <2>1. BuilderFinalize(layout, c) = Refused(c)
    BY <1>1 DEF BuilderFinalize, Broken
  <2>2. Broken(Refused(c))
    BY <1>1 DEF Broken, Refused, ContiguousParts
  <2>. QED
    BY <2>1, <2>2 DEF Together
<1>2. CASE Steady(layout, c, g) /\ c.finalized
  <2>. DEFINE c2 == [c EXCEPT !.status = "ok"]  g2 == [g EXCEPT !.status = "ok"]
  <2>1. BuilderFinalize(layout, c) = c2 /\ BuilderFinalize(layout, g) = g2
    BY <1>2 DEF Steady, Alike, AnswerAlike, BuilderFinalize
  <2>2. Alike(layout, c2, g2, c.next)
    BY <1>2, AlikeStatus DEF Steady
  <2>3. c2.next = c.next /\ g2.segments = g.segments
    BY <1>2 DEF Steady, Alike, Shaped, ContiguousParts, SegmentedParts
  <2>. HIDE DEF c2, g2
  <2>. QED
    BY <1>2, <2>1, <2>2, <2>3 DEF Together, Steady
<1>3. CASE Steady(layout, c, g) /\ ~c.finalized
  <2>. DEFINE c2 == AdvanceTo(layout, c, n)  g2 == AdvanceTo(layout, g, n)
              c3 == WriteChecksums(layout, c2)  g3 == WriteChecksums(layout, g2)
              Check(b) == IF b.status # "ok" THEN b
                          ELSE IF ~RulesPass(layout, b.written) THEN Fails(b, "invalid_data")
                          ELSE [b EXCEPT !.finalized = TRUE]
  <2>1. n \in c.next..n
    BY <1>3 DEF Steady, Fits
  <2>2. Related(layout, c2, g2, n) /\ (c2.status = "ok" => c2.next = n)
    BY <1>3, <2>1, AdvanceRelated DEF Steady
  <2>3. BuilderFinalize(layout, c) = Check(c3) /\ BuilderFinalize(layout, g) = Check(g3)
    BY <1>3 DEF Steady, Alike, AnswerAlike, BuilderFinalize, Complete
  <2>. HIDE DEF c2, g2
  <2>4. Summing(layout, c2, g2)
    BY <2>2 DEF Summing
  <2>5. Summing(layout, c3, g3)
    BY <2>4, WriteChecksumsSumming
  <2>. HIDE DEF c3, g3
  <2>6. CASE c3.status # "ok"
    BY <2>3, <2>5, <2>6 DEF Summing, Related, Together
  <2>7. CASE c3.status = "ok"
    <3>1. /\ Alike(layout, c3, g3, n) /\ Len(g3.segments) <= 2 * (n - 1) /\ c3.next = n
          /\ g3.status = "ok" /\ g3.written = c3.written
      BY <2>5, <2>7 DEF Summing, Related, Alike, AnswerAlike
    <3>2. CASE ~RulesPass(layout, c3.written)
      <4>1. BuilderFinalize(layout, c) = Fails(c3, "invalid_data")
        BY <2>3, <2>7, <3>2
      <4>2. Broken(Fails(c3, "invalid_data"))
        BY <3>1 DEF Broken, Fails, Alike, Shaped, ContiguousParts
      <4>. QED
        BY <4>1, <4>2 DEF Together
    <3>3. CASE RulesPass(layout, c3.written)
      <4>. DEFINE c4 == [c3 EXCEPT !.finalized = TRUE]  g4 == [g3 EXCEPT !.finalized = TRUE]
      <4>1. BuilderFinalize(layout, c) = c4 /\ BuilderFinalize(layout, g) = g4
        BY <2>3, <2>7, <3>1, <3>3
      <4>2. Alike(layout, c4, g4, n)
        BY <3>1, AlikeOther
      <4>3. c4.next = n /\ g4.segments = g3.segments
        BY <3>1 DEF Alike, Shaped, ContiguousParts, SegmentedParts
      <4>4. n \in 1..n
        BY DEF Fits
      <4>. HIDE DEF c4, g4
      <4>5. Steady(layout, c4, g4)
        BY <3>1, <4>2, <4>3, <4>4 DEF Steady
      <4>. QED
        BY <4>1, <4>5 DEF Together
    <3>. QED
      BY <3>2, <3>3
  <2>. QED
    BY <2>6, <2>7
<1>. QED
  BY <1>1, <1>2, <1>3 DEF Together

-----------------------------------------------------------------------------
\* The inductive invariant: the layout in use is a compiled one, and the builders
\* are together.
IInv == Fits(Layout) /\ Together(Layout, contiguous, segmented)

\* Two new builders.
LEMMA NewTogether ==
  ASSUME NEW layout, Fits(layout)
  PROVE  Together(layout, NewContiguous(layout), NewSegmented(layout))
<1>. DEFINE c == NewContiguous(layout)  g == NewSegmented(layout)
<1>1. /\ DOMAIN c = ContiguousParts /\ c.next = 1 /\ c.failed = FALSE /\ c.bytes = <<>>
      /\ DOMAIN g = SegmentedParts /\ g.failed = FALSE /\ g.segments = <<>> /\ g.scratch = 0
  BY DEF NewContiguous, NewSegmented, ContiguousParts, SegmentedParts
<1>2. AnswerAlike(c, g)
  BY DEF AnswerAlike, NewContiguous, NewSegmented
<1>3. Shaped(layout, c, g)
  <2>1. /\ DOMAIN c.starts = DOMAIN layout.fields /\ DOMAIN c.ends = DOMAIN layout.fields
        /\ DOMAIN c.written = DOMAIN layout.fields /\ DOMAIN g.segment = DOMAIN layout.fields
    BY DEF NewContiguous, NewSegmented
  <2>. QED
    BY <1>1, <2>1 DEF Shaped
<1>. HIDE DEF c, g
<1>4. <<>> \in Seq(Seq({})) /\ <<>> \in Seq({}) /\ Len(<<>>) = 0
  BY EmptySeq
<1>5. FlattenSeq(<<>>) = <<>>
  <2>1. JoinedUpto(<<>>, Len(<<>>)) = FlattenSeq(<<>>)
    BY <1>4, JoinedUptoAll
  <2>2. JoinedUpto(<<>>, 0) = <<>>
    BY JoinedUptoNone
  <2>. QED
    BY <1>4, <2>1, <2>2
<1>6. Holding(c, g)
  BY <1>1, <1>4 DEF Holding
<1>7. Located(layout, c, g, 1)
  BY DEF Located
<1>8. Alike(layout, c, g, 1)
  BY <1>1, <1>2, <1>3, <1>4, <1>5, <1>6, <1>7 DEF Alike
<1>9. 1 \in 1..(Len(layout.fields) + 1)
  BY DEF Fits
<1>10. Steady(layout, c, g)
  BY <1>1, <1>4, <1>8, <1>9 DEF Steady
<1>. QED
  BY <1>10 DEF Together, c, g

\* The invariant holds at first.
LEMMA InitTogether == Init => IInv
<1>. SUFFICES ASSUME Init PROVE IInv
  OBVIOUS
<1>1. PICK d \in Definitions : protocol = Compile(d) /\ Compile(d).ok
  BY DEF Init
<1>2. message \in DOMAIN Compile(d).messages
  BY <1>1 DEF Init
<1>3. Fits(Layout)
  <2>1. Fits(Compile(d).messages[message])
    BY <1>1, <1>2, ProtocolsFit
  <2>. QED
    BY <1>1, <2>1 DEF Layout
<1>4. Together(Layout, contiguous, segmented)
  BY <1>3, NewTogether DEF Init
<1>. QED
  BY <1>3, <1>4 DEF IInv

\* What a set_ call copies of a payload long enough.
LEMMA CopiedBytesType ==
  ASSUME NEW field, FieldFits(field), NEW payload \in Seq(Bytes),
         IsDynamic(field) \/ Len(payload) >= field.size
  PROVE  CopiedBytes(field, payload) \in Seq(Bytes)
<1>1. CASE IsDynamic(field)
  BY <1>1 DEF CopiedBytes
<1>2. CASE ~IsDynamic(field)
  <2>1. CopiedBytes(field, payload) = SubSeq(payload, 1, field.size)
    BY <1>2 DEF CopiedBytes
  <2>2. field.size \in Nat /\ field.size <= Len(payload)
    BY <1>2 DEF FieldFits
  <2>3. SubSeq(payload, 1, field.size) \in Seq(Bytes)
    <3>. DEFINE n == field.size
    <3>1. n \in Nat /\ n <= Len(payload)
      BY <2>2
    <3>. HIDE DEF n
    <3>2. SubSeq(payload, 1, n) = [k \in 1..n |-> payload[k]]
      BY <3>1
    <3>3. \A k \in 1..n : payload[k] \in Bytes
      BY <3>1
    <3>4. SubSeq(payload, 1, n) \in Seq(Bytes)
      BY <3>1, <3>2, <3>3
    <3>. QED
      BY <3>4 DEF n
  <2>. QED
    BY <2>1, <2>3
<1>. QED
  BY <1>1, <1>2

\* set_bytes() and set_string().
LEMMA SetBytesTogether ==
  ASSUME NEW layout, Fits(layout), NEW c, NEW g, Together(layout, c, g),
         NEW i \in DOMAIN layout.fields, NEW payload \in Seq(Bytes),
         IsDynamic(layout.fields[i]) \/ Len(payload) >= layout.fields[i].size
  PROVE  /\ Together(layout, BuilderSetBytes(layout, c, i, payload),
                             BuilderSetBytes(layout, g, i, payload))
         /\ Together(layout, BuilderSetString(layout, c, i, payload),
                             BuilderSetString(layout, g, i, payload))
<1>. DEFINE field == layout.fields[i]  copied == CopiedBytes(field, payload)
<1>1. FieldFits(field)
  BY DEF Fits
<1>2. copied \in Seq(Bytes)
  BY <1>1, CopiedBytesType
<1>3. /\ BytesAccepted(field) => ~Has(field.checksum)
      /\ StringAccepted(field) => ~Has(field.checksum)
  BY <1>1 DEF FieldFits, BytesAccepted, StringAccepted
<1>. HIDE DEF copied
<1>4. ASSUME NEW accepted, accepted => ~Has(field.checksum)
      PROVE  Together(layout, SetPayload(layout, c, i, accepted, copied, "owned"),
                              SetPayload(layout, g, i, accepted, copied, "owned"))
  BY <1>2, <1>4, SetPayloadTogether DEF Storages
<1>. QED
  BY <1>3, <1>4 DEF BuilderSetBytes, BuilderSetString, copied

\* attach_bytes() and attach_string() where the other builder copies.
LEMMA AttachTogether ==
  ASSUME NEW layout, Fits(layout), NEW c, NEW g, Together(layout, c, g),
         NEW i \in DOMAIN layout.fields, NEW payload \in Seq(Bytes), IsDynamic(layout.fields[i])
  PROVE  /\ Together(layout, BuilderSetBytes(layout, c, i, payload),
                             BuilderAttachBytes(layout, g, i, payload))
         /\ Together(layout, BuilderSetString(layout, c, i, payload),
                             BuilderAttachString(layout, g, i, payload))
<1>. DEFINE field == layout.fields[i]
<1>1. CopiedBytes(field, payload) = payload
  BY DEF CopiedBytes
<1>2. /\ BytesAccepted(field) = AttachBytesAccepted(field)
      /\ StringAccepted(field) = AttachStringAccepted(field)
  BY DEF BytesAccepted, AttachBytesAccepted, StringAccepted, AttachStringAccepted, IsDynamic, IsText
<1>3. /\ BytesAccepted(field) => ~Has(field.checksum)
      /\ StringAccepted(field) => ~Has(field.checksum)
  BY DEF Fits, FieldFits, BytesAccepted, StringAccepted
<1>4. ASSUME NEW accepted, accepted => ~Has(field.checksum)
      PROVE  Together(layout, SetPayload(layout, c, i, accepted, payload, "owned"),
                              SetPayload(layout, g, i, accepted, payload, "borrowed"))
  BY <1>4, SetPayloadTogether DEF Storages
<1>. QED
  BY <1>1, <1>2, <1>3, <1>4
  DEF BuilderSetBytes, BuilderSetString, BuilderAttachBytes, BuilderAttachString

\* Every call of a builder keeps the invariant.
LEMMA StepTogether == IInv /\ [Next]_vars => IInv'
<1>. SUFFICES ASSUME IInv, [Next]_vars PROVE IInv'
  OBVIOUS
<1>1. Fits(Layout) /\ Together(Layout, contiguous, segmented)
  BY DEF IInv
<1>2. Layout' = Layout /\ Fits(Layout)'
  <2>1. UNCHANGED <<protocol, message>>
    BY DEF Next, vars, Building, SetUnsigned, SetSigned, SetFloat, SetBytes, SetString,
           AttachBytes, AttachString, Finalize, Send, Receive
  <2>2. Layout' = Layout
    BY <2>1 DEF Layout
  <2>. QED
    BY <1>1, <2>2 DEF Fits, FieldFits
<1>3. Together(Layout, contiguous', segmented') => IInv'
  BY <1>2 DEF IInv, Together, Broken, Steady, Alike, AnswerAlike, Shaped, Holding, Located
<1>4. ASSUME NEW i \in DOMAIN Layout.fields, NEW number \in Numbers,
             SetUnsigned(i, number) \/ SetSigned(i, number) \/ SetFloat(i, number)
      PROVE  IInv'
  <2>1. ASSUME NEW accepted, NEW value,
               contiguous' = SetScalar(Layout, contiguous, i, accepted, value),
               segmented' = SetScalar(Layout, segmented, i, accepted, value)
        PROVE  IInv'
    BY <1>1, <1>3, <2>1, SetScalarTogether
  <2>2. CASE SetUnsigned(i, number)
    BY <2>1, <2>2 DEF SetUnsigned, BuilderSetUnsigned
  <2>3. CASE SetSigned(i, number)
    BY <2>1, <2>3 DEF SetSigned, BuilderSetSigned
  <2>4. CASE SetFloat(i, number)
    BY <2>1, <2>4 DEF SetFloat, BuilderSetFloat
  <2>. QED
    BY <1>4, <2>2, <2>3, <2>4
<1>5. ASSUME NEW i \in DOMAIN Layout.fields, NEW payload \in Payloads,
             SetBytes(i, payload) \/ SetString(i, payload)
      PROVE  IInv'
  <2>1. payload \in Seq(Bytes)
    BY CodecAssumption DEF CodecAssumption
  <2>2. IsDynamic(Layout.fields[i]) \/ Len(payload) >= Layout.fields[i].size
    BY <1>5 DEF SetBytes, SetString, LongEnough
  <2>. QED
    BY <1>1, <1>3, <1>5, <2>1, <2>2, SetBytesTogether DEF SetBytes, SetString
<1>6. ASSUME NEW i \in DOMAIN Layout.fields, NEW payload \in Payloads,
             AttachBytes(i, payload) \/ AttachString(i, payload)
      PROVE  IInv'
  <2>1. payload \in Seq(Bytes)
    BY CodecAssumption DEF CodecAssumption
  <2>. QED
    BY <1>1, <1>3, <1>6, <2>1, AttachTogether DEF AttachBytes, AttachString
<1>7. CASE Finalize
  BY <1>1, <1>3, <1>7, FinalizeTogether DEF Finalize
<1>8. CASE Send \/ Receive \/ UNCHANGED vars
  BY <1>1, <1>3, <1>8 DEF Send, Receive, vars
<1>. QED
  BY <1>4, <1>5, <1>6, <1>7, <1>8 DEF Next

\* Given the same calls, whatever they are, the two builders build the same bytes
\* and answer alike, and the segmented one needs no more room than the other.
THEOREM BuildersAgreeAlways == Spec => []BuildersAgree
<1>1. IInv => BuildersAgree
  <2>. SUFFICES ASSUME IInv, ~contiguous.failed PROVE BuildersAgree
    BY DEF BuildersAgree
  <2>1. Alike(Layout, contiguous, segmented, contiguous.next)
    BY DEF IInv, Together, Broken, Steady
  <2>2. Joined(segmented) = contiguous.bytes
    BY <2>1 DEF Alike, Joined
  <2>. QED
    BY <2>1, <2>2 DEF BuildersAgree, Alike, AnswerAlike
<1>. QED
  BY InitTogether, StepTogether, <1>1, PTL DEF Spec

-----------------------------------------------------------------------------

\* What a number of steps lead to, from a first value.
StepsOf(n, T, first, step, f) ==
  f \in [0..n -> T] /\ f[0] = first /\ \A i \in 1..n : f[i] = step[i][f[i - 1]]

\* A loop of n turns, each from the value the one before it left, has a run:
\* there are such values when each step stays among them.
LEMMA StepsExist ==
  ASSUME NEW n \in Nat, NEW T, NEW first \in T, NEW step,
         \A i \in 1..n, x \in T : step[i][x] \in T
  PROVE  \E f : StepsOf(n, T, first, step, f)
<1>. DEFINE Good(m, f) == f[0] = first /\ \A i \in 1..m : f[i] = step[i][f[i - 1]]
            S == {m \in Nat : m <= n => \E f \in [0..m -> T] : Good(m, f)}
<1>1. 0 \in S
  <2>. DEFINE f == [i \in 0..0 |-> first]
  <2>1. f \in [0..0 -> T] /\ Good(0, f)
    OBVIOUS
  <2>. QED
    BY <2>1
<1>2. ASSUME NEW m \in Nat, m \in S PROVE m + 1 \in S
  <2>. SUFFICES ASSUME m + 1 <= n PROVE \E g \in [0..(m + 1) -> T] : Good(m + 1, g)
    OBVIOUS
  <2>1. PICK f \in [0..m -> T] : Good(m, f)
    BY <1>2
  <2>. DEFINE next == step[m + 1][f[m]]
              g == [i \in 0..(m + 1) |-> IF i = m + 1 THEN next ELSE f[i]]
  <2>2. next \in T
    <3>1. m + 1 \in 1..n /\ f[m] \in T
      OBVIOUS
    <3>. QED
      BY <3>1
  <2>3. g \in [0..(m + 1) -> T]
    <3>. HIDE DEF next
    <3>. QED
      BY <2>2
  <2>4. g[0] = first
    BY <2>1
  <2>5. ASSUME NEW i \in 1..(m + 1) PROVE g[i] = step[i][g[i - 1]]
    <3>1. CASE i = m + 1
      <4>1. i - 1 = m /\ g[m] = f[m]
        BY <3>1
      <4>. QED
        BY <3>1, <4>1
    <3>2. CASE i # m + 1
      <4>1. i \in 1..m /\ g[i] = f[i] /\ g[i - 1] = f[i - 1]
        BY <3>2
      <4>. QED
        BY <2>1, <4>1
    <3>. QED
      BY <3>1, <3>2
  <2>. QED
    BY <2>3, <2>4, <2>5
<1>. HIDE DEF S
<1>3. n \in S
  BY <1>1, <1>2, Induction
<1>. QED
  BY <1>3 DEF S, StepsOf

\* Hence what a loop computes (the shifts of write_unsigned, the digest of a
\* checksum) exists, and each of its values is among the ones its steps stay among.
LEMMA StepsAreTyped ==
  ASSUME NEW n \in Nat, NEW T, NEW first \in T, NEW f, f[0] = first,
         \A i \in 1..n : f[i - 1] \in T => f[i] \in T
  PROVE  \A i \in 0..n : f[i] \in T
<1>. DEFINE S == {m \in Nat : m <= n => f[m] \in T}
<1>1. 0 \in S
  OBVIOUS
<1>2. ASSUME NEW m \in Nat, m \in S PROVE m + 1 \in S
  <2>1. m + 1 <= n => m + 1 \in 1..n /\ (m + 1) - 1 = m /\ m <= n
    OBVIOUS
  <2>. QED
    BY <1>2, <2>1
<1>. HIDE DEF S
<1>3. \A m \in Nat : m \in S
  BY <1>1, <1>2, Induction
<1>. QED
  BY <1>3 DEF S

-----------------------------------------------------------------------------
\* A byte has a number of values, and more than the four a bool or a status needs.
LEMMA BaseType == ByteBase \in Nat \ {0} /\ ByteBase >= 4
<1>1. ByteBase \in Nat /\ ByteBase > 0 /\ ByteBase % 4 = 0
  BY WireAssumption DEF WireAssumption
<1>. QED
  BY <1>1

\* The values a field of some bytes can hold are that many, computed byte by byte:
\* what write_unsigned_value() cuts a number to.
LEMMA ValuesType ==
  ASSUME NEW width \in Nat
  PROVE  Values(width) \in Nat \ {0}
<1>. DEFINE T == Nat \ {0}
            step == [i \in 1..width |-> [x \in T |-> ByteBase * x]]
            Steps(f) == f = [i \in 0..width |-> IF i = 0 THEN 1 ELSE ByteBase * f[i - 1]]
            c == CHOOSE f : Steps(f)
<1>1. \A x \in T : ByteBase * x \in T
  BY BaseType
<1>2. PICK f : StepsOf(width, T, 1, step, f)
  <2>1. \A i \in 1..width, x \in T : step[i][x] \in T
    BY <1>1
  <2>2. 1 \in T
    OBVIOUS
  <2>. HIDE DEF T, step
  <2>. QED
    BY <2>1, <2>2, StepsExist
<1>3. Steps(f)
  <2>1. ASSUME NEW i \in 0..width PROVE f[i] = IF i = 0 THEN 1 ELSE ByteBase * f[i - 1]
    <3>1. i # 0 => i \in 1..width /\ i - 1 \in 0..width
      OBVIOUS
    <3>2. i # 0 => f[i - 1] \in T /\ f[i] = step[i][f[i - 1]]
      BY <1>2, <3>1 DEF StepsOf
    <3>. QED
      BY <1>2, <3>1, <3>2 DEF StepsOf
  <2>2. f = [i \in 0..width |-> f[i]]
    BY <1>2 DEF StepsOf
  <2>. QED
    BY <2>1, <2>2, Zenon
<1>4. Steps(c)
  BY <1>3
<1>5. Values(width) = c[width]
  BY DEF Values
<1>6. c[0] = 1 /\ \A i \in 1..width : c[i] = ByteBase * c[i - 1]
  <2>1. \A i \in 0..width : c[i] = IF i = 0 THEN 1 ELSE ByteBase * c[i - 1]
    BY <1>4, Zenon
  <2>2. 0 \in 0..width /\ \A i \in 1..width : i \in 0..width /\ i # 0
    OBVIOUS
  <2>. HIDE DEF c
  <2>. QED
    BY <2>1, <2>2
<1>. HIDE DEF c
<1>7. \A i \in 0..width : c[i] \in T
  <2>1. 1 \in T
    OBVIOUS
  <2>2. \A i \in 1..width : c[i - 1] \in T => c[i] \in T
    BY <1>1, <1>6
  <2>. HIDE DEF T
  <2>. QED
    BY <1>6, <2>1, <2>2, StepsAreTyped
<1>. QED
  BY <1>5, <1>7

-----------------------------------------------------------------------------

\* Shifting a number by a byte takes off its last byte, and masking it leaves that
\* byte: the two steps of write_unsigned_value().
LEMMA LastDigit ==
  ASSUME NEW x \in Nat, NEW b \in Nat \ {0}, NEW d \in 0..(b - 1)
  PROVE  (x * b + d) \div b = x /\ (x * b + d) % b = d
<1>. DEFINE y == x * b + d  q == y \div b  r == y % b
<1>1. y \in Nat
  <2>1. x * b \in Nat
    OBVIOUS
  <2>. QED
    BY <2>1
<1>2. q \in Int /\ r \in 0..(b - 1) /\ y = b * q + r
  <2>. HIDE DEF y
  <2>. QED
    BY <1>1
<1>3. x * b = b * x /\ (x - q) * b = b * x - b * q
  BY <1>2
<1>. HIDE DEF q, r
<1>4. b * x + d = b * q + r
  BY <1>2, <1>3
<1>5. x = q
  <2>1. b * x - b * q = r - d
    <3>. DEFINE bx == b * x  bq == b * q
    <3>1. bx \in Int /\ bq \in Int /\ bx + d = bq + r
      BY <1>2, <1>4
    <3>. HIDE DEF bx, bq
    <3>2. bx - bq = r - d
      BY <1>2, <3>1
    <3>. QED
      BY <3>2 DEF bx, bq
  <2>2. (x - q) * b = r - d
    BY <1>3, <2>1
  <2>3. x - q \in Int /\ r - d < b /\ r - d > -b
    BY <1>2
  <2>4. \A z \in Int : z >= 1 => z * b >= b
    OBVIOUS
  <2>5. \A z \in Int : z <= -1 => z * b <= -b
    OBVIOUS
  <2>. DEFINE z == x - q
  <2>6. ~(z >= 1) /\ ~(z <= -1)
    <3>. DEFINE zb == z * b
    <3>1. zb = r - d /\ (z >= 1 => zb >= b) /\ (z <= -1 => zb <= -b) /\ z \in Int
      BY <2>2, <2>3, <2>4, <2>5
    <3>. HIDE DEF zb, z
    <3>. QED
      BY <1>2, <2>3, <3>1
  <2>. QED
    BY <1>2, <2>6
<1>6. r = d
  BY <1>2, <1>4, <1>5
<1>. QED
  BY <1>5, <1>6 DEF q, r

\* The steps by which a number is written.
Shifted(value, width, f) ==
  /\ f[0] = value
  /\ \A i \in 1..width : f[i] = f[i - 1] \div ByteBase

LowDigits(width, f) == [i \in 1..width |-> f[i - 1] % ByteBase]
WrittenAs(value, width, order, f) ==
  /\ Shifted(value, width, f)
  /\ WriteUnsigned(value, width, order) =
       IF order = "little" THEN LowDigits(width, f) ELSE Reverse(LowDigits(width, f))

\* write_unsigned_value() shifts the number out byte by byte, the lowest first, and
\* stores the bytes in the order of the field.
LEMMA WriteByShifts ==
  ASSUME NEW value \in Int, NEW width \in Nat, NEW order
  PROVE  \E f : WrittenAs(value, width, order, f)
<1>. DEFINE step == [i \in 1..width |-> [x \in Int |-> x \div ByteBase]]
            Steps(f) == f = [i \in 0..width |-> IF i = 0 THEN value ELSE f[i - 1] \div ByteBase]
            c == CHOOSE f : Steps(f)
<1>1. \A x \in Int : x \div ByteBase \in Int
  BY BaseType
<1>2. PICK f : StepsOf(width, Int, value, step, f)
  <2>1. \A i \in 1..width, x \in Int : step[i][x] \in Int
    BY <1>1
  <2>. HIDE DEF step
  <2>. QED
    BY <2>1, StepsExist
<1>3. Steps(f)
  <2>1. ASSUME NEW i \in 0..width PROVE f[i] = IF i = 0 THEN value ELSE f[i - 1] \div ByteBase
    <3>1. i # 0 => i \in 1..width /\ i - 1 \in 0..width
      OBVIOUS
    <3>2. i # 0 => f[i - 1] \in Int /\ f[i] = step[i][f[i - 1]]
      BY <1>2, <3>1 DEF StepsOf
    <3>. QED
      BY <1>2, <3>1, <3>2 DEF StepsOf
  <2>2. f = [i \in 0..width |-> f[i]]
    BY <1>2 DEF StepsOf
  <2>. QED
    BY <2>1, <2>2, Zenon
<1>4. Steps(c)
  BY <1>3
<1>5. Shifted(value, width, c)
  <2>1. \A i \in 0..width : c[i] = IF i = 0 THEN value ELSE c[i - 1] \div ByteBase
    BY <1>4, Zenon
  <2>2. 0 \in 0..width /\ \A i \in 1..width : i \in 0..width /\ i # 0
    OBVIOUS
  <2>. HIDE DEF c
  <2>. QED
    BY <2>1, <2>2 DEF Shifted
<1>6. WriteUnsigned(value, width, order) =
        IF order = "little" THEN LowDigits(width, c) ELSE Reverse(LowDigits(width, c))
  BY DEF WriteUnsigned, LowDigits
<1>. HIDE DEF c
<1>. QED
  BY <1>5, <1>6 DEF WrittenAs

\* The members of a list the other way round: a big-endian field's bytes.
LEMMA ReverseElements ==
  ASSUME NEW V, NEW s \in Seq(V)
  PROVE  /\ Reverse(s) \in Seq(V) /\ Len(Reverse(s)) = Len(s)
         /\ \A i \in 1..Len(s) : Reverse(s)[i] = s[Len(s) - i + 1]
<1>1. Reverse(s) = [i \in 1..Len(s) |-> s[(Len(s) - i) + 1]]
  BY DEF Reverse
<1>2. \A i \in 1..Len(s) : s[(Len(s) - i) + 1] \in V
  OBVIOUS
<1>. QED
  BY <1>1, <1>2

\* write_unsigned_value() writes as many bytes as the field is wide.
LEMMA WriteUnsignedType ==
  ASSUME NEW value \in Int, NEW width \in Nat, NEW order
  PROVE  WriteUnsigned(value, width, order) \in Seq(Bytes)
<1>1. PICK f : WrittenAs(value, width, order, f)
  BY WriteByShifts
<1>2. \A i \in 0..width : f[i] \in Int
  <2>1. \A i \in 1..width : f[i - 1] \in Int => f[i] \in Int
    BY <1>1, BaseType DEF WrittenAs, Shifted
  <2>. QED
    BY <1>1, <2>1, StepsAreTyped DEF WrittenAs, Shifted
<1>. DEFINE little == LowDigits(width, f)
<1>3. little \in Seq(Bytes)
  <2>1. \A x \in Int : x % ByteBase \in Bytes
    BY BaseType DEF Bytes
  <2>2. \A i \in 1..width : f[i - 1] % ByteBase \in Bytes
    <3>. SUFFICES ASSUME NEW i \in 1..width PROVE f[i - 1] % ByteBase \in Bytes
      OBVIOUS
    <3>1. i - 1 \in 0..width
      OBVIOUS
    <3>. QED
      BY <1>2, <2>1, <3>1
  <2>. QED
    BY <2>2 DEF LowDigits
<1>4. Reverse(little) \in Seq(Bytes)
  <2>. HIDE DEF little
  <2>. QED
    BY <1>3, ReverseElements
<1>. QED
  BY <1>1, <1>3, <1>4 DEF WrittenAs

\* The steps by which a number is read from its bytes, the highest first.
ReadSteps(big, n, f) ==
  /\ f[0] = 0
  /\ \A i \in 1..n : f[i] = f[i - 1] * ByteBase + big[i]

\* read_unsigned_value() takes the bytes from the highest on, shifting what it has.
LEMMA ReadBySteps ==
  ASSUME NEW bytes \in Seq(Bytes), NEW order
  PROVE  \E f : /\ ReadSteps(IF order = "little" THEN Reverse(bytes) ELSE bytes, Len(bytes), f)
                /\ ReadUnsigned(bytes, order) = f[Len(bytes)]
                /\ \A i \in 0..Len(bytes) : f[i] \in Nat
<1>. DEFINE n == Len(bytes)
            big == IF order = "little" THEN Reverse(bytes) ELSE bytes
            step == [i \in 1..n |-> [x \in Nat |-> x * ByteBase + big[i]]]
            Steps(f) == f = [i \in 0..n |-> IF i = 0 THEN 0 ELSE f[i - 1] * ByteBase + big[i]]
            c == CHOOSE f : Steps(f)
<1>1. \A i \in 1..n : big[i] \in Nat
  <2>1. big \in Seq(Bytes) /\ Len(big) = n
    BY ReverseElements
  <2>. HIDE DEF big
  <2>. QED
    BY <2>1, BaseType DEF Bytes
<1>2. \A i \in 1..n, x \in Nat : x * ByteBase + big[i] \in Nat
  <2>. HIDE DEF big
  <2>. SUFFICES ASSUME NEW i \in 1..n, NEW x \in Nat PROVE x * ByteBase + big[i] \in Nat
    OBVIOUS
  <2>1. x * ByteBase \in Nat
    BY BaseType
  <2>. QED
    BY <1>1, <2>1
<1>n. n \in Nat
  OBVIOUS
<1>. HIDE DEF big, n
<1>3. PICK f : StepsOf(n, Nat, 0, step, f)
  <2>1. \A i \in 1..n, x \in Nat : step[i][x] \in Nat
    BY <1>2
  <2>. HIDE DEF step
  <2>. QED
    BY <1>n, <2>1, StepsExist
<1>4. Steps(f)
  <2>1. ASSUME NEW i \in 0..n PROVE f[i] = IF i = 0 THEN 0 ELSE f[i - 1] * ByteBase + big[i]
    <3>1. i # 0 => i \in 1..n /\ i - 1 \in 0..n
      BY <1>n
    <3>2. i # 0 => f[i - 1] \in Nat /\ f[i] = step[i][f[i - 1]]
      BY <1>3, <3>1 DEF StepsOf
    <3>. QED
      BY <1>3, <3>1, <3>2 DEF StepsOf
  <2>2. f = [i \in 0..n |-> f[i]]
    BY <1>3 DEF StepsOf
  <2>. QED
    BY <2>1, <2>2, Zenon
<1>5. Steps(c)
  BY <1>4
<1>6. ReadSteps(big, n, c)
  <2>1. \A i \in 0..n : c[i] = IF i = 0 THEN 0 ELSE c[i - 1] * ByteBase + big[i]
    BY <1>5, Zenon
  <2>2. 0 \in 0..n /\ \A i \in 1..n : i \in 0..n /\ i # 0
    BY <1>n
  <2>. HIDE DEF c
  <2>. QED
    BY <2>1, <2>2 DEF ReadSteps
<1>7. ReadUnsigned(bytes, order) = c[n]
  BY DEF ReadUnsigned, big, n
<1>. HIDE DEF c
<1>8. \A i \in 0..n : c[i] \in Nat
  <2>1. \A i \in 1..n : c[i - 1] \in Nat => c[i] \in Nat
    BY <1>2, <1>6 DEF ReadSteps
  <2>. QED
    BY <1>n, <1>6, <2>1, StepsAreTyped DEF ReadSteps
<1>. QED
  BY <1>6, <1>7, <1>8 DEF big, n

\* read_unsigned_value() loses nothing: the number it reads is written by
\* write_unsigned_value() as the bytes it was read from, in either order. So a field
\* that passes its expect check holds the bytes of the constant, which is what the
\* dispatch prefix compares.
LEMMA ReadThenWrite ==
  ASSUME NEW bytes \in Seq(Bytes), NEW order
  PROVE  /\ ReadUnsigned(bytes, order) \in Nat
         /\ WriteUnsigned(ReadUnsigned(bytes, order), Len(bytes), order) = bytes
<1>. DEFINE n == Len(bytes)
            big == IF order = "little" THEN Reverse(bytes) ELSE bytes
            value == ReadUnsigned(bytes, order)
<1>1. PICK r : ReadSteps(big, n, r) /\ value = r[n] /\ \A i \in 0..n : r[i] \in Nat
  BY ReadBySteps
<1>2. n \in Nat /\ value \in Nat /\ value \in Int
  BY <1>1
<1>3. big \in Seq(Bytes) /\ Len(big) = n
  BY ReverseElements
<1>. HIDE DEF value, n
<1>4. PICK f : WrittenAs(value, n, order, f)
  BY <1>2, WriteByShifts
<1>. HIDE DEF big
<1>5. \A i \in 1..n : /\ r[i] \div ByteBase = r[i - 1]
                      /\ r[i] % ByteBase = big[i]
  <2>. SUFFICES ASSUME NEW i \in 1..n
                PROVE  r[i] \div ByteBase = r[i - 1] /\ r[i] % ByteBase = big[i]
    OBVIOUS
  <2>1. r[i] = r[i - 1] * ByteBase + big[i]
    BY <1>1 DEF ReadSteps
  <2>2. r[i - 1] \in Nat
    BY <1>1, <1>2
  <2>3. big[i] \in 0..(ByteBase - 1)
    <3>1. big[i] \in Bytes
      BY <1>2, <1>3
    <3>. QED
      BY <3>1 DEF Bytes
  <2>. DEFINE x == r[i - 1]  d == big[i]
  <2>4. (x * ByteBase + d) \div ByteBase = x /\ (x * ByteBase + d) % ByteBase = d
    <3>1. x \in Nat /\ d \in 0..(ByteBase - 1) /\ ByteBase \in Nat \ {0}
      BY <2>2, <2>3, BaseType
    <3>. HIDE DEF x, d
    <3>. QED
      BY <3>1, LastDigit
  <2>. QED
    BY <2>1, <2>4
<1>6. \A i \in 0..n : f[i] = r[n - i]
  <2>. DEFINE S == {m \in Nat : m <= n => f[m] = r[n - m]}
  <2>1. 0 \in S
    BY <1>1, <1>2, <1>4 DEF WrittenAs, Shifted
  <2>2. ASSUME NEW m \in Nat, m \in S PROVE m + 1 \in S
    <3>. SUFFICES ASSUME m + 1 <= n PROVE f[m + 1] = r[n - (m + 1)]
      OBVIOUS
    <3>1. m + 1 \in 1..n /\ (m + 1) - 1 = m /\ n - m \in 1..n /\ (n - m) - 1 = n - (m + 1)
      BY <1>2
    <3>2. f[m] = r[n - m]
      BY <1>2, <2>2, <3>1
    <3>3. f[m + 1] = f[m] \div ByteBase
      BY <1>4, <3>1 DEF WrittenAs, Shifted
    <3>. QED
      BY <1>5, <3>1, <3>2, <3>3
  <2>. HIDE DEF S
  <2>3. \A m \in Nat : m \in S
    BY <2>1, <2>2, Induction
  <2>. QED
    BY <1>2, <2>3 DEF S
<1>. DEFINE little == LowDigits(n, f)
<1>7. \A i \in 1..n : little[i] = big[n - i + 1]
  <2>. SUFFICES ASSUME NEW i \in 1..n PROVE f[i - 1] % ByteBase = big[n - i + 1]
    BY DEF LowDigits
  <2>1. i - 1 \in 0..n /\ n - (i - 1) = n - i + 1 /\ n - i + 1 \in 1..n
    BY <1>2
  <2>. QED
    BY <1>5, <1>6, <2>1 DEF LowDigits
<1>8. little \in Seq(Bytes) /\ Len(little) = n
  <2>1. \A i \in 1..n : little[i] \in Bytes
    <3>. SUFFICES ASSUME NEW i \in 1..n PROVE little[i] \in Bytes
      OBVIOUS
    <3>1. n - i + 1 \in 1..n
      BY <1>2
    <3>. QED
      BY <1>3, <1>7, <3>1
  <2>2. little = [i \in 1..n |-> little[i]]
    BY DEF LowDigits
  <2>. HIDE DEF little
  <2>. QED
    BY <1>2, <2>1, <2>2
<1>. HIDE DEF little
<1>9. CASE order = "little"
  <2>1. \A i \in 1..n : little[i] = bytes[i]
    <3>. SUFFICES ASSUME NEW i \in 1..n PROVE little[i] = bytes[i]
      OBVIOUS
    <3>1. n - i + 1 \in 1..n /\ n - (n - i + 1) + 1 = i
      BY <1>2
    <3>2. big[n - i + 1] = bytes[n - (n - i + 1) + 1]
      BY <1>9, <3>1, ReverseElements DEF big, n
    <3>. QED
      BY <1>7, <3>1, <3>2
  <2>2. little = bytes
    BY <1>8, <2>1 DEF n
  <2>. QED
    BY <1>2, <1>4, <1>9, <2>2 DEF WrittenAs, little, value, n
<1>10. CASE order # "little"
  <2>1. big = bytes
    BY <1>10 DEF big
  <2>2. Reverse(little) \in Seq(Bytes) /\ Len(Reverse(little)) = n
    BY <1>8, ReverseElements
  <2>3. \A i \in 1..n : Reverse(little)[i] = bytes[i]
    <3>. SUFFICES ASSUME NEW i \in 1..n PROVE Reverse(little)[i] = bytes[i]
      OBVIOUS
    <3>1. n - i + 1 \in 1..n /\ n - (n - i + 1) + 1 = i
      BY <1>2
    <3>2. Reverse(little)[i] = little[n - i + 1]
      BY <1>8, ReverseElements
    <3>3. little[n - i + 1] = big[n - (n - i + 1) + 1]
      BY <1>7, <3>1
    <3>. QED
      BY <2>1, <3>1, <3>2, <3>3
  <2>4. Reverse(little) = bytes
    BY <2>2, <2>3 DEF n
  <2>. QED
    BY <1>2, <1>4, <1>10, <2>4 DEF WrittenAs, little, value, n
<1>. QED
  BY <1>9, <1>10

-----------------------------------------------------------------------------

\* A field that holds an expected constant, and the bytes of it.
Constant(field) == IsScalar(field) /\ Has(field.expect)
ConstantBytes(field) == WriteUnsigned(field.expect[1], field.width, field.order)
Constants(fields, p) == [i \in 1..p |-> ConstantBytes(fields[i])]

\* The prefix of a layout is the bytes of so many constants it starts with.
PrefixOf(fields, p) ==
  /\ p \in 0..Len(fields) /\ \A i \in 1..p : Constant(fields[i])
  /\ DispatchPrefix(fields) = FlattenSeq(Constants(fields, p))

\* Fields whose constants can be written and take a byte at least.
FieldsFit(fields) ==
  /\ Len(fields) \in Nat /\ DOMAIN fields = 1..Len(fields)
  /\ \A i \in DOMAIN fields : Constant(fields[i]) =>
       fields[i].width \in Nat \ {0} /\ fields[i].expect[1] \in Int

\* A bounded set of numbers has a largest member: the constants a message starts
\* with are the longest run of them.
LEMMA MaxOfNumbers ==
  ASSUME NEW n \in Nat, NEW S \in SUBSET (0..n), S # {}
  PROVE  Max(S) \in S
<1>. DEFINE R == {n - x : x \in S}
<1>1. R \in SUBSET Nat /\ R # {}
  <2>1. \A x \in S : n - x \in Nat /\ n - x \in R
    OBVIOUS
  <2>. QED
    BY <2>1
<1>2. PICK r \in R : \A q \in R : r <= q
  BY <1>1, LeastNumber
<1>3. PICK x \in S : r = n - x
  BY <1>2
<1>4. \A y \in S : x >= y
  <2>. SUFFICES ASSUME NEW y \in S PROVE x >= y
    OBVIOUS
  <2>1. r <= n - y
    BY <1>2
  <2>. QED
    BY <1>3, <2>1
<1>5. \E z \in S : \A y \in S : z >= y
  BY <1>4
<1>. QED
  BY <1>5 DEF Max

\* The constants a layout starts with are a number of its fields, from the first.
LEMMA PrefixExists ==
  ASSUME NEW fields, Len(fields) \in Nat
  PROVE  \E p : PrefixOf(fields, p)
<1>. DEFINE leading == {n \in 0..Len(fields) : \A k \in 1..n : Constant(fields[k])}
            p == Max(leading)
<1>1. p \in leading
  <2>1. 0 \in leading /\ leading \in SUBSET (0..Len(fields))
    OBVIOUS
  <2>. HIDE DEF leading
  <2>. QED
    BY <2>1, MaxOfNumbers
<1>2. DispatchPrefix(fields) = FlattenSeq(Constants(fields, p))
  BY DEF DispatchPrefix, Constants, ConstantBytes, Constant
<1>. HIDE DEF p
<1>. QED
  BY <1>1, <1>2 DEF PrefixOf

\* The bytes of these constants, as the compiler writes them in the prefix.
LEMMA ConstantsType ==
  ASSUME NEW fields, FieldsFit(fields), NEW p \in 0..Len(fields),
         \A i \in 1..p : Constant(fields[i])
  PROVE  /\ Constants(fields, p) \in Seq(Seq(Bytes)) /\ Len(Constants(fields, p)) = p
         /\ \A i \in 1..p : /\ Constants(fields, p)[i] = ConstantBytes(fields[i])
                            /\ Len(ConstantBytes(fields[i])) >= 1
<1>1. ASSUME NEW i \in 1..p
      PROVE  ConstantBytes(fields[i]) \in Seq(Bytes) /\ Len(ConstantBytes(fields[i])) >= 1
  <2>. DEFINE value == fields[i].expect[1]  width == fields[i].width  order == fields[i].order
  <2>1. i \in DOMAIN fields /\ Constant(fields[i])
    BY DEF FieldsFit
  <2>2. value \in Int /\ width \in Nat \ {0}
    BY <2>1 DEF FieldsFit
  <2>3. ConstantBytes(fields[i]) = WriteUnsigned(value, width, order)
    BY DEF ConstantBytes
  <2>. HIDE DEF value, width, order
  <2>4. WriteUnsigned(value, width, order) \in Seq(Bytes)
    BY <2>2, WriteUnsignedType
  <2>5. PICK W : /\ WriteUnsigned(value, width, order) \in Seq(W)
                 /\ Len(WriteUnsigned(value, width, order)) = width
    BY <2>2, WriteUnsignedIsSeq
  <2>. QED
    BY <2>2, <2>3, <2>4, <2>5
<1>2. p \in Nat
  BY DEF FieldsFit
<1>. QED
  BY <1>1, <1>2 DEF Constants

\* The bytes of so many constants are at least as many: a prefix of a message that
\* has a constant is not empty, so the message is filed under a first byte.
LEMMA PrefixIsLong ==
  ASSUME NEW fields, FieldsFit(fields), NEW p, PrefixOf(fields, p)
  PROVE  /\ DispatchPrefix(fields) \in Seq(Bytes)
         /\ Len(DispatchPrefix(fields)) \in Nat /\ Len(DispatchPrefix(fields)) >= p
<1>. DEFINE constants == Constants(fields, p)
<1>1. p \in Nat /\ p \in 0..Len(fields) /\ \A i \in 1..p : Constant(fields[i])
  BY DEF PrefixOf, FieldsFit
<1>2. /\ constants \in Seq(Seq(Bytes)) /\ Len(constants) = p
      /\ \A i \in 1..p : Len(constants[i]) >= 1
  BY <1>1, ConstantsType
<1>3. DispatchPrefix(fields) = FlattenSeq(constants)
  BY DEF PrefixOf
<1>. HIDE DEF constants
<1>. DEFINE S == {m \in Nat : m <= p => Len(JoinedUpto(constants, m)) >= m}
<1>4. 0 \in S
  <2>1. JoinedUpto(constants, 0) = <<>>
    BY JoinedUptoNone
  <2>. QED
    BY <2>1
<1>5. ASSUME NEW m \in Nat, m \in S PROVE m + 1 \in S
  <2>. SUFFICES ASSUME m + 1 <= p PROVE Len(JoinedUpto(constants, m + 1)) >= m + 1
    OBVIOUS
  <2>1. m \in 0..(Len(constants) - 1) /\ m \in 0..Len(constants) /\ m + 1 \in 1..p
    BY <1>1, <1>2
  <2>2. JoinedUpto(constants, m + 1) = JoinedUpto(constants, m) \o constants[m + 1]
    BY <1>2, <2>1, JoinedUptoNext
  <2>3. JoinedUpto(constants, m) \in Seq(Bytes) /\ constants[m + 1] \in Seq(Bytes)
    BY <1>2, <2>1, JoinedUptoType
  <2>. DEFINE a == JoinedUpto(constants, m)  b == constants[m + 1]
  <2>4. Len(a) >= m /\ Len(b) >= 1
    BY <1>2, <1>5, <2>1
  <2>5. a \in Seq(Bytes) /\ b \in Seq(Bytes)
    BY <2>3
  <2>. HIDE DEF a, b
  <2>6. Len(a \o b) >= m + 1
    BY <2>4, <2>5
  <2>. QED
    BY <2>2, <2>6 DEF a, b
<1>. HIDE DEF S
<1>6. p \in S
  BY <1>1, <1>4, <1>5, Induction
<1>7. JoinedUpto(constants, p) = FlattenSeq(constants)
  BY <1>2, JoinedUptoAll
<1>8. FlattenSeq(constants) \in Seq(Bytes)
  BY <1>2, FlattenSeqType
<1>. QED
  BY <1>1, <1>3, <1>6, <1>7, <1>8 DEF S

-----------------------------------------------------------------------------

\* A walk before its first field, and the walk along the first fields of a layout.
WalkStart ==
  [status |-> "ok", consumed |-> 0, starts |-> <<>>, ends |-> <<>>, scalars |-> <<>>]
WalkUpto(prot, layout, bytes, m, f) ==
  f = [i \in 0..m |-> IF i = 0 THEN WalkStart ELSE Step(prot, layout, bytes, f[i - 1], i)]

\* The decoder's loop over the fields can be followed to any field.
LEMMA WalkUptoExists ==
  ASSUME NEW prot, NEW layout, NEW bytes, NEW n \in Nat
  PROVE  \E f : WalkUpto(prot, layout, bytes, n, f)
<1>. DEFINE S == {m \in Nat : \E f : WalkUpto(prot, layout, bytes, m, f)}
<1>1. 0 \in S
  <2>1. WalkUpto(prot, layout, bytes, 0, [i \in 0..0 |-> WalkStart])
    BY DEF WalkUpto
  <2>. QED
    BY <2>1
<1>2. ASSUME NEW m \in Nat, m \in S PROVE m + 1 \in S
  <2>1. PICK f : WalkUpto(prot, layout, bytes, m, f)
    BY <1>2
  <2>. DEFINE next == Step(prot, layout, bytes, f[m], m + 1)
              g == [i \in 0..(m + 1) |-> IF i = m + 1 THEN next ELSE f[i]]
              h == [i \in 0..(m + 1) |-> IF i = 0 THEN WalkStart
                                         ELSE Step(prot, layout, bytes, g[i - 1], i)]
  <2>2. ASSUME NEW i \in 0..(m + 1) PROVE g[i] = h[i]
    <3>1. CASE i = m + 1
      <4>1. g[m] = f[m] /\ i - 1 = m
        BY <3>1
      <4>. QED
        BY <3>1, <4>1
    <3>2. CASE i # m + 1
      <4>1. i \in 0..m /\ (i # 0 => i - 1 \in 0..m /\ g[i - 1] = f[i - 1])
        BY <3>2
      <4>2. f[i] = IF i = 0 THEN WalkStart ELSE Step(prot, layout, bytes, f[i - 1], i)
        BY <2>1, <4>1 DEF WalkUpto
      <4>. QED
        BY <3>2, <4>1, <4>2
    <3>. QED
      BY <3>1, <3>2
  <2>3. g = h
    BY <2>2
  <2>4. WalkUpto(prot, layout, bytes, m + 1, g)
    BY <2>3 DEF WalkUpto
  <2>. QED
    BY <2>4
<1>. HIDE DEF S
<1>3. \A m \in Nat : m \in S
  BY <1>1, <1>2, Induction
<1>. QED
  BY <1>3 DEF S

\* A walk that goes along the fields one after the other, to where it ends.
Walked(prot, layout, bytes, f) ==
  /\ f[0] = WalkStart
  /\ \A i \in 1..Len(layout.fields) : f[i] = Step(prot, layout, bytes, f[i - 1], i)
  /\ Walk(prot, layout, bytes) = f[Len(layout.fields)]

\* The decoder's loop is that walk: field after field, from nothing consumed.
LEMMA WalkIsWalked ==
  ASSUME NEW prot, NEW layout, NEW bytes, Len(layout.fields) \in Nat
  PROVE  \E f : Walked(prot, layout, bytes, f)
<1>. DEFINE n == Len(layout.fields)
            c == CHOOSE f : WalkUpto(prot, layout, bytes, n, f)
<1>1. n \in Nat
  OBVIOUS
<1>2. WalkUpto(prot, layout, bytes, n, c)
  <2>. HIDE DEF n
  <2>. QED
    BY <1>1, WalkUptoExists
<1>3. Walk(prot, layout, bytes) = c[n]
  BY DEF Walk, WalkUpto, WalkStart
<1>. HIDE DEF c
<1>4. c[0] = WalkStart /\ \A i \in 1..n : c[i] = Step(prot, layout, bytes, c[i - 1], i)
  <2>1. \A i \in 0..n : c[i] = IF i = 0 THEN WalkStart ELSE Step(prot, layout, bytes, c[i - 1], i)
    BY <1>2, Zenon DEF WalkUpto
  <2>2. 0 \in 0..n /\ \A i \in 1..n : i \in 0..n /\ i # 0
    BY <1>1
  <2>. HIDE DEF n
  <2>. QED
    BY <2>1, <2>2
<1>. QED
  BY <1>3, <1>4 DEF Walked

\* A field that was found.
Found(field, bytes, walk, i, offset, sized, next) ==
  /\ ~(offset > Len(bytes)) /\ sized.status = "ok" /\ ~(offset + sized.size > Len(bytes))
  /\ FieldStatus(field, Slice(bytes, offset, sized.size)) = "ok"
  /\ next.consumed = offset + sized.size

\* A field the decoder records without an error lies where it was found: inside the
\* frame, of the size it was given, with what it consumed ending where it ends.
LEMMA RecordFinds ==
  ASSUME NEW field, NEW bytes, NEW walk, "status" \in DOMAIN walk, NEW i, NEW offset, NEW sized
  PROVE  LET next == Record(field, bytes, walk, i, offset, sized)
         IN  /\ "status" \in DOMAIN next
             /\ next.status = "ok" => Found(field, bytes, walk, i, offset, sized, next)
<1>. DEFINE end == offset + sized.size
            next == Record(field, bytes, walk, i, offset, sized)
<1>1. ASSUME NEW status PROVE "status" \in DOMAIN [walk EXCEPT !.status = status]
                              /\ [walk EXCEPT !.status = status].status = status
  OBVIOUS
<1>2. CASE offset > Len(bytes)
  <2>1. next = [walk EXCEPT !.status = "schema_mismatch"]
    BY <1>2 DEF Record
  <2>. QED
    BY <1>1, <2>1
<1>3. CASE ~(offset > Len(bytes)) /\ sized.status # "ok"
  <2>1. next = [walk EXCEPT !.status = sized.status]
    BY <1>3 DEF Record
  <2>. QED
    BY <1>1, <1>3, <2>1
<1>4. CASE ~(offset > Len(bytes)) /\ sized.status = "ok" /\ end > Len(bytes)
  <2>1. next = [walk EXCEPT !.status = "schema_mismatch"]
    BY <1>4 DEF Record
  <2>. QED
    BY <1>1, <2>1
<1>5. CASE ~(offset > Len(bytes)) /\ sized.status = "ok" /\ ~(end > Len(bytes))
  <2>1. /\ next.status = FieldStatus(field, Slice(bytes, offset, sized.size))
        /\ next.consumed = end /\ "status" \in DOMAIN next
    BY <1>5 DEF Record
  <2>. QED
    BY <1>5, <2>1 DEF Found
<1>. QED
  BY <1>2, <1>3, <1>4, <1>5

\* A turn of the decoder's loop either leaves the walk as it is, after an error, or
\* records a field.
LEMMA StepRecords ==
  ASSUME NEW prot, NEW layout, NEW bytes, NEW walk, "status" \in DOMAIN walk, NEW i
  PROVE  LET next == Step(prot, layout, bytes, walk, i)
             field == layout.fields[i]
             unsigned == RawUnsigned(layout.fields, walk.scalars)
             offset == AlignUp(walk.consumed, field.alignment)
             sized == FieldSize(prot, field, unsigned, bytes, offset)
         IN  /\ "status" \in DOMAIN next
             /\ next.status = "ok" =>
                  /\ walk.status = "ok"
                  /\ ~IsSelected(field, unsigned) => next = walk
                  /\ IsSelected(field, unsigned) =>
                       Found(field, bytes, walk, i, offset, sized, next)
<1>. DEFINE field == layout.fields[i]
            unsigned == RawUnsigned(layout.fields, walk.scalars)
            offset == AlignUp(walk.consumed, field.alignment)
            sized == FieldSize(prot, field, unsigned, bytes, offset)
            next == Step(prot, layout, bytes, walk, i)
<1>1. next = IF walk.status # "ok" \/ ~IsSelected(field, unsigned) THEN walk
             ELSE Record(field, bytes, walk, i, offset, sized)
  BY DEF Step
<1>. HIDE DEF field, unsigned, offset, sized, next
<1>2. /\ "status" \in DOMAIN Record(field, bytes, walk, i, offset, sized)
      /\ Record(field, bytes, walk, i, offset, sized).status = "ok" =>
           Found(field, bytes, walk, i, offset, sized, Record(field, bytes, walk, i, offset, sized))
  BY RecordFinds
<1>3. /\ "status" \in DOMAIN next
      /\ next.status = "ok" =>
           /\ walk.status = "ok"
           /\ ~IsSelected(field, unsigned) => next = walk
           /\ IsSelected(field, unsigned) => Found(field, bytes, walk, i, offset, sized, next)
  BY <1>1, <1>2
<1>. QED
  BY <1>3 DEF field, unsigned, offset, sized, next

\* A walk that ends without an error had none on the way: the loop never clears one.
LEMMA WalkIsFine ==
  ASSUME NEW prot, NEW layout, NEW bytes, Len(layout.fields) \in Nat,
         NEW f, Walked(prot, layout, bytes, f), Walk(prot, layout, bytes).status = "ok"
  PROVE  \A i \in 0..Len(layout.fields) : "status" \in DOMAIN f[i] /\ f[i].status = "ok"
<1>. DEFINE n == Len(layout.fields)
            S == {m \in Nat : m <= n => "status" \in DOMAIN f[m]}
            B == {m \in Nat : m <= n => f[n - m].status = "ok"}
<1>1. n \in Nat
  OBVIOUS
<1>2. \A i \in 1..n : f[i] = Step(prot, layout, bytes, f[i - 1], i)
  BY DEF Walked
<1>3. f[0] = WalkStart /\ f[n].status = "ok"
  BY DEF Walked
<1>. HIDE DEF n
<1>4. \A m \in Nat : m \in S
  <2>1. 0 \in S
    BY <1>3 DEF WalkStart
  <2>2. ASSUME NEW m \in Nat, m \in S PROVE m + 1 \in S
    <3>. SUFFICES ASSUME m + 1 <= n PROVE "status" \in DOMAIN f[m + 1]
      OBVIOUS
    <3>1. m + 1 \in 1..n /\ (m + 1) - 1 = m
      BY <1>1
    <3>2. f[m + 1] = Step(prot, layout, bytes, f[m], m + 1)
      BY <1>2, <3>1
    <3>3. "status" \in DOMAIN f[m]
      BY <1>1, <2>2
    <3>. QED
      BY <3>2, <3>3, StepRecords
  <2>. HIDE DEF S
  <2>. QED
    BY <2>1, <2>2, Induction
<1>5. \A m \in Nat : m \in B
  <2>1. 0 \in B
    BY <1>1, <1>3
  <2>2. ASSUME NEW m \in Nat, m \in B PROVE m + 1 \in B
    <3>. SUFFICES ASSUME m + 1 <= n PROVE f[n - (m + 1)].status = "ok"
      OBVIOUS
    <3>. DEFINE k == n - m
    <3>1. k \in 1..n /\ k - 1 = n - (m + 1) /\ k - 1 \in Nat /\ k - 1 <= n
      BY <1>1
    <3>2. f[k].status = "ok"
      BY <1>1, <2>2
    <3>. HIDE DEF k
    <3>3. f[k] = Step(prot, layout, bytes, f[k - 1], k)
      BY <1>2, <3>1
    <3>4. "status" \in DOMAIN f[k - 1]
      BY <1>4, <3>1
    <3>5. f[k - 1].status = "ok"
      BY <3>2, <3>3, <3>4, StepRecords
    <3>. QED
      BY <3>1, <3>5
  <2>. HIDE DEF B
  <2>. QED
    BY <2>1, <2>2, Induction
<1>6. ASSUME NEW i \in 0..n PROVE "status" \in DOMAIN f[i] /\ f[i].status = "ok"
  <2>1. i \in Nat /\ i <= n /\ n - i \in Nat /\ n - i <= n /\ n - (n - i) = i
    BY <1>1
  <2>2. n - i \in B /\ i \in S
    BY <1>4, <1>5, <2>1
  <2>3. f[n - (n - i)].status = "ok"
    BY <2>1, <2>2
  <2>. QED
    BY <2>1, <2>2, <2>3
<1>. QED
  BY <1>6 DEF n

-----------------------------------------------------------------------------

\* A constant that is neither gated nor aligned lies where the field before it ends.
LiesNext(field, bytes, walk, next) ==
  LET from == walk.consumed  to == walk.consumed + field.width
  IN  /\ to <= Len(bytes) /\ next.consumed = to
      /\ SubSeq(bytes, from + 1, to) = ConstantBytes(field)

\* A constant the decoder accepts is in the frame: the bytes where it found the field
\* are the ones the compiler wrote in the dispatch prefix.
LEMMA ConstantIsFound ==
  ASSUME NEW prot, NEW layout, NEW bytes \in Seq(Bytes), NEW walk, "status" \in DOMAIN walk, NEW i,
         Constant(layout.fields[i]), ~IsGated(layout.fields[i]), layout.fields[i].alignment = 1,
         layout.fields[i].width \in Nat \ {0}, walk.consumed \in Nat,
         Step(prot, layout, bytes, walk, i).status = "ok"
  PROVE  LiesNext(layout.fields[i], bytes, walk, Step(prot, layout, bytes, walk, i))
<1>. DEFINE field == layout.fields[i]
            unsigned == RawUnsigned(layout.fields, walk.scalars)
            offset == AlignUp(walk.consumed, field.alignment)
            sized == FieldSize(prot, field, unsigned, bytes, offset)
            next == Step(prot, layout, bytes, walk, i)
            from == walk.consumed  width == field.width  to == from + width
<1>1. IsSelected(field, unsigned)
  <2>1. field.condition = <<>> /\ field.presence = <<>>
    BY DEF IsGated, Has
  <2>2. DOMAIN field.condition = {} /\ DOMAIN field.presence = {}
    BY <2>1
  <2>. HIDE DEF field, unsigned
  <2>. QED
    BY <2>2 DEF IsSelected
<1>2. offset = from
  BY DEF AlignUp
<1>3. sized = Sized(width)
  BY DEF FieldSize, Constant, IsScalar, IsText
<1>4. Found(field, bytes, walk, i, offset, sized, next)
  <2>. HIDE DEF field, unsigned, offset, sized
  <2>1. next.status = "ok"
    OBVIOUS
  <2>. QED
    BY <1>1, <2>1, StepRecords DEF field, unsigned, offset, sized
<1>5. width \in Nat \ {0} /\ from \in Nat
  OBVIOUS
<1>6. Constant(field)
  OBVIOUS
<1>. HIDE DEF field, unsigned, offset, sized, next, from, width
<1>7. sized.size = width
  BY <1>3 DEF Sized
<1>8. /\ to <= Len(bytes) /\ next.consumed = to
      /\ FieldStatus(field, Slice(bytes, from, width)) = "ok"
  BY <1>2, <1>4, <1>5, <1>7 DEF Found
<1>. DEFINE part == Slice(bytes, from, width)
<1>9. part = SubSeq(bytes, from + 1, to)
  BY DEF Slice
<1>10. part \in Seq(Bytes) /\ Len(part) = width
  <2>1. \A k \in (from + 1)..to : bytes[k] \in Bytes
    BY <1>5, <1>8
  <2>2. from + 1 \in Nat /\ to \in Nat /\ from + 1 <= to /\ to - (from + 1) + 1 = width
    BY <1>5
  <2>. HIDE DEF to, part
  <2>3. /\ SubSeq(bytes, from + 1, to) \in Seq(Bytes)
        /\ Len(SubSeq(bytes, from + 1, to)) = to - (from + 1) + 1
    BY <2>1, <2>2, <1>5, <1>8, SubSeqProperties
  <2>. QED
    BY <1>9, <2>2, <2>3
<1>11. ReadUnsigned(part, field.order) = field.expect[1]
  <2>. HIDE DEF part
  <2>1. FieldStatus(field, part) = "ok"
    BY <1>8 DEF part
  <2>. QED
    BY <1>6, <2>1 DEF FieldStatus, Constant
<1>. HIDE DEF part, to
<1>12. WriteUnsigned(ReadUnsigned(part, field.order), Len(part), field.order) = part
  BY <1>10, ReadThenWrite
<1>13. ConstantBytes(field) = part
  BY <1>10, <1>11, <1>12 DEF ConstantBytes, width
<1>. QED
  BY <1>8, <1>9, <1>13 DEF LiesNext, field, next, from, width, to

\* A message decode_as() accepts has gone through its walk without an error.
LEMMA DecodedIsWalked ==
  ASSUME NEW prot, NEW layout, NEW bytes, NEW prefix,
         AssignFromLayout(prot, layout, bytes, prefix).status = "ok"
  PROVE  /\ ~(Len(bytes) < layout.minimum_size)
         /\ Walk(prot, layout, bytes).status = "ok"
         /\ AssignFromLayout(prot, layout, bytes, prefix).consumed = Walk(prot, layout, bytes).consumed
<1>. DEFINE walk == Walk(prot, layout, bytes)
            status == WalkStatus(layout, bytes, prefix, walk)
            decoded == AssignFromLayout(prot, layout, bytes, prefix)
<1>1. decoded = IF Len(bytes) < layout.minimum_size THEN NotDecoded("schema_mismatch")
                ELSE Assigned(layout, bytes, walk, status)
  BY DEF AssignFromLayout, Checked
<1>2. ~(Len(bytes) < layout.minimum_size) /\ decoded = Assigned(layout, bytes, walk, status)
  BY <1>1 DEF NotDecoded
<1>3. decoded.status = "ok"
  OBVIOUS
<1>4. walk.status # "ok" => status = walk.status
  <2>. HIDE DEF walk
  <2>. QED
    BY DEF WalkStatus
<1>. HIDE DEF walk, status, decoded
<1>5. status = "ok" /\ decoded.consumed = walk.consumed
  BY <1>2, <1>3 DEF Assigned, NotDecoded
<1>. QED
  BY <1>2, <1>4, <1>5 DEF walk, decoded

\* A frame decoded as a message whose constants lie next to each other starts with
\* the prefix of the message.
LEMMA DecodedHasPrefix ==
  ASSUME NEW prot, NEW layout, FieldsFit(layout.fields), NEW bytes \in Seq(Bytes),
         layout.prefix = DispatchPrefix(layout.fields), PrefixIsPlain(layout), NEW rest,
         AssignFromLayout(prot, layout, bytes, rest).status = "ok"
  PROVE  MatchesPrefix(layout, bytes)
<1>. DEFINE fields == layout.fields  n == Len(fields)
<1>1. n \in Nat /\ DOMAIN fields = 1..n
  BY DEF FieldsFit
<1>2. PICK p : PrefixOf(fields, p)
  BY <1>1, PrefixExists
<1>3. /\ p \in 0..n /\ \A i \in 1..p : Constant(fields[i])
      /\ layout.prefix = FlattenSeq(Constants(fields, p))
  BY <1>2 DEF PrefixOf
<1>. DEFINE constants == Constants(fields, p)
<1>4. /\ constants \in Seq(Seq(Bytes)) /\ Len(constants) = p
      /\ \A i \in 1..p : constants[i] = ConstantBytes(fields[i])
  BY <1>3, ConstantsType
<1>5. \A i \in 1..p : /\ i \in 1..n /\ fields[i].width \in Nat \ {0}
                      /\ ~IsGated(fields[i]) /\ fields[i].alignment = 1
  <2>. SUFFICES ASSUME NEW i \in 1..p
                PROVE  /\ i \in 1..n /\ fields[i].width \in Nat \ {0}
                       /\ ~IsGated(fields[i]) /\ fields[i].alignment = 1
    OBVIOUS
  <2>1. i \in 1..n /\ i \in DOMAIN fields
    BY <1>1, <1>3
  <2>2. Len(layout.prefix) \in Nat /\ Len(layout.prefix) >= p
    BY <1>2, PrefixIsLong
  <2>3. i \in 1..Len(layout.prefix)
    <3>. HIDE DEF fields
    <3>. QED
      BY <1>1, <1>3, <2>2
  <2>4. ~IsGated(fields[i]) /\ fields[i].alignment = 1
    BY <2>1, <2>3 DEF PrefixIsPlain
  <2>5. fields[i].width \in Nat \ {0}
    BY <1>3, <2>1 DEF FieldsFit
  <2>. QED
    BY <2>1, <2>4, <2>5
<1>6. PICK f : Walked(prot, layout, bytes, f)
  BY <1>1, WalkIsWalked
<1>7. \A i \in 0..n : "status" \in DOMAIN f[i] /\ f[i].status = "ok"
  <2>1. Walk(prot, layout, bytes).status = "ok"
    BY DecodedIsWalked
  <2>. QED
    BY <1>1, <1>6, <2>1, WalkIsFine
<1>8. f[0] = WalkStart /\ \A i \in 1..n : f[i] = Step(prot, layout, bytes, f[i - 1], i)
  BY <1>6 DEF Walked
<1>. DEFINE Behind(m) == /\ f[m].consumed \in Nat /\ f[m].consumed <= Len(bytes)
                         /\ SubSeq(bytes, 1, f[m].consumed) = JoinedUpto(constants, m)
            S == {m \in Nat : m <= p => Behind(m)}
<1>. HIDE DEF fields, n, constants
<1>9. 0 \in S
  <2>1. f[0].consumed = 0
    BY <1>8 DEF WalkStart
  <2>2. JoinedUpto(constants, 0) = <<>> /\ SubSeq(bytes, 1, 0) = <<>>
    BY JoinedUptoNone, SubSeqEmpty
  <2>3. 0 <= Len(bytes)
    OBVIOUS
  <2>4. SubSeq(bytes, 1, f[0].consumed) = JoinedUpto(constants, 0)
    BY <2>1, <2>2, Zenon
  <2>5. Behind(0)
    BY <2>1, <2>3, <2>4
  <2>. QED
    BY <2>5
<1>10. ASSUME NEW m \in Nat, m \in S PROVE m + 1 \in S
  <2>. SUFFICES ASSUME m + 1 <= p PROVE Behind(m + 1)
    OBVIOUS
  <2>. DEFINE i == m + 1  from == f[m].consumed  width == fields[i].width  to == from + width
  <2>1. /\ i \in 1..p /\ i \in 1..n /\ i - 1 = m /\ m \in 0..n /\ i \in 0..n
        /\ m \in 0..(Len(constants) - 1) /\ m \in 0..Len(constants) /\ i \in 0..Len(constants)
    BY <1>1, <1>3, <1>4
  <2>2. from \in Nat /\ from <= Len(bytes) /\ SubSeq(bytes, 1, from) = JoinedUpto(constants, m)
    BY <1>1, <1>3, <1>10
  <2>3. width \in Nat \ {0} /\ ~IsGated(fields[i]) /\ fields[i].alignment = 1 /\ Constant(fields[i])
    BY <1>3, <1>5, <2>1
  <2>4. "status" \in DOMAIN f[m] /\ f[i].status = "ok" /\ f[i] = Step(prot, layout, bytes, f[m], i)
    <3>. HIDE DEF i
    <3>. QED
      BY <1>7, <1>8, <2>1
  <2>. HIDE DEF i
  <2>5. /\ to <= Len(bytes) /\ f[i].consumed = to
        /\ SubSeq(bytes, from + 1, to) = ConstantBytes(fields[i])
    <3>. DEFINE walk == f[m]
    <3>1. /\ "status" \in DOMAIN walk /\ walk.consumed \in Nat
          /\ Step(prot, layout, bytes, walk, i).status = "ok"
          /\ f[i] = Step(prot, layout, bytes, walk, i)
      BY <2>2, <2>4
    <3>2. /\ Constant(layout.fields[i]) /\ ~IsGated(layout.fields[i])
          /\ layout.fields[i].alignment = 1 /\ layout.fields[i].width \in Nat \ {0}
      BY <2>3 DEF fields
    <3>. HIDE DEF walk
    <3>3. LiesNext(layout.fields[i], bytes, walk, Step(prot, layout, bytes, walk, i))
      BY <3>1, <3>2, ConstantIsFound
    <3>. QED
      BY <3>1, <3>3 DEF LiesNext, walk, fields
  <2>6. JoinedUpto(constants, i) = JoinedUpto(constants, m) \o constants[i]
    BY <1>4, <2>1, JoinedUptoNext DEF i
  <2>7. SubSeq(bytes, 1, from) \o SubSeq(bytes, from + 1, to) = SubSeq(bytes, 1, to)
    <3>1. 1 \in 1..(Len(bytes) + 1) /\ from \in (1 - 1)..Len(bytes) /\ to \in from..Len(bytes)
      BY <2>2, <2>3, <2>5
    <3>. HIDE DEF from, to
    <3>. QED
      BY <3>1, ConcatAdjacentSubSeq
  <2>8. constants[i] = ConstantBytes(fields[i])
    BY <1>4, <2>1
  <2>9. SubSeq(bytes, 1, to) = JoinedUpto(constants, i)
    BY <2>2, <2>5, <2>6, <2>7, <2>8
  <2>10. to \in Nat
    BY <2>2, <2>3
  <2>. QED
    BY <2>5, <2>9, <2>10 DEF i
<1>. HIDE DEF S
<1>11. p \in Nat /\ \A m \in Nat : m \in S
  BY <1>1, <1>3, <1>9, <1>10, Induction
<1>12. Behind(p)
  BY <1>11 DEF S
<1>13. layout.prefix = JoinedUpto(constants, p)
  BY <1>3, <1>4, JoinedUptoAll DEF constants
<1>14. SubSeq(bytes, 1, f[p].consumed) = layout.prefix /\ f[p].consumed \in Nat
       /\ f[p].consumed <= Len(bytes)
  BY <1>12, <1>13
<1>. DEFINE k == f[p].consumed  prefix == layout.prefix
<1>15. k \in Nat /\ k <= Len(bytes) /\ SubSeq(bytes, 1, k) = prefix
  BY <1>14
<1>. HIDE DEF k, prefix
<1>16. prefix \in Seq(Bytes) /\ Len(prefix) = k
  <2>1. \A j \in 1..k : bytes[j] \in Bytes
    BY <1>15
  <2>2. SubSeq(bytes, 1, k) = [j \in 1..k |-> bytes[j]]
    BY <1>15
  <2>. QED
    BY <1>15, <2>1, <2>2
<1>17. SubSeq(prefix, 1, Len(prefix)) = prefix
  BY <1>16, SubSeqFull
<1>18. IsPrefix(prefix, bytes)
  BY <1>15, <1>16, <1>17 DEF IsPrefix
<1>. QED
  BY <1>18 DEF MatchesPrefix, prefix

-----------------------------------------------------------------------------

\* An anchor of a checksum that has an offset in every frame.
AnchorFits(fields, anchor) ==
  /\ anchor.kind \in AnchorKinds
  /\ anchor.kind \notin {"frame_start", "frame_end"} => anchor.field \in DOMAIN fields

\* What the values written to a message need to be bytes, and what its prefix is.
Typed(layout) ==
  /\ FieldsFit(layout.fields) /\ layout.prefix = DispatchPrefix(layout.fields)
  /\ \A i \in DOMAIN layout.fields :
       /\ Has(layout.fields[i].expect) => layout.fields[i].expect[1] \in Int
       /\ layout.fields[i].fill \in Bytes
  /\ \A k \in 1..Len(layout.checksums) :
       LET sum == layout.checksums[k]
       IN  /\ sum.width \in Nat
           /\ AnchorFits(layout.fields, sum.from) /\ AnchorFits(layout.fields, sum.to)

\* Resolving a field (its offset, its alignment) keeps what it says of itself: its
\* kind, its width and its expected value.
LEMMA CompiledFieldKeeps ==
  ASSUME NEW field \in FieldDefinitions, NEW types
  PROVE  LET compiled == CompiledField(field, types)
         IN  /\ compiled.kind = field.kind /\ compiled.width = field.width
             /\ compiled.expect = field.expect /\ compiled.fill = field.fill
             /\ compiled.checksum = field.checksum
             /\ compiled.condition = field.condition /\ compiled.presence = field.presence
<1>. DEFINE compiled == CompiledField(field, types)
<1>1. {"kind", "width", "expect", "fill", "checksum", "condition", "presence"} \subseteq DOMAIN field
  BY DEF FieldDefinitions
<1>2. \A part \in {"kind", "width", "expect", "fill", "checksum", "condition", "presence"} :
        compiled[part] = field[part]
  BY <1>1 DEF CompiledField
<1>. QED
  BY <1>2

\* A compiled field is of its type: the compiler gives a scalar its width.
LEMMA CompiledFieldTyped ==
  ASSUME NEW fields \in Seq(FieldDefinitions), NEW i \in DOMAIN fields, NEW types,
         FieldAccepted(fields, i, types)
  PROVE  LET field == CompiledField(fields[i], types)
         IN  /\ Constant(field) => field.width \in Nat \ {0}
             /\ Has(field.expect) => field.expect[1] \in Int
             /\ field.fill \in Bytes
<1>. DEFINE source == fields[i]  field == CompiledField(fields[i], types)
<1>1. source \in FieldDefinitions
  OBVIOUS
<1>2. /\ source.expect \in Seq(Nat) /\ source.fill \in Bytes
  BY <1>1 DEF FieldDefinitions
<1>3. /\ field.kind = source.kind /\ field.width = source.width
      /\ field.expect = source.expect /\ field.fill = source.fill
  BY <1>1, CompiledFieldKeeps
<1>4. IsScalar(source) => source.width \in ScalarWidths
  BY DEF FieldAccepted, IsScalar, IsText, ScalarAccepted
<1>5. ScalarWidths \subseteq 1..8
  BY WireAssumption DEF WireAssumption
<1>. HIDE DEF source, field
<1>6. Has(field.expect) => field.expect[1] \in Int
  <2>1. \A s \in Seq(Nat) : s # <<>> => s[1] \in Nat
    OBVIOUS
  <2>. QED
    BY <1>2, <1>3, <2>1 DEF Has
<1>7. Constant(field) => field.width \in Nat \ {0}
  <2>1. \A w \in ScalarWidths : w \in Nat \ {0}
    BY <1>5
  <2>2. Constant(field) => IsScalar(source)
    BY <1>3 DEF Constant, IsScalar
  <2>. QED
    BY <1>3, <1>4, <2>1, <2>2
<1>. QED
  BY <1>2, <1>3, <1>6, <1>7 DEF field

\* An accepted anchor has an offset, and an own offset for before_self and after_self.
LEMMA CompiledAnchorFits ==
  ASSUME NEW fields, NEW others, DOMAIN others = DOMAIN fields, NEW i \in DOMAIN fields,
         NEW anchor, anchor.kind \in AnchorKinds, AnchorAccepted(fields, anchor)
  PROVE  AnchorFits(others, CompiledAnchor(anchor, i))
BY DEF AnchorFits, CompiledAnchor, AnchorAccepted, AnchorKinds

\* A compiled layout is of its type: its fields, its checksums and their anchors.
LEMMA CompiledLayoutTyped ==
  ASSUME NEW layout, layout.fields \in Seq(FieldDefinitions), NEW types,
         CompileLayout(layout, types).ok
  PROVE  Typed(CompileLayout(layout, types))
<1>. DEFINE fields == [i \in DOMAIN layout.fields |-> CompiledField(layout.fields[i], types)]
            compiled == CompileLayout(layout, types)
<1>1. \A i \in DOMAIN layout.fields : FieldAccepted(layout.fields, i, types)
  BY DEF CompileLayout, Failed
<1>2. /\ compiled.fields = fields /\ compiled.checksums = Checksums(fields)
      /\ compiled.prefix = DispatchPrefix(fields)
  BY <1>1 DEF CompileLayout, Failed
<1>3. DOMAIN fields = 1..Len(fields) /\ Len(fields) \in Nat /\ DOMAIN fields = DOMAIN layout.fields
  <2>. DEFINE n == Len(layout.fields)
  <2>1. DOMAIN fields = 1..n /\ n \in Nat /\ DOMAIN layout.fields = 1..n
    OBVIOUS
  <2>. HIDE DEF n
  <2>2. fields \in Seq({fields[i] : i \in 1..n})
    BY <2>1
  <2>. QED
    BY <2>1, <2>2
<1>4. \A i \in DOMAIN fields :
        /\ Constant(fields[i]) => fields[i].width \in Nat \ {0}
        /\ Has(fields[i].expect) => fields[i].expect[1] \in Int
        /\ fields[i].fill \in Bytes
  BY <1>1, CompiledFieldTyped
<1>5. FieldsFit(fields)
  <2>. HIDE DEF fields
  <2>. QED
    BY <1>3, <1>4 DEF FieldsFit, Constant
<1>6. ASSUME NEW k \in 1..Len(Checksums(fields))
      PROVE  LET sum == Checksums(fields)[k]
             IN  /\ sum.width \in Nat
                 /\ AnchorFits(fields, sum.from) /\ AnchorFits(fields, sum.to)
  <2>. DEFINE sum == Checksums(fields)[k]  i == sum.field
              source == layout.fields[i].checksum[1]
  <2>1. ChecksumOf(fields, i, sum)
    <3>. HIDE DEF fields
    <3>. QED
      BY <1>3, ChecksumsAreOfFields
  <2>2. i \in DOMAIN layout.fields /\ Has(fields[i].checksum) /\ sum = CompiledChecksum(fields, i)
    <3>. HIDE DEF fields, sum
    <3>. QED
      BY <1>3, <2>1 DEF ChecksumOf
  <2>. HIDE DEF sum, i
  <2>3. fields[i].checksum = layout.fields[i].checksum
    <3>1. layout.fields[i] \in FieldDefinitions
      BY <2>2
    <3>. QED
      BY <2>2, <3>1, CompiledFieldKeeps
  <2>4. ChecksumAccepted(layout.fields, i) /\ Has(layout.fields[i].checksum)
    BY <1>1, <2>2, <2>3 DEF FieldAccepted
  <2>5. /\ source.width \in Nat /\ source.from.kind \in AnchorKinds
        /\ source.to.kind \in AnchorKinds
    <3>1. layout.fields[i] \in FieldDefinitions
      BY <2>2
    <3>. DEFINE anchors == [kind : AnchorKinds, field : Nat]
                R == [width : Nat, from : anchors, to : anchors]
    <3>2. layout.fields[i].checksum \in Seq(R)
      BY <3>1 DEF FieldDefinitions
    <3>3. source \in R
      <4>1. \A s \in Seq(R) : s # <<>> => s[1] \in R
        <5>. HIDE DEF R
        <5>. QED
          OBVIOUS
      <4>. QED
        BY <2>4, <3>2, <4>1 DEF Has
    <3>. QED
      BY <3>3
  <2>6. AnchorAccepted(layout.fields, source.from) /\ AnchorAccepted(layout.fields, source.to)
    BY <2>4 DEF ChecksumAccepted
  <2>7. /\ sum.width = source.width /\ sum.from = CompiledAnchor(source.from, i)
        /\ sum.to = CompiledAnchor(source.to, i)
    <3>. HIDE DEF fields
    <3>. QED
      BY <2>2, <2>3 DEF CompiledChecksum
  <2>. HIDE DEF source, fields
  <2>8. AnchorFits(fields, CompiledAnchor(source.from, i)) /\ AnchorFits(fields, CompiledAnchor(source.to, i))
    BY <1>3, <2>2, <2>5, <2>6, CompiledAnchorFits
  <2>. QED
    BY <2>5, <2>7, <2>8 DEF sum
<1>. HIDE DEF fields, compiled
<1>. QED
  BY <1>2, <1>4, <1>5, <1>6 DEF Typed, compiled

\* So is every message of a protocol the compiler accepts.
LEMMA ProtocolsTyped ==
  ASSUME NEW definition \in Definitions, Compile(definition).ok
  PROVE  LET messages == Compile(definition).messages
         IN  /\ Len(messages) \in Nat /\ DOMAIN messages = 1..Len(messages)
             /\ \A i \in DOMAIN messages : Typed(messages[i])
<1>. DEFINE structs == CompileStructs(definition)
            n == Len(definition.messages)
            messages == [k \in DOMAIN definition.messages |->
                           CompileLayout(definition.messages[k], structs)]
<1>1. /\ \A k \in DOMAIN messages : messages[k].ok
      /\ Compile(definition).messages = messages
  BY DEF Compile, Failed
<1>2. n \in Nat /\ DOMAIN definition.messages = 1..n
  BY DefinitionAssumption DEF DefinitionAssumption
<1>3. \A k \in DOMAIN definition.messages : definition.messages[k].fields \in Seq(FieldDefinitions)
  BY DefinitionAssumption DEF DefinitionAssumption
<1>4. \A i \in DOMAIN messages : Typed(messages[i])
  <2>. SUFFICES ASSUME NEW i \in DOMAIN definition.messages
                PROVE  Typed(CompileLayout(definition.messages[i], structs))
    OBVIOUS
  <2>1. CompileLayout(definition.messages[i], structs).ok
    BY <1>1
  <2>. HIDE DEF structs
  <2>. QED
    BY <1>3, <2>1, CompiledLayoutTyped
<1>5. DOMAIN messages = 1..n
  BY <1>2
<1>. HIDE DEF messages
<1>6. Len(messages) = n
  <2>. HIDE DEF n
  <2>1. \A k \in 1..n : messages[k] \in {messages[j] : j \in 1..n}
    OBVIOUS
  <2>2. messages = [k \in 1..n |-> messages[k]]
    BY <1>5 DEF messages
  <2>3. messages \in Seq({messages[j] : j \in 1..n})
    BY <1>2, <2>1, <2>2
  <2>. QED
    BY <1>2, <1>5, <2>3
<1>. QED
  BY <1>1, <1>2, <1>4, <1>5, <1>6

-----------------------------------------------------------------------------

\* The segmented builder, its segments strings of bytes.
HoldsBytes(layout, b) ==
  /\ DOMAIN b = SegmentedParts
  /\ b.segments \in Seq(Seq(Bytes))
  /\ b.starts \in [DOMAIN layout.fields -> Nat] /\ b.ends \in [DOMAIN layout.fields -> Nat]
  /\ b.next \in 1..(Len(layout.fields) + 1)

\* The buffer still holds bytes when segments, fields and position stay.
LEMMA HoldsBytesKept ==
  ASSUME NEW layout, NEW b, HoldsBytes(layout, b), NEW b2, DOMAIN b2 = DOMAIN b,
         b2.segments = b.segments, b2.starts = b.starts, b2.ends = b.ends, b2.next = b.next
  PROVE  HoldsBytes(layout, b2)
BY DEF HoldsBytes

\* And when another part of the builder changes: its status, its presence bits.
LEMMA OtherPartKept ==
  ASSUME NEW layout, NEW b, HoldsBytes(layout, b), NEW value,
         NEW part \in {"status", "failed", "finalized", "written"}
  PROVE  HoldsBytes(layout, [b EXCEPT ![part] = value])
<1>. DEFINE b2 == [b EXCEPT ![part] = value]
<1>1. DOMAIN b = SegmentedParts
  BY DEF HoldsBytes
<1>2. /\ DOMAIN b2 = DOMAIN b /\ b2.segments = b.segments /\ b2.starts = b.starts
      /\ b2.ends = b.ends /\ b2.next = b.next
  BY <1>1 DEF SegmentedParts
<1>. HIDE DEF b2
<1>3. HoldsBytes(layout, b2)
  BY <1>2, HoldsBytesKept
<1>. QED
  BY <1>3 DEF b2

\* A builder call that is refused, or that fails the builder, writes nothing.
LEMMA RefusedKept ==
  ASSUME NEW layout, NEW b, HoldsBytes(layout, b), NEW status
  PROVE  /\ HoldsBytes(layout, Refused(b)) /\ HoldsBytes(layout, Fails(b, status))
         /\ HoldsBytes(layout, [b EXCEPT !.status = status])
<1>1. DOMAIN b = SegmentedParts
  BY DEF HoldsBytes
<1>2. HoldsBytes(layout, Refused(b))
  BY OtherPartKept DEF Refused
<1>3. HoldsBytes(layout, [b EXCEPT !.status = status])
  BY OtherPartKept
<1>4. HoldsBytes(layout, Fails(b, status))
  <2>. DEFINE b2 == Fails(b, status)
  <2>1. /\ DOMAIN b2 = DOMAIN b /\ b2.segments = b.segments /\ b2.starts = b.starts
        /\ b2.ends = b.ends /\ b2.next = b.next
    BY <1>1 DEF SegmentedParts, Fails
  <2>. HIDE DEF b2
  <2>2. HoldsBytes(layout, b2)
    BY <2>1, HoldsBytesKept
  <2>. QED
    BY <2>2 DEF b2
<1>. QED
  BY <1>2, <1>3, <1>4

\* The segments of the builder joined, as finalize() copies them, are bytes.
LEMMA JoinedType ==
  ASSUME NEW layout, NEW b, HoldsBytes(layout, b)
  PROVE  Joined(b) \in Seq(Bytes) /\ Len(Joined(b)) \in Nat /\ Output(b) = Joined(b)
<1>1. Joined(b) \in Seq(Bytes)
  BY FlattenSeqType DEF HoldsBytes, Joined
<1>2. Output(b) = Joined(b)
  BY DEF HoldsBytes, Output, IsContiguous, SegmentedParts
<1>. QED
  BY <1>1, <1>2

\* A segment of bytes appended to the ones there are.
LEMMA AppendSegmentKept ==
  ASSUME NEW layout, NEW b, HoldsBytes(layout, b), NEW bytes \in Seq(Bytes),
         NEW storage \in Storages
  PROVE  HoldsBytes(layout, AppendSegment(b, bytes, storage))
<1>. DEFINE scratch == IF storage = "borrowed" THEN 0 ELSE Len(bytes)
            b2 == [b EXCEPT !.segments = Append(@, bytes), !.status = "ok", !.scratch = @ + scratch]
<1>1. DOMAIN b = SegmentedParts /\ b.segments \in Seq(Seq(Bytes))
  BY DEF HoldsBytes
<1>2. /\ DOMAIN b2 = DOMAIN b /\ b2.segments = Append(b.segments, bytes) /\ b2.starts = b.starts
      /\ b2.ends = b.ends /\ b2.next = b.next
  BY <1>1 DEF SegmentedParts
<1>3. Append(b.segments, bytes) \in Seq(Seq(Bytes))
  BY <1>1, AppendProperties
<1>4. AppendSegment(b, bytes, storage) \in {Fails(b, "buffer_too_small"), b2}
  BY DEF AppendSegment
<1>. HIDE DEF b2
<1>5. HoldsBytes(layout, b2)
  BY <1>2, <1>3 DEF HoldsBytes
<1>6. HoldsBytes(layout, Fails(b, "buffer_too_small"))
  BY RefusedKept
<1>. QED
  BY <1>4, <1>5, <1>6

\* The bytes of a field written by the builder.
LEMMA PutKept ==
  ASSUME NEW layout, NEW b, HoldsBytes(layout, b), NEW i \in DOMAIN layout.fields,
         NEW bytes \in Seq(Bytes), NEW storage \in Storages
  PROVE  HoldsBytes(layout, Put(b, i, bytes, storage))
<1>. DEFINE start == Len(Joined(b))  b2 == AppendSegment(b, bytes, storage)
            b3 == [b2 EXCEPT !.starts[i] = start, !.ends[i] = start + Len(bytes),
                             !.segment[i] = Len(b2.segments)]
<1>1. start \in Nat /\ start + Len(bytes) \in Nat
  BY JoinedType
<1>2. HoldsBytes(layout, b2)
  BY AppendSegmentKept
<1>3. Put(b, i, bytes, storage) = IF b2.status # "ok" THEN b2 ELSE b3
  BY DEF HoldsBytes, Put, IsContiguous, SegmentedParts, SegmentedPut
<1>. DEFINE to == start + Len(bytes)
<1>. HIDE DEF start, b2
<1>4. HoldsBytes(layout, b3)
  <2>1. DOMAIN b2 = SegmentedParts
    BY <1>2 DEF HoldsBytes
  <2>2. /\ DOMAIN b3 = DOMAIN b2 /\ b3.segments = b2.segments /\ b3.next = b2.next
        /\ b3.starts = [b2.starts EXCEPT ![i] = start]
        /\ b3.ends = [b2.ends EXCEPT ![i] = to]
    BY <2>1 DEF SegmentedParts
  <2>. HIDE DEF b3, to
  <2>3. /\ [b2.starts EXCEPT ![i] = start] \in [DOMAIN layout.fields -> Nat]
        /\ [b2.ends EXCEPT ![i] = to] \in [DOMAIN layout.fields -> Nat]
    BY <1>1, <1>2 DEF HoldsBytes, to
  <2>. QED
    BY <1>2, <2>2, <2>3 DEF HoldsBytes
<1>. HIDE DEF b3
<1>. QED
  BY <1>2, <1>3, <1>4

\* The zeros the builder writes in the gap before an aligned field.
LEMMA PadKept ==
  ASSUME NEW layout, Fits(layout), NEW b, HoldsBytes(layout, b), NEW i \in DOMAIN layout.fields
  PROVE  HoldsBytes(layout, Pad(layout, b, i))
<1>. DEFINE total == Len(Joined(b))  alignment == layout.fields[i].alignment
            gap == AlignUp(total, alignment) - total
<1>1. total \in Nat /\ alignment \in Nat
  BY JoinedType DEF Fits, FieldFits
<1>2. gap \in Nat
  <2>. HIDE DEF total, alignment
  <2>. QED
    BY <1>1, AlignUpGrows
<1>3. Zeros(gap) \in Seq(Bytes)
  <2>. HIDE DEF gap
  <2>1. 0 \in Bytes
    BY BaseType DEF Bytes
  <2>. QED
    BY <1>2, <2>1 DEF Zeros
<1>4. Pad(layout, b, i) = IF gap = 0 THEN b ELSE AppendSegment(b, Zeros(gap), "owned")
  BY DEF HoldsBytes, Pad, IsContiguous, SegmentedParts, SegmentedPad
<1>. HIDE DEF gap
<1>. QED
  BY <1>3, <1>4, AppendSegmentKept DEF Storages

\* A number the builder writes in a scalar field.
LEMMA PutScalarKept ==
  ASSUME NEW layout, Fits(layout), NEW b, HoldsBytes(layout, b), NEW i \in DOMAIN layout.fields,
         NEW value \in Int
  PROVE  HoldsBytes(layout, PutScalar(layout, b, i, value))
<1>. DEFINE field == layout.fields[i]
            bytes == WriteUnsigned(value, field.width, field.order)
            b2 == Put(b, i, bytes, "scalar")
<1>1. bytes \in Seq(Bytes)
  <2>1. field.width \in Nat
    BY DEF Fits, FieldFits
  <2>. QED
    BY <2>1, WriteUnsignedType
<1>2. PutScalar(layout, b, i, value) = IF b2.status # "ok" THEN b2 ELSE Noted(b2, i, value)
  BY DEF PutScalar, Noted
<1>. HIDE DEF bytes
<1>3. HoldsBytes(layout, b2)
  BY <1>1, PutKept DEF Storages
<1>. HIDE DEF b2
<1>4. HoldsBytes(layout, Noted(b2, i, value))
  BY <1>3, OtherPartKept DEF Noted
<1>. QED
  BY <1>2, <1>3, <1>4

-----------------------------------------------------------------------------

\* A field the builder fills in by itself: a constant, a default, a computed one.
LEMMA FillInKept ==
  ASSUME NEW layout, Fits(layout), Typed(layout), NEW b, HoldsBytes(layout, b),
         NEW i \in DOMAIN layout.fields
  PROVE  HoldsBytes(layout, FillIn(layout, b, i))
<1>. DEFINE field == layout.fields[i]
            Filled(n, byte) == [k \in 1..n |-> byte]
<1>1. field.width \in Nat /\ field.size \in Nat /\ field.fill \in Bytes /\ 0 \in Bytes
  BY BaseType DEF Fits, FieldFits, Typed, Bytes
<1>2. ASSUME NEW n \in Nat, NEW byte \in Bytes
      PROVE  HoldsBytes(layout, Put(b, i, Filled(n, byte), "owned"))
  <2>. DEFINE bytes == Filled(n, byte)
  <2>1. bytes \in Seq(Bytes)
    OBVIOUS
  <2>. HIDE DEF bytes
  <2>2. HoldsBytes(layout, Put(b, i, bytes, "owned"))
    BY <2>1, PutKept DEF Storages
  <2>. QED
    BY <2>2 DEF bytes
<1>3. CASE Has(field.checksum)
  <2>. DEFINE b2 == Put(b, i, Filled(field.width, 0), "owned")
  <2>1. FillIn(layout, b, i) = Noted(b2, i, 0)
    BY <1>3 DEF FillIn, Noted
  <2>2. HoldsBytes(layout, b2)
    BY <1>1, <1>2
  <2>. HIDE DEF b2
  <2>3. HoldsBytes(layout, Noted(b2, i, 0))
    BY <2>2, OtherPartKept DEF Noted
  <2>. QED
    BY <2>1, <2>3
<1>4. CASE ~Has(field.checksum) /\ Has(field.expect)
  <2>1. FillIn(layout, b, i) = PutScalar(layout, b, i, field.expect[1])
    BY <1>4 DEF FillIn
  <2>2. field.expect[1] \in Int
    BY <1>4 DEF Typed
  <2>. QED
    BY <2>1, <2>2, PutScalarKept
<1>5. CASE ~Has(field.checksum) /\ ~Has(field.expect) /\ field.reserved
  <2>1. FillIn(layout, b, i) = Put(b, i, Filled(field.size, field.fill), "owned")
    BY <1>5 DEF FillIn
  <2>. QED
    BY <1>1, <1>2, <2>1
<1>6. CASE ~Has(field.checksum) /\ ~Has(field.expect) /\ ~field.reserved
  <2>1. FillIn(layout, b, i) = Fails(b, "invalid_data")
    BY <1>6 DEF FillIn
  <2>. QED
    BY <2>1, RefusedKept
<1>. QED
  BY <1>3, <1>4, <1>5, <1>6

\* A field the builder passes over on its way to another: filled in, or refused.
LEMMA PassOverKept ==
  ASSUME NEW layout, Fits(layout), Typed(layout), NEW b, HoldsBytes(layout, b),
         NEW i \in DOMAIN layout.fields
  PROVE  HoldsBytes(layout, PassOver(layout, b, i))
<1>. DEFINE b2 == Pad(layout, b, i)
<1>1. PassOver(layout, b, i) = IF b.status # "ok" THEN b
                               ELSE IF b2.status # "ok" THEN b2 ELSE FillIn(layout, b2, i)
  BY DEF PassOver
<1>2. HoldsBytes(layout, b2)
  BY PadKept
<1>. HIDE DEF b2
<1>3. HoldsBytes(layout, FillIn(layout, b2, i))
  BY <1>2, FillInKept
<1>. QED
  BY <1>1, <1>2, <1>3

\* advance_to() passes over fields, each of which writes bytes or refuses.
LEMMA AdvanceKept ==
  ASSUME NEW layout, Fits(layout), Typed(layout), NEW b, HoldsBytes(layout, b),
         NEW target \in b.next..(Len(layout.fields) + 1)
  PROVE  HoldsBytes(layout, AdvanceTo(layout, b, target))
<1>. DEFINE first == b.next - 1  last == target - 1  n == Len(layout.fields)
<1>1. n \in Nat /\ DOMAIN layout.fields = 1..n /\ b.next \in 1..(n + 1)
  BY DEF Fits, HoldsBytes
<1>2. /\ first \in Nat /\ last \in Nat /\ first <= last /\ last <= n /\ target \in Nat
      /\ b.next \in Nat \ {0} /\ target >= b.next /\ target \in 1..(n + 1)
  BY <1>1
<1>3. CASE b.failed
  <2>1. AdvanceTo(layout, b, target) = Refused(b)
    BY <1>3 DEF AdvanceTo
  <2>. QED
    BY <2>1, RefusedKept
<1>4. CASE ~b.failed
  <2>1. PICK f : /\ Passed(layout, b, first, last, f)
                 /\ AdvanceTo(layout, b, target) = Arrived(f[last], target)
    BY <1>2, <1>4, AdvanceIsPassed
  <2>. HIDE DEF first, last, n
  <2>. DEFINE S == {m \in Nat : first + m <= last => HoldsBytes(layout, f[first + m])}
  <2>2. 0 \in S
    <3>1. first \in first..last /\ first + 0 = first
      BY <1>2
    <3>2. f[first] = [b EXCEPT !.status = "ok"]
      BY <2>1, <3>1 DEF Passed
    <3>3. HoldsBytes(layout, [b EXCEPT !.status = "ok"])
      BY RefusedKept
    <3>4. HoldsBytes(layout, f[first])
      BY <3>2, <3>3
    <3>. QED
      BY <3>1, <3>4
  <2>3. ASSUME NEW m \in Nat, m \in S PROVE m + 1 \in S
    <3>. SUFFICES ASSUME first + (m + 1) <= last PROVE HoldsBytes(layout, f[first + (m + 1)])
      OBVIOUS
    <3>. DEFINE i == first + (m + 1)
    <3>1. i \in first..last /\ i # first /\ i - 1 = first + m /\ first + m <= last /\ i \in 1..n
      BY <1>1, <1>2
    <3>2. HoldsBytes(layout, f[first + m])
      BY <2>3, <3>1
    <3>. HIDE DEF i
    <3>3. f[i] = PassOver(layout, f[first + m], i)
      BY <2>1, <3>1 DEF Passed
    <3>4. HoldsBytes(layout, f[i])
      BY <1>1, <3>1, <3>2, <3>3, PassOverKept
    <3>. QED
      BY <3>4 DEF i
  <2>. HIDE DEF S
  <2>4. \A m \in Nat : m \in S
    BY <2>2, <2>3, Induction
  <2>5. HoldsBytes(layout, f[last])
    <3>1. last - first \in Nat /\ first + (last - first) = last
      BY <1>2
    <3>2. last - first \in S
      BY <2>4, <3>1
    <3>. QED
      BY <1>2, <3>1, <3>2 DEF S
  <2>. DEFINE b2 == f[last]  b3 == [b2 EXCEPT !.next = target]
  <2>6. AdvanceTo(layout, b, target) = IF b2.status # "ok" THEN b2 ELSE b3
    BY <2>1 DEF Arrived
  <2>. HIDE DEF b2
  <2>7. HoldsBytes(layout, b2)
    BY <2>5 DEF b2
  <2>8. HoldsBytes(layout, b3)
    <3>1. DOMAIN b2 = SegmentedParts
      BY <2>7 DEF HoldsBytes
    <3>2. /\ DOMAIN b3 = DOMAIN b2 /\ b3.segments = b2.segments /\ b3.starts = b2.starts
          /\ b3.ends = b2.ends /\ b3.next = target
      BY <3>1 DEF SegmentedParts
    <3>. HIDE DEF b3
    <3>. QED
      BY <1>2, <2>7, <3>2 DEF HoldsBytes, n
  <2>. HIDE DEF b3
  <2>. QED
    BY <2>6, <2>7, <2>8
<1>. QED
  BY <1>3, <1>4

\* The position after a field that was written is the next field.
LEMMA WrittenKept ==
  ASSUME NEW layout, Fits(layout), NEW b, HoldsBytes(layout, b), NEW i \in DOMAIN layout.fields
  PROVE  HoldsBytes(layout, Written(b, i))
<1>. DEFINE b2 == [b EXCEPT !.next = i + 1]
<1>1. Written(b, i) = IF b.status # "ok" THEN b ELSE b2
  BY DEF Written
<1>2. DOMAIN b = SegmentedParts
  BY DEF HoldsBytes
<1>3. /\ DOMAIN b2 = DOMAIN b /\ b2.segments = b.segments /\ b2.starts = b.starts
      /\ b2.ends = b.ends /\ b2.next = i + 1
  BY <1>2 DEF SegmentedParts
<1>4. i + 1 \in 1..(Len(layout.fields) + 1)
  BY DEF Fits
<1>. HIDE DEF b2
<1>5. HoldsBytes(layout, b2)
  BY <1>3, <1>4 DEF HoldsBytes
<1>. QED
  BY <1>1, <1>5

\* A setter may only write a field the layout has.
LEMMA MaySetTarget ==
  ASSUME NEW layout, Fits(layout), NEW b, HoldsBytes(layout, b), NEW i, NEW accepted,
         MaySet(layout, b, i, accepted)
  PROVE  i \in DOMAIN layout.fields /\ i \in b.next..(Len(layout.fields) + 1) /\ accepted
<1>1. i \in DOMAIN layout.fields /\ i >= b.next /\ accepted
  BY DEF MaySet
<1>2. DOMAIN layout.fields = 1..Len(layout.fields) /\ Len(layout.fields) \in Nat
  BY DEF Fits
<1>3. b.next \in Nat
  BY <1>2 DEF HoldsBytes
<1>. QED
  BY <1>1, <1>2, <1>3

\* set_unsigned(), set_signed() and set_float() append bytes or are refused.
LEMMA SetScalarKept ==
  ASSUME NEW layout, Fits(layout), Typed(layout), NEW b, HoldsBytes(layout, b),
         NEW i, NEW accepted, NEW value \in Int
  PROVE  HoldsBytes(layout, SetScalar(layout, b, i, accepted, value))
<1>1. CASE ~MaySet(layout, b, i, accepted)
  BY <1>1, RefusedKept DEF SetScalar
<1>2. CASE MaySet(layout, b, i, accepted)
  <2>. DEFINE b2 == AdvanceTo(layout, b, i)
  <2>1. SetScalar(layout, b, i, accepted, value) =
          IF b2.status # "ok" THEN b2 ELSE Written(PutScalar(layout, b2, i, value), i)
    BY <1>2 DEF SetScalar
  <2>2. i \in DOMAIN layout.fields /\ HoldsBytes(layout, b2)
    BY <1>2, MaySetTarget, AdvanceKept
  <2>. HIDE DEF b2
  <2>3. HoldsBytes(layout, PutScalar(layout, b2, i, value))
    BY <2>2, PutScalarKept
  <2>4. HoldsBytes(layout, Written(PutScalar(layout, b2, i, value), i))
    BY <2>2, <2>3, WrittenKept
  <2>. QED
    BY <2>1, <2>2, <2>4
<1>. QED
  BY <1>1, <1>2

\* So do set_bytes(), set_string(), attach_bytes() and attach_string().
LEMMA SetPayloadKept ==
  ASSUME NEW layout, Fits(layout), Typed(layout), NEW b, HoldsBytes(layout, b),
         NEW i, NEW accepted, NEW payload \in Seq(Bytes), NEW storage \in Storages
  PROVE  HoldsBytes(layout, SetPayload(layout, b, i, accepted, payload, storage))
<1>1. CASE ~MaySet(layout, b, i, accepted)
  BY <1>1, RefusedKept DEF SetPayload
<1>2. CASE MaySet(layout, b, i, accepted)
  <2>. DEFINE b2 == AdvanceTo(layout, b, i)  b3 == Put(b2, i, payload, storage)
  <2>1. SetPayload(layout, b, i, accepted, payload, storage) =
          IF b2.status # "ok" THEN b2 ELSE Written(b3, i)
    BY <1>2 DEF SetPayload
  <2>2. i \in DOMAIN layout.fields /\ HoldsBytes(layout, b2)
    BY <1>2, MaySetTarget, AdvanceKept
  <2>. HIDE DEF b2
  <2>3. HoldsBytes(layout, b3)
    BY <2>2, PutKept
  <2>. HIDE DEF b3
  <2>4. HoldsBytes(layout, Written(b3, i))
    BY <2>2, <2>3, WrittenKept
  <2>. QED
    BY <2>1, <2>2, <2>4
<1>. QED
  BY <1>1, <1>2

-----------------------------------------------------------------------------

\* The digest of bytes, which the checksum's own field is cut to, is a number.
LEMMA DigestType ==
  ASSUME NEW bytes \in Seq(Bytes), NEW width \in Nat
  PROVE  Digest(bytes, width) \in Nat
<1>. DEFINE n == Len(bytes)
            modulus == Values(width)
            step == [i \in 1..n |-> [x \in Nat |-> (3 * x + bytes[i] + 1) % modulus]]
            Steps(f) == f = [i \in 0..n |-> IF i = 0 THEN 0
                                            ELSE (3 * f[i - 1] + bytes[i] + 1) % modulus]
            c == CHOOSE f : Steps(f)
<1>1. modulus \in Nat \ {0}
  BY ValuesType
<1>2. n \in Nat /\ \A i \in 1..n : bytes[i] \in Nat
  BY BaseType DEF Bytes
<1>. HIDE DEF n, modulus
<1>3. \A i \in 1..n, x \in Nat : (3 * x + bytes[i] + 1) % modulus \in Nat
  <2>. SUFFICES ASSUME NEW i \in 1..n, NEW x \in Nat
                PROVE  (3 * x + bytes[i] + 1) % modulus \in Nat
    OBVIOUS
  <2>. DEFINE y == 3 * x + bytes[i] + 1
  <2>1. y \in Nat
    BY <1>2
  <2>. HIDE DEF y
  <2>2. y % modulus \in Nat
    BY <1>1, <2>1
  <2>. QED
    BY <2>2 DEF y
<1>4. PICK f : StepsOf(n, Nat, 0, step, f)
  <2>1. \A i \in 1..n, x \in Nat : step[i][x] \in Nat
    BY <1>3
  <2>. HIDE DEF step
  <2>. QED
    BY <1>2, <2>1, StepsExist
<1>5. Steps(f)
  <2>1. ASSUME NEW i \in 0..n
        PROVE  f[i] = IF i = 0 THEN 0 ELSE (3 * f[i - 1] + bytes[i] + 1) % modulus
    <3>1. i # 0 => i \in 1..n /\ i - 1 \in 0..n
      BY <1>2
    <3>2. i # 0 => f[i - 1] \in Nat /\ f[i] = step[i][f[i - 1]]
      BY <1>4, <3>1 DEF StepsOf
    <3>. QED
      BY <1>4, <3>1, <3>2 DEF StepsOf
  <2>2. f = [i \in 0..n |-> f[i]]
    BY <1>4 DEF StepsOf
  <2>. QED
    BY <2>1, <2>2, Zenon
<1>6. Steps(c)
  BY <1>5
<1>7. Digest(bytes, width) = c[n]
  BY DEF Digest, n, modulus
<1>8. c[0] = 0 /\ \A i \in 1..n : c[i] = (3 * c[i - 1] + bytes[i] + 1) % modulus
  <2>1. \A i \in 0..n : c[i] = IF i = 0 THEN 0 ELSE (3 * c[i - 1] + bytes[i] + 1) % modulus
    BY <1>6, Zenon
  <2>2. 0 \in 0..n /\ \A i \in 1..n : i \in 0..n /\ i # 0
    BY <1>2
  <2>. HIDE DEF c
  <2>. QED
    BY <2>1, <2>2
<1>. HIDE DEF c
<1>9. \A i \in 0..n : c[i] \in Nat
  <2>1. \A i \in 1..n : c[i - 1] \in Nat => c[i] \in Nat
    BY <1>3, <1>8
  <2>. QED
    BY <1>2, <1>8, <2>1, StepsAreTyped
<1>. QED
  BY <1>2, <1>7, <1>9

\* An anchor of a compiled checksum stands for a place in the message.
LEMMA AnchorOffsetType ==
  ASSUME NEW layout, NEW b, HoldsBytes(layout, b), NEW anchor, AnchorFits(layout.fields, anchor),
         NEW total \in Nat
  PROVE  AnchorOffset(anchor, b.starts, b.ends, total) \in Nat
<1>1. /\ b.starts \in [DOMAIN layout.fields -> Nat] /\ b.ends \in [DOMAIN layout.fields -> Nat]
  BY DEF HoldsBytes
<1>2. CASE anchor.kind = "frame_start"
  BY <1>2 DEF AnchorOffset
<1>3. CASE anchor.kind = "frame_end"
  BY <1>3 DEF AnchorOffset
<1>4. CASE anchor.kind \notin {"frame_start", "frame_end"}
  <2>1. anchor.field \in DOMAIN layout.fields
    BY <1>4 DEF AnchorFits
  <2>2. b.starts[anchor.field] \in Nat /\ b.ends[anchor.field] \in Nat
    BY <1>1, <2>1
  <2>3. AnchorOffset(anchor, b.starts, b.ends, total)
          \in {b.starts[anchor.field], b.ends[anchor.field]}
    BY <1>4 DEF AnchorOffset
  <2>. QED
    BY <2>2, <2>3
<1>. QED
  BY <1>2, <1>3, <1>4

\* A checksum patched into its field leaves bytes: the segment that holds the field
\* is rewritten in place.
LEMMA PatchKept ==
  ASSUME NEW layout, Fits(layout), NEW b, HoldsBytes(layout, b), NEW i \in DOMAIN layout.fields,
         NEW digest \in Int
  PROVE  HoldsBytes(layout, Patch(layout, b, i, digest))
<1>. DEFINE patch == WriteUnsigned(digest, layout.fields[i].width, layout.fields[i].order)
            k == b.segment[i]  segs == b.segments  patched == Replaced(segs, k, patch)
            b2 == Patch(layout, b, i, digest)
<1>1. DOMAIN b = SegmentedParts /\ segs \in Seq(Seq(Bytes))
  BY DEF HoldsBytes
<1>2. patch \in Seq(Bytes)
  <2>1. layout.fields[i].width \in Nat
    BY DEF Fits, FieldFits
  <2>. QED
    BY <2>1, WriteUnsignedType
<1>3. /\ DOMAIN b2 = DOMAIN b /\ b2.segments = patched /\ b2.starts = b.starts
      /\ b2.ends = b.ends /\ b2.next = b.next
  BY <1>1 DEF Patch, IsContiguous, SegmentedPatch, SegmentedParts, Replaced
<1>. HIDE DEF patch, k, segs, b2
<1>4. patched \in Seq(Seq(Bytes))
  <2>1. CASE k \in 1..Len(segs)
    BY <1>1, <1>2, <2>1, ExceptSeq DEF Replaced
  <2>2. CASE k \notin 1..Len(segs)
    <3>1. k \notin DOMAIN segs
      BY <1>1, <2>2
    <3>2. patched = segs
      BY <1>1, <3>1 DEF Replaced
    <3>. QED
      BY <1>1, <3>2
  <2>. QED
    BY <2>1, <2>2
<1>. HIDE DEF patched
<1>5. HoldsBytes(layout, b2)
  BY <1>3, <1>4 DEF HoldsBytes
<1>. QED
  BY <1>5 DEF b2

\* write_checksum(): the digest of the bytes between its anchors, patched in, or a
\* refusal.
LEMMA WriteChecksumKept ==
  ASSUME NEW layout, Fits(layout), NEW b, HoldsBytes(layout, b), NEW sum,
         sum.field \in DOMAIN layout.fields, sum.width \in Nat,
         AnchorFits(layout.fields, sum.from), AnchorFits(layout.fields, sum.to)
  PROVE  HoldsBytes(layout, WriteChecksum(layout, b, sum))
<1>. DEFINE out == Output(b)  total == Len(out)
            from == AnchorOffset(sum.from, b.starts, b.ends, total)
            to == AnchorOffset(sum.to, b.starts, b.ends, total)
            digest == Digest(Slice(out, from, to - from), sum.width)
            b2 == Patch(layout, b, sum.field, digest)
<1>1. out \in Seq(Bytes) /\ total \in Nat
  BY JoinedType
<1>2. from \in Nat /\ to \in Nat
  <2>. HIDE DEF total
  <2>. QED
    BY <1>1, AnchorOffsetType
<1>3. WriteChecksum(layout, b, sum) =
        IF b.status # "ok" THEN b
        ELSE IF from > to \/ to > total THEN Fails(b, "invalid_data")
        ELSE Noted(b2, sum.field, digest)
  BY DEF WriteChecksum, Noted
<1>. HIDE DEF out, from, to
<1>4. CASE b.status = "ok" /\ ~(from > to \/ to > total)
  <2>1. from <= to /\ to <= Len(out)
    BY <1>1, <1>2, <1>4
  <2>. DEFINE part == Slice(out, from, to - from)
  <2>2. part \in Seq(Bytes)
    <3>1. part = SubSeq(out, from + 1, to)
      BY <1>2 DEF Slice
    <3>2. \A k \in (from + 1)..to : out[k] \in Bytes
      BY <1>1, <1>2, <2>1
    <3>3. from + 1 \in Int /\ to \in Int
      BY <1>2
    <3>. HIDE DEF part
    <3>. QED
      BY <3>1, <3>2, <3>3, SubSeqProperties
  <2>. HIDE DEF part
  <2>3. digest \in Int
    <3>1. Digest(part, sum.width) \in Nat
      BY <2>2, DigestType
    <3>. QED
      BY <3>1 DEF part
  <2>. HIDE DEF digest
  <2>4. HoldsBytes(layout, b2)
    BY <2>3, PatchKept
  <2>. HIDE DEF b2
  <2>5. HoldsBytes(layout, Noted(b2, sum.field, digest))
    BY <2>4, OtherPartKept DEF Noted
  <2>. QED
    BY <1>3, <1>4, <2>5
<1>5. CASE ~(b.status = "ok" /\ ~(from > to \/ to > total))
  <2>1. HoldsBytes(layout, Fails(b, "invalid_data"))
    BY RefusedKept
  <2>. QED
    BY <1>3, <1>5, <2>1
<1>. QED
  BY <1>4, <1>5

\* finalize() patches in all the checksums, one after the other.
LEMMA WriteChecksumsKept ==
  ASSUME NEW layout, Fits(layout), Typed(layout), NEW b, HoldsBytes(layout, b)
  PROVE  HoldsBytes(layout, WriteChecksums(layout, b))
<1>. DEFINE n == Len(layout.checksums)
<1>1. PICK f : Summed(layout, b, n, f) /\ WriteChecksums(layout, b) = f[n]
  BY WriteChecksumsIsSummed
<1>2. n \in Nat
  BY DEF Fits
<1>. DEFINE S == {m \in Nat : m <= n => HoldsBytes(layout, f[m])}
<1>3. \A k \in 1..n : LET sum == layout.checksums[k]
                      IN  /\ sum.field \in DOMAIN layout.fields /\ sum.width \in Nat
                          /\ AnchorFits(layout.fields, sum.from)
                          /\ AnchorFits(layout.fields, sum.to)
  BY DEF Fits, Typed
<1>. HIDE DEF n
<1>4. 0 \in S
  <2>1. f[0] = b
    BY <1>1, <1>2 DEF Summed
  <2>. QED
    BY <2>1
<1>5. ASSUME NEW m \in Nat, m \in S PROVE m + 1 \in S
  <2>. SUFFICES ASSUME m + 1 <= n PROVE HoldsBytes(layout, f[m + 1])
    OBVIOUS
  <2>. DEFINE k == m + 1
  <2>1. k \in 0..n /\ k # 0 /\ k - 1 = m /\ k \in 1..n /\ m <= n
    BY <1>2
  <2>2. HoldsBytes(layout, f[m])
    BY <1>5, <2>1
  <2>. HIDE DEF k
  <2>3. f[k] = WriteChecksum(layout, f[m], layout.checksums[k])
    BY <1>1, <2>1 DEF Summed
  <2>. DEFINE sum == layout.checksums[k]
  <2>4. /\ sum.field \in DOMAIN layout.fields /\ sum.width \in Nat
        /\ AnchorFits(layout.fields, sum.from) /\ AnchorFits(layout.fields, sum.to)
    BY <1>3, <2>1
  <2>. HIDE DEF sum
  <2>5. HoldsBytes(layout, WriteChecksum(layout, f[m], sum))
    BY <2>2, <2>4, WriteChecksumKept
  <2>. QED
    BY <2>3, <2>5 DEF sum, k
<1>. HIDE DEF S
<1>6. \A m \in Nat : m \in S
  BY <1>4, <1>5, Induction
<1>. QED
  BY <1>1, <1>2, <1>6 DEF S

\* finalize() leaves bytes, the first call and the ones after it.
LEMMA FinalizeKept ==
  ASSUME NEW layout, Fits(layout), Typed(layout), NEW b, HoldsBytes(layout, b)
  PROVE  HoldsBytes(layout, BuilderFinalize(layout, b))
<1>. DEFINE n == Len(layout.fields) + 1
            b2 == AdvanceTo(layout, b, n)  b3 == WriteChecksums(layout, b2)
            b4 == [b3 EXCEPT !.finalized = TRUE]
<1>1. HoldsBytes(layout, Refused(b)) /\ HoldsBytes(layout, [b EXCEPT !.status = "ok"])
  BY RefusedKept
<1>2. BuilderFinalize(layout, b) \in
        {Refused(b), [b EXCEPT !.status = "ok"], b3, Fails(b3, "invalid_data"), b4}
  BY DEF BuilderFinalize, Complete
<1>3. HoldsBytes(layout, b2)
  <2>1. n \in b.next..n
    BY DEF Fits, HoldsBytes
  <2>. QED
    BY <2>1, AdvanceKept
<1>. HIDE DEF b2
<1>4. HoldsBytes(layout, b3)
  BY <1>3, WriteChecksumsKept
<1>. HIDE DEF b3
<1>5. HoldsBytes(layout, Fails(b3, "invalid_data"))
  BY <1>4, RefusedKept
<1>6. HoldsBytes(layout, b4)
  BY <1>4, OtherPartKept
<1>. HIDE DEF b4
<1>. QED
  BY <1>1, <1>2, <1>4, <1>5, <1>6

-----------------------------------------------------------------------------

\* The inductive invariant of what holds bytes: the segments and the frame.
Framed == frame = <<>> \/ \E bytes \in Seq(Bytes) : frame = <<bytes>>
BInv ==
  /\ Len(protocol.messages) \in Nat /\ DOMAIN protocol.messages = 1..Len(protocol.messages)
  /\ \A i \in DOMAIN protocol.messages : Typed(protocol.messages[i])
  /\ message \in DOMAIN protocol.messages
  /\ Fits(Layout) /\ HoldsBytes(Layout, segmented)
  /\ Framed

\* A new builder holds nothing.
LEMMA NewHoldsBytes ==
  ASSUME NEW layout, Fits(layout)
  PROVE  HoldsBytes(layout, NewSegmented(layout))
<1>. DEFINE b == NewSegmented(layout)
<1>1. DOMAIN b = SegmentedParts /\ b.segments = <<>> /\ b.next = 1
  BY DEF NewSegmented, SegmentedParts
<1>2. <<>> \in Seq(Seq(Bytes))
  BY EmptySeq
<1>3. /\ b.starts = [i \in DOMAIN layout.fields |-> 0] /\ b.ends = [i \in DOMAIN layout.fields |-> 0]
  BY DEF NewSegmented
<1>4. 1 \in 1..(Len(layout.fields) + 1)
  BY DEF Fits
<1>. HIDE DEF b
<1>5. HoldsBytes(layout, b)
  BY <1>1, <1>2, <1>3, <1>4 DEF HoldsBytes
<1>. QED
  BY <1>5 DEF b

\* Before the first call there is a new builder and no frame.
LEMMA InitHoldsBytes == Init => BInv
<1>. SUFFICES ASSUME Init PROVE BInv
  OBVIOUS
<1>1. PICK d \in Definitions : protocol = Compile(d) /\ Compile(d).ok
  BY DEF Init
<1>2. message \in DOMAIN Compile(d).messages
  BY <1>1 DEF Init
<1>3. Fits(Layout)
  <2>1. Fits(Compile(d).messages[message])
    BY <1>1, <1>2, ProtocolsFit
  <2>. QED
    BY <1>1, <2>1 DEF Layout
<1>. DEFINE messages == Compile(d).messages
<1>4. /\ Len(messages) \in Nat /\ DOMAIN messages = 1..Len(messages)
      /\ \A i \in DOMAIN messages : Typed(messages[i])
  BY <1>1, ProtocolsTyped
<1>5. messages = protocol.messages
  BY <1>1
<1>6. HoldsBytes(Layout, segmented) /\ Framed
  BY <1>3, NewHoldsBytes DEF Init, Framed
<1>. HIDE DEF messages
<1>7. message \in DOMAIN messages
  BY <1>2 DEF messages
<1>. QED
  BY <1>3, <1>4, <1>5, <1>6, <1>7 DEF BInv

\* The number of values of a uint64_t is a number.
LEMMA WordBaseType == WordBase \in Nat \ {0}
<1>1. ScalarWidths \in SUBSET (0..8) /\ ScalarWidths # {}
  BY WireAssumption DEF WireAssumption
<1>2. Max(ScalarWidths) \in ScalarWidths
  BY <1>1, MaxOfNumbers
<1>3. Max(ScalarWidths) \in Nat
  <2>1. \A width \in ScalarWidths : width \in Nat
    BY <1>1
  <2>. QED
    BY <1>2, <2>1
<1>. QED
  BY <1>3, ValuesType DEF WordBase

\* A number cut to a width, as a cast does.
LEMMA RemainderType ==
  ASSUME NEW x \in Int, NEW m \in Nat \ {0}
  PROVE  x % m \in Int
OBVIOUS

\* Every call of the process keeps it: what the builders hold and what the process
\* takes as a frame are bytes, whatever is built, sent or received.
LEMMA StepHoldsBytes == BInv /\ [Next]_vars => BInv'
<1>. SUFFICES ASSUME BInv, [Next]_vars PROVE BInv'
  OBVIOUS
<1>1. /\ Fits(Layout) /\ Typed(Layout) /\ HoldsBytes(Layout, segmented) /\ Framed
  BY DEF BInv, Layout
<1>2. UNCHANGED <<protocol, message>>
  BY DEF Next, vars, Building, SetUnsigned, SetSigned, SetFloat, SetBytes, SetString,
         AttachBytes, AttachString, Finalize, Send, Receive
<1>3. Layout' = Layout
  BY <1>2 DEF Layout
<1>4. HoldsBytes(Layout, segmented') /\ Framed' => BInv'
  <2>1. Fits(Layout)' /\ (HoldsBytes(Layout, segmented') => HoldsBytes(Layout, segmented)')
    BY <1>1, <1>3 DEF Fits, FieldFits, HoldsBytes
  <2>2. (\A i \in DOMAIN protocol.messages : Typed(protocol.messages[i]))'
    BY <1>2 DEF BInv
  <2>. QED
    BY <1>2, <2>1, <2>2 DEF BInv
<1>5. frame' = frame => Framed'
  BY <1>1 DEF Framed
<1>6. ASSUME NEW i \in DOMAIN Layout.fields, NEW number \in Numbers,
             SetUnsigned(i, number) \/ SetSigned(i, number) \/ SetFloat(i, number)
      PROVE  BInv'
  <2>1. ASSUME NEW accepted, NEW value \in Int,
               segmented' = SetScalar(Layout, segmented, i, accepted, value), frame' = frame
        PROVE  BInv'
    BY <1>1, <1>4, <1>5, <2>1, SetScalarKept
  <2>2. number \in Int
    BY CodecAssumption DEF CodecAssumption
  <2>3. number % WordBase \in Int
    BY <2>2, WordBaseType, RemainderType
  <2>4. number % Values(Layout.fields[i].width) \in Int
    <3>1. Layout.fields[i].width \in Nat
      BY <1>1 DEF Fits, FieldFits
    <3>. QED
      BY <2>2, <3>1, ValuesType, RemainderType
  <2>5. CASE SetUnsigned(i, number)
    BY <2>1, <2>2, <2>5 DEF SetUnsigned, BuilderSetUnsigned, Building
  <2>6. CASE SetSigned(i, number)
    BY <2>1, <2>3, <2>6 DEF SetSigned, BuilderSetSigned, Building
  <2>7. CASE SetFloat(i, number)
    BY <2>1, <2>4, <2>7 DEF SetFloat, BuilderSetFloat, Building
  <2>. QED
    BY <1>6, <2>5, <2>6, <2>7
<1>7. ASSUME NEW i \in DOMAIN Layout.fields, NEW payload \in Payloads,
             \/ SetBytes(i, payload) \/ SetString(i, payload)
             \/ AttachBytes(i, payload) \/ AttachString(i, payload)
      PROVE  BInv'
  <2>1. payload \in Seq(Bytes)
    BY CodecAssumption DEF CodecAssumption
  <2>2. ASSUME NEW accepted, NEW bytes \in Seq(Bytes), NEW storage \in Storages,
               segmented' = SetPayload(Layout, segmented, i, accepted, bytes, storage),
               frame' = frame
        PROVE  BInv'
    BY <1>1, <1>4, <1>5, <2>2, SetPayloadKept
  <2>3. LongEnough(i, payload) => CopiedBytes(Layout.fields[i], payload) \in Seq(Bytes)
    <3>1. FieldFits(Layout.fields[i])
      BY <1>1 DEF Fits
    <3>. QED
      BY <2>1, <3>1, CopiedBytesType DEF LongEnough
  <2>4. CASE SetBytes(i, payload)
    BY <2>2, <2>3, <2>4 DEF SetBytes, BuilderSetBytes, Building, Storages
  <2>5. CASE SetString(i, payload)
    BY <2>2, <2>3, <2>5 DEF SetString, BuilderSetString, Building, Storages
  <2>6. CASE AttachBytes(i, payload)
    BY <2>1, <2>2, <2>6 DEF AttachBytes, BuilderAttachBytes, Building, Storages
  <2>7. CASE AttachString(i, payload)
    BY <2>1, <2>2, <2>7 DEF AttachString, BuilderAttachString, Building, Storages
  <2>. QED
    BY <1>7, <2>4, <2>5, <2>6, <2>7
<1>8. CASE Finalize
  BY <1>1, <1>4, <1>5, <1>8, FinalizeKept DEF Finalize, Building
<1>9. CASE Send
  <2>1. CopyTo(segmented, MaxFrame).bytes = Joined(segmented)
    BY <1>9 DEF Send, CopyTo
  <2>2. Joined(segmented) \in Seq(Bytes)
    BY <1>1, JoinedType
  <2>3. Framed'
    BY <1>9, <2>1, <2>2 DEF Send, Framed
  <2>. QED
    BY <1>1, <1>4, <1>9, <2>3 DEF Send
<1>10. CASE Receive
  <2>1. PICK bytes \in BoundedSeq(Bytes, MaxFrame) : frame' = <<bytes>>
    BY <1>10 DEF Receive
  <2>2. bytes \in Seq(Bytes)
    <3>1. PICK n \in 0..MaxFrame : bytes \in [1..n -> Bytes]
      BY <2>1 DEF BoundedSeq, SeqOf
    <3>2. n \in Nat
      BY CodecAssumption DEF CodecAssumption
    <3>. QED
      BY <3>1, <3>2
  <2>3. Framed'
    BY <2>1, <2>2 DEF Framed
  <2>. QED
    BY <1>1, <1>4, <1>10, <2>3 DEF Receive
<1>11. CASE UNCHANGED vars
  BY <1>1, <1>4, <1>5, <1>11 DEF vars
<1>. QED
  BY <1>6, <1>7, <1>8, <1>9, <1>10, <1>11 DEF Next

-----------------------------------------------------------------------------

\* What steps of a call leave of a builder that may append at most k segments: the
\* position stays, and a step that is refused fails the builder for good.
Appended(b2, b, k) ==
  /\ Len(b2.segments) <= Len(b.segments) + k /\ b2.next = b.next
  /\ b.failed => b2.failed
  /\ b2.status # "ok" => b2.failed

\* The segments can be counted.
LEMMA SegmentsNumber ==
  ASSUME NEW layout, NEW b, HoldsBytes(layout, b)
  PROVE  Len(b.segments) \in Nat
BY DEF HoldsBytes

\* A builder that fails appends nothing.
LEMMA FailsAppends ==
  ASSUME NEW layout, NEW b, HoldsBytes(layout, b), NEW status, NEW k \in Nat
  PROVE  Appended(Fails(b, status), b, k)
<1>1. DOMAIN b = SegmentedParts /\ Len(b.segments) \in Nat
  BY SegmentsNumber DEF HoldsBytes
<1>. DEFINE b2 == Fails(b, status)
<1>2. b2.segments = b.segments /\ b2.next = b.next /\ b2.failed
  BY <1>1 DEF SegmentedParts, Fails
<1>. HIDE DEF b2
<1>3. Appended(b2, b, k)
  BY <1>1, <1>2 DEF Appended
<1>. QED
  BY <1>3 DEF b2

\* The value noted for a field changes nothing else.
LEMMA NotedAppends ==
  ASSUME NEW b2, NEW b, NEW k, Appended(b2, b, k), NEW i, NEW value, DOMAIN b2 = SegmentedParts
  PROVE  Appended(Noted(b2, i, value), b, k)
<1>. DEFINE b3 == Noted(b2, i, value)
<1>1. /\ b3.segments = b2.segments /\ b3.next = b2.next /\ b3.failed = b2.failed
      /\ b3.status = b2.status
  BY DEF Noted, SegmentedParts
<1>. HIDE DEF b3
<1>2. Appended(b3, b, k)
  BY <1>1 DEF Appended
<1>. QED
  BY <1>2 DEF b3

\* append_*() appends one segment.
LEMMA AppendSegmentAppends ==
  ASSUME NEW layout, NEW b, HoldsBytes(layout, b), NEW bytes, NEW storage
  PROVE  Appended(AppendSegment(b, bytes, storage), b, 1)
<1>. DEFINE scratch == IF storage = "borrowed" THEN 0 ELSE Len(bytes)
            b2 == [b EXCEPT !.segments = Append(@, bytes), !.status = "ok", !.scratch = @ + scratch]
<1>1. DOMAIN b = SegmentedParts /\ b.segments \in Seq(Seq(Bytes)) /\ Len(b.segments) \in Nat
  BY SegmentsNumber DEF HoldsBytes
<1>2. /\ b2.segments = Append(b.segments, bytes) /\ b2.next = b.next /\ b2.failed = b.failed
      /\ b2.status = "ok"
  BY <1>1 DEF SegmentedParts
<1>3. Len(Append(b.segments, bytes)) = Len(b.segments) + 1
  BY <1>1
<1>4. AppendSegment(b, bytes, storage) \in {Fails(b, "buffer_too_small"), b2}
  BY DEF AppendSegment
<1>. HIDE DEF b2
<1>5. Appended(b2, b, 1)
  BY <1>1, <1>2, <1>3 DEF Appended
<1>6. Appended(Fails(b, "buffer_too_small"), b, 1)
  BY FailsAppends
<1>. QED
  BY <1>4, <1>5, <1>6

\* A field written takes one.
LEMMA PutAppends ==
  ASSUME NEW layout, NEW b, HoldsBytes(layout, b), NEW i, NEW bytes \in Seq(Bytes),
         NEW storage \in Storages
  PROVE  Appended(Put(b, i, bytes, storage), b, 1)
<1>. DEFINE start == Len(Joined(b))  b2 == AppendSegment(b, bytes, storage)
            b3 == [b2 EXCEPT !.starts[i] = start, !.ends[i] = start + Len(bytes),
                             !.segment[i] = Len(b2.segments)]
<1>1. HoldsBytes(layout, b2) /\ Appended(b2, b, 1)
  BY AppendSegmentKept, AppendSegmentAppends
<1>2. Put(b, i, bytes, storage) = IF b2.status # "ok" THEN b2 ELSE b3
  BY DEF HoldsBytes, Put, IsContiguous, SegmentedParts, SegmentedPut
<1>3. DOMAIN b2 = SegmentedParts
  BY <1>1 DEF HoldsBytes
<1>. HIDE DEF start, b2
<1>4. /\ b3.segments = b2.segments /\ b3.next = b2.next /\ b3.failed = b2.failed
      /\ b3.status = b2.status
  BY <1>3 DEF SegmentedParts
<1>. HIDE DEF b3
<1>5. Appended(b3, b, 1)
  BY <1>1, <1>4 DEF Appended
<1>. QED
  BY <1>1, <1>2, <1>5

\* So does the gap before an aligned one.
LEMMA PadAppends ==
  ASSUME NEW layout, NEW b, HoldsBytes(layout, b), b.status = "ok", NEW i
  PROVE  Appended(Pad(layout, b, i), b, 1)
<1>. DEFINE gap == AlignUp(Len(Joined(b)), layout.fields[i].alignment) - Len(Joined(b))
<1>1. Pad(layout, b, i) = IF gap = 0 THEN b ELSE AppendSegment(b, Zeros(gap), "owned")
  BY DEF HoldsBytes, Pad, IsContiguous, SegmentedParts, SegmentedPad
<1>. HIDE DEF gap
<1>2. Appended(b, b, 1)
  BY SegmentsNumber DEF Appended
<1>. QED
  BY <1>1, <1>2, AppendSegmentAppends

\* A number written takes one.
LEMMA PutScalarAppends ==
  ASSUME NEW layout, Fits(layout), NEW b, HoldsBytes(layout, b), NEW i \in DOMAIN layout.fields,
         NEW value \in Int
  PROVE  Appended(PutScalar(layout, b, i, value), b, 1)
<1>. DEFINE bytes == WriteUnsigned(value, layout.fields[i].width, layout.fields[i].order)
            b2 == Put(b, i, bytes, "scalar")
<1>1. bytes \in Seq(Bytes)
  <2>1. layout.fields[i].width \in Nat
    BY DEF Fits, FieldFits
  <2>. QED
    BY <2>1, WriteUnsignedType
<1>2. PutScalar(layout, b, i, value) = IF b2.status # "ok" THEN b2 ELSE Noted(b2, i, value)
  BY DEF PutScalar, Noted
<1>. HIDE DEF bytes
<1>3. HoldsBytes(layout, b2) /\ Appended(b2, b, 1)
  BY <1>1, PutKept, PutAppends DEF Storages
<1>. HIDE DEF b2
<1>4. Appended(Noted(b2, i, value), b, 1)
  BY <1>3, NotedAppends DEF HoldsBytes
<1>. QED
  BY <1>2, <1>3, <1>4

\* And a field the builder fills in by itself.
LEMMA FillInAppends ==
  ASSUME NEW layout, Fits(layout), Typed(layout), NEW b, HoldsBytes(layout, b),
         NEW i \in DOMAIN layout.fields
  PROVE  Appended(FillIn(layout, b, i), b, 1)
<1>. DEFINE field == layout.fields[i]
            Filled(n, byte) == [k \in 1..n |-> byte]
<1>1. field.width \in Nat /\ field.size \in Nat /\ field.fill \in Bytes /\ 0 \in Bytes
  BY BaseType DEF Fits, FieldFits, Typed, Bytes
<1>2. ASSUME NEW n \in Nat, NEW byte \in Bytes
      PROVE  /\ HoldsBytes(layout, Put(b, i, Filled(n, byte), "owned"))
             /\ Appended(Put(b, i, Filled(n, byte), "owned"), b, 1)
  <2>. DEFINE bytes == Filled(n, byte)
  <2>1. bytes \in Seq(Bytes)
    OBVIOUS
  <2>. HIDE DEF bytes
  <2>2. /\ HoldsBytes(layout, Put(b, i, bytes, "owned"))
        /\ Appended(Put(b, i, bytes, "owned"), b, 1)
    BY <2>1, PutKept, PutAppends DEF Storages
  <2>. QED
    BY <2>2 DEF bytes
<1>3. CASE Has(field.checksum)
  <2>. DEFINE b2 == Put(b, i, Filled(field.width, 0), "owned")
  <2>1. FillIn(layout, b, i) = Noted(b2, i, 0)
    BY <1>3 DEF FillIn, Noted
  <2>2. HoldsBytes(layout, b2) /\ Appended(b2, b, 1)
    BY <1>1, <1>2
  <2>. HIDE DEF b2
  <2>3. Appended(Noted(b2, i, 0), b, 1)
    BY <2>2, NotedAppends DEF HoldsBytes
  <2>. QED
    BY <2>1, <2>3
<1>4. CASE ~Has(field.checksum) /\ Has(field.expect)
  <2>1. FillIn(layout, b, i) = PutScalar(layout, b, i, field.expect[1])
    BY <1>4 DEF FillIn
  <2>2. field.expect[1] \in Int
    BY <1>4 DEF Typed
  <2>. QED
    BY <2>1, <2>2, PutScalarAppends
<1>5. CASE ~Has(field.checksum) /\ ~Has(field.expect) /\ field.reserved
  <2>1. FillIn(layout, b, i) = Put(b, i, Filled(field.size, field.fill), "owned")
    BY <1>5 DEF FillIn
  <2>. QED
    BY <1>1, <1>2, <2>1
<1>6. CASE ~Has(field.checksum) /\ ~Has(field.expect) /\ ~field.reserved
  <2>1. FillIn(layout, b, i) = Fails(b, "invalid_data")
    BY <1>6 DEF FillIn
  <2>. QED
    BY <2>1, FailsAppends
<1>. QED
  BY <1>3, <1>4, <1>5, <1>6

\* A field passed over takes two at most, its gap and itself.
LEMMA PassOverAppends ==
  ASSUME NEW layout, Fits(layout), Typed(layout), NEW b, HoldsBytes(layout, b),
         b.status # "ok" => b.failed, NEW i \in DOMAIN layout.fields
  PROVE  Appended(PassOver(layout, b, i), b, 2)
<1>. DEFINE b2 == Pad(layout, b, i)  b3 == FillIn(layout, b2, i)
<1>1. PassOver(layout, b, i) = IF b.status # "ok" THEN b
                               ELSE IF b2.status # "ok" THEN b2 ELSE b3
  BY DEF PassOver
<1>2. HoldsBytes(layout, b2) /\ (b.status = "ok" => Appended(b2, b, 1))
  BY PadKept, PadAppends
<1>. HIDE DEF b2
<1>3. HoldsBytes(layout, b3) /\ Appended(b3, b2, 1)
  BY <1>2, FillInKept, FillInAppends
<1>. HIDE DEF b3
<1>4. Len(b.segments) \in Nat /\ Len(b2.segments) \in Nat /\ Len(b3.segments) \in Nat
  BY <1>2, <1>3, SegmentsNumber
<1>5. Appended(b, b, 2)
  BY <1>4 DEF Appended
<1>6. b.status = "ok" => Appended(b2, b, 2) /\ Appended(b3, b, 2)
  BY <1>2, <1>3, <1>4 DEF Appended
<1>. QED
  BY <1>1, <1>5, <1>6

\* advance_to() takes two for each field on the way.
LEMMA AdvanceAppends ==
  ASSUME NEW layout, Fits(layout), Typed(layout), NEW b, HoldsBytes(layout, b), ~b.failed,
         NEW target \in b.next..(Len(layout.fields) + 1)
  PROVE  LET b2 == AdvanceTo(layout, b, target)
         IN  /\ Len(b2.segments) <= Len(b.segments) + 2 * (target - b.next)
             /\ b2.failed \/ b2.next = target
             /\ b2.status # "ok" => b2.failed
<1>. DEFINE first == b.next - 1  last == target - 1  n == Len(layout.fields)
            start == [b EXCEPT !.status = "ok"]
<1>1. n \in Nat /\ DOMAIN layout.fields = 1..n /\ b.next \in 1..(n + 1)
  BY DEF Fits, HoldsBytes
<1>2. /\ first \in Nat /\ last \in Nat /\ first <= last /\ last <= n /\ target \in Nat
      /\ b.next \in Nat \ {0} /\ target >= b.next /\ last - first = target - b.next
  BY <1>1
<1>3. PICK f : /\ Passed(layout, b, first, last, f)
               /\ AdvanceTo(layout, b, target) = Arrived(f[last], target)
  BY <1>2, AdvanceIsPassed
<1>4. HoldsBytes(layout, start) /\ Appended(start, b, 0)
  <2>1. HoldsBytes(layout, start)
    BY RefusedKept
  <2>2. DOMAIN b = SegmentedParts
    BY DEF HoldsBytes
  <2>3. /\ start.segments = b.segments /\ start.next = b.next /\ start.failed = b.failed
        /\ start.status = "ok"
    BY <2>2 DEF SegmentedParts
  <2>. HIDE DEF start
  <2>. QED
    BY <2>1, <2>3, SegmentsNumber DEF Appended
<1>. DEFINE S == {m \in Nat : first + m <= last =>
                    HoldsBytes(layout, f[first + m]) /\ Appended(f[first + m], b, 2 * m)}
<1>. HIDE DEF first, last, n, start
<1>5. 0 \in S
  <2>1. first \in first..last /\ first + 0 = first /\ 2 * 0 = 0
    BY <1>2
  <2>2. f[first] = start
    BY <1>3, <2>1 DEF Passed, start
  <2>. QED
    BY <1>4, <2>1, <2>2
<1>6. ASSUME NEW m \in Nat, m \in S PROVE m + 1 \in S
  <2>. DEFINE i == first + (m + 1)  k == first + m
  <2>. SUFFICES ASSUME i <= last
                PROVE  HoldsBytes(layout, f[i]) /\ Appended(f[i], b, 2 * (m + 1))
    OBVIOUS
  <2>1. i \in first..last /\ i # first /\ i - 1 = k /\ k <= last /\ i \in 1..n
    BY <1>1, <1>2
  <2>2. HoldsBytes(layout, f[k]) /\ Appended(f[k], b, 2 * m)
    BY <1>6, <2>1
  <2>. HIDE DEF i, k
  <2>3. f[i] = PassOver(layout, f[k], i)
    BY <1>3, <2>1 DEF Passed
  <2>4. HoldsBytes(layout, f[i]) /\ Appended(f[i], f[k], 2)
    <3>1. f[k].status # "ok" => f[k].failed
      BY <2>2 DEF Appended
    <3>2. i \in DOMAIN layout.fields
      BY <1>1, <2>1
    <3>3. HoldsBytes(layout, PassOver(layout, f[k], i))
      BY <2>2, <3>2, PassOverKept
    <3>4. Appended(PassOver(layout, f[k], i), f[k], 2)
      BY <2>2, <3>1, <3>2, PassOverAppends
    <3>. QED
      BY <2>3, <3>3, <3>4
  <2>5. /\ Len(b.segments) \in Nat /\ Len(f[k].segments) \in Nat /\ Len(f[i].segments) \in Nat
    BY <2>2, <2>4, SegmentsNumber
  <2>6. Len(f[i].segments) <= Len(b.segments) + 2 * (m + 1)
    <3>. DEFINE x == Len(b.segments)  y == Len(f[k].segments)  z == Len(f[i].segments)
    <3>1. y <= x + 2 * m /\ z <= y + 2 /\ x \in Nat /\ y \in Nat /\ z \in Nat
      BY <2>2, <2>4, <2>5 DEF Appended
    <3>. HIDE DEF x, y, z
    <3>2. z <= x + 2 * (m + 1)
      BY <3>1
    <3>. QED
      BY <3>2 DEF x, z
  <2>7. Appended(f[i], b, 2 * (m + 1))
    BY <2>2, <2>4, <2>6 DEF Appended
  <2>. QED
    BY <2>4, <2>7
<1>. HIDE DEF S
<1>7. \A m \in Nat : m \in S
  BY <1>5, <1>6, Induction
<1>. DEFINE b2 == f[last]  b3 == [b2 EXCEPT !.next = target]
<1>8. HoldsBytes(layout, b2) /\ Appended(b2, b, 2 * (target - b.next))
  <2>1. last - first \in Nat /\ first + (last - first) = last
    BY <1>2
  <2>2. last - first \in S
    BY <1>7, <2>1
  <2>3. HoldsBytes(layout, b2) /\ Appended(b2, b, 2 * (last - first))
    BY <1>2, <2>1, <2>2 DEF S
  <2>. QED
    BY <1>2, <2>3
<1>9. AdvanceTo(layout, b, target) = IF b2.status # "ok" THEN b2 ELSE b3
  BY <1>3 DEF Arrived
<1>. HIDE DEF b2
<1>10. /\ b3.segments = b2.segments /\ b3.next = target /\ b3.failed = b2.failed
       /\ b3.status = b2.status
  BY <1>8 DEF HoldsBytes, SegmentedParts
<1>. HIDE DEF b3
<1>. QED
  BY <1>8, <1>9, <1>10 DEF Appended

\* Between two calls: no more segments than two for each field, and unless the builder
\* has failed, for each field it is past.
Counted(b) ==
  /\ Len(b.segments) <= 2 * MaxFields
  /\ b.failed \/ Len(b.segments) <= 2 * (b.next - 1)

\* A call that is refused, or that changes another part of the builder.
LEMMA RefusedCounted ==
  ASSUME NEW layout, NEW b, HoldsBytes(layout, b), Counted(b), NEW status
  PROVE  /\ Counted(Refused(b)) /\ Counted(Fails(b, status)) /\ Counted([b EXCEPT !.status = status])
         /\ Counted([b EXCEPT !.finalized = TRUE])
<1>1. ASSUME NEW b2, b2.segments = b.segments, b2.next = b.next, b.failed => b2.failed
      PROVE  Counted(b2)
  BY <1>1 DEF Counted
<1>2. DOMAIN b = SegmentedParts
  BY DEF HoldsBytes
<1>. QED
  BY <1>1, <1>2 DEF SegmentedParts, Refused, Fails

\* A field set: the ones before it passed over, and one segment for itself.
LEMMA FieldCounted ==
  ASSUME NEW layout, Fits(layout), Typed(layout), NEW b, HoldsBytes(layout, b), Counted(b),
         ~b.failed, NEW i \in DOMAIN layout.fields, i >= b.next, NEW put,
         LET b2 == AdvanceTo(layout, b, i)
         IN  b2.status = "ok" => HoldsBytes(layout, put) /\ Appended(put, b2, 1)
  PROVE  LET b2 == AdvanceTo(layout, b, i)
         IN  Counted(IF b2.status # "ok" THEN b2 ELSE Written(put, i))
<1>. DEFINE b2 == AdvanceTo(layout, b, i)  n == Len(layout.fields)  b4 == [put EXCEPT !.next = i + 1]
<1>1. /\ DOMAIN layout.fields = 1..n /\ n \in Nat /\ n <= MaxFields /\ i \in 1..n
      /\ b.next \in 1..(n + 1) /\ i \in b.next..(n + 1) /\ MaxFields \in Nat
  BY CompilerAssumption DEF CompilerAssumption, Fits, HoldsBytes
<1>2. /\ Len(b2.segments) <= Len(b.segments) + 2 * (i - b.next)
      /\ b2.failed \/ b2.next = i
      /\ b2.status # "ok" => b2.failed
      /\ HoldsBytes(layout, b2)
  BY <1>1, AdvanceAppends, AdvanceKept
<1>3. b2.status = "ok" => HoldsBytes(layout, put) /\ Appended(put, b2, 1)
  OBVIOUS
<1>. HIDE DEF b2
<1>4. Len(b.segments) \in Nat /\ Len(b2.segments) \in Nat
  BY <1>2, SegmentsNumber
<1>5. Len(b.segments) <= 2 * (b.next - 1)
  BY DEF Counted
<1>6. Len(b2.segments) <= 2 * (i - 1)
  <2>. DEFINE x == Len(b.segments)  y == Len(b2.segments)  p == b.next
  <2>1. /\ x \in Nat /\ y \in Nat /\ p \in Nat /\ i \in Nat
        /\ y <= x + 2 * (i - p) /\ x <= 2 * (p - 1)
    BY <1>1, <1>2, <1>4, <1>5
  <2>. HIDE DEF x, y, p
  <2>2. y <= 2 * (i - 1)
    BY <2>1
  <2>. QED
    BY <2>2 DEF y
<1>7. CASE b2.status # "ok"
  <2>1. Counted(b2)
    BY <1>1, <1>2, <1>4, <1>6, <1>7 DEF Counted
  <2>. QED
    BY <1>7, <2>1 DEF b2
<1>8. CASE b2.status = "ok"
  <2>1. Len(put.segments) \in Nat /\ DOMAIN put = SegmentedParts /\ Appended(put, b2, 1)
    BY <1>3, <1>8, SegmentsNumber DEF HoldsBytes
  <2>2. Len(put.segments) <= 2 * (i - 1) + 1
    BY <1>1, <1>4, <1>6, <2>1 DEF Appended
  <2>3. Written(put, i) = IF put.status # "ok" THEN put ELSE b4
    BY DEF Written
  <2>4. b4.segments = put.segments /\ b4.next = i + 1
    BY <2>1 DEF SegmentedParts
  <2>. HIDE DEF b4
  <2>5. Counted(b4)
    <3>. DEFINE x == Len(put.segments)
    <3>1. x \in Nat /\ x <= 2 * (i - 1) + 1 /\ i \in Nat /\ i <= MaxFields /\ MaxFields \in Nat
      BY <1>1, <2>1, <2>2
    <3>. HIDE DEF x
    <3>2. x <= 2 * MaxFields /\ x <= 2 * ((i + 1) - 1)
      BY <3>1
    <3>. QED
      BY <2>4, <3>2 DEF Counted, x
  <2>6. put.status # "ok" => Counted(put)
    BY <1>1, <2>1, <2>2 DEF Counted, Appended
  <2>7. Counted(Written(put, i))
    BY <2>3, <2>5, <2>6
  <2>. QED
    BY <1>8, <2>7 DEF b2
<1>. QED
  BY <1>7, <1>8

\* The calls that set a number.
LEMMA SetScalarCounted ==
  ASSUME NEW layout, Fits(layout), Typed(layout), NEW b, HoldsBytes(layout, b), Counted(b),
         NEW i, NEW accepted, NEW value \in Int
  PROVE  Counted(SetScalar(layout, b, i, accepted, value))
<1>1. CASE ~MaySet(layout, b, i, accepted)
  BY <1>1, RefusedCounted DEF SetScalar
<1>2. CASE MaySet(layout, b, i, accepted)
  <2>. DEFINE b2 == AdvanceTo(layout, b, i)  put == PutScalar(layout, b2, i, value)
  <2>1. SetScalar(layout, b, i, accepted, value) = IF b2.status # "ok" THEN b2 ELSE Written(put, i)
    BY <1>2 DEF SetScalar
  <2>2. ~b.failed /\ i \in DOMAIN layout.fields /\ i >= b.next
    BY <1>2 DEF MaySet
  <2>3. HoldsBytes(layout, b2)
    BY <1>2, MaySetTarget, AdvanceKept
  <2>. HIDE DEF b2
  <2>4. HoldsBytes(layout, put) /\ Appended(put, b2, 1)
    BY <2>2, <2>3, PutScalarKept, PutScalarAppends
  <2>. HIDE DEF put
  <2>5. Counted(IF b2.status # "ok" THEN b2 ELSE Written(put, i))
    BY <2>2, <2>4, FieldCounted DEF b2
  <2>. QED
    BY <2>1, <2>5
<1>. QED
  BY <1>1, <1>2

\* The calls that set a payload.
LEMMA SetPayloadCounted ==
  ASSUME NEW layout, Fits(layout), Typed(layout), NEW b, HoldsBytes(layout, b), Counted(b),
         NEW i, NEW accepted, NEW payload \in Seq(Bytes), NEW storage \in Storages
  PROVE  Counted(SetPayload(layout, b, i, accepted, payload, storage))
<1>1. CASE ~MaySet(layout, b, i, accepted)
  BY <1>1, RefusedCounted DEF SetPayload
<1>2. CASE MaySet(layout, b, i, accepted)
  <2>. DEFINE b2 == AdvanceTo(layout, b, i)  put == Put(b2, i, payload, storage)
  <2>1. SetPayload(layout, b, i, accepted, payload, storage) =
          IF b2.status # "ok" THEN b2 ELSE Written(put, i)
    BY <1>2 DEF SetPayload
  <2>2. ~b.failed /\ i \in DOMAIN layout.fields /\ i >= b.next
    BY <1>2 DEF MaySet
  <2>3. HoldsBytes(layout, b2)
    BY <1>2, MaySetTarget, AdvanceKept
  <2>. HIDE DEF b2
  <2>4. HoldsBytes(layout, put) /\ Appended(put, b2, 1)
    BY <2>2, <2>3, PutKept, PutAppends
  <2>. HIDE DEF put
  <2>5. Counted(IF b2.status # "ok" THEN b2 ELSE Written(put, i))
    BY <2>2, <2>4, FieldCounted DEF b2
  <2>. QED
    BY <2>1, <2>5
<1>. QED
  BY <1>1, <1>2

\* A checksum written over its placeholder, or refused, appends nothing.
LEMMA WriteChecksumAppends ==
  ASSUME NEW layout, NEW b, HoldsBytes(layout, b), b.status # "ok" => b.failed, NEW sum
  PROVE  Appended(WriteChecksum(layout, b, sum), b, 0)
<1>. DEFINE b2 == WriteChecksum(layout, b, sum)  segs == b.segments
<1>1. DOMAIN b = SegmentedParts /\ segs \in Seq(Seq(Bytes)) /\ Len(segs) \in Nat
  BY SegmentsNumber DEF HoldsBytes
<1>2. PICK digest : b2 \in {b, Fails(b, "invalid_data"),
                            Noted(Patch(layout, b, sum.field, digest), sum.field, digest)}
                    /\ (b.status # "ok" => b2 \in {b, Fails(b, "invalid_data")})
  BY DEF WriteChecksum, Noted
<1>. DEFINE i == sum.field
            patch == WriteUnsigned(digest, layout.fields[i].width, layout.fields[i].order)
            b3 == Patch(layout, b, i, digest)  k == b.segment[i]  patched == Replaced(segs, k, patch)
<1>. HIDE DEF b2
<1>3. /\ DOMAIN b3 = SegmentedParts /\ b3.segments = patched /\ b3.next = b.next
      /\ b3.failed = b.failed /\ b3.status = b.status
  BY <1>1 DEF Patch, IsContiguous, SegmentedPatch, SegmentedParts, Replaced
<1>. HIDE DEF b3, k, patch
<1>4. Len(patched) = Len(segs)
  BY <1>1 DEF Replaced
<1>. HIDE DEF patched
<1>5. Appended(b, b, 0) /\ Appended(Fails(b, "invalid_data"), b, 0)
  <2>1. Appended(Fails(b, "invalid_data"), b, 0)
    BY FailsAppends
  <2>2. Appended(b, b, 0)
    BY SegmentsNumber DEF Appended
  <2>. QED
    BY <2>1, <2>2
<1>6. Appended(b3, b, 0)
  BY <1>1, <1>3, <1>4 DEF Appended
<1>7. Appended(Noted(b3, i, digest), b, 0)
  BY <1>3, <1>6, NotedAppends
<1>8. b2 \in {b, Fails(b, "invalid_data"), Noted(b3, i, digest)}
  BY <1>2 DEF b3
<1>. QED
  BY <1>5, <1>7, <1>8 DEF b2

\* Nor do all of them.
LEMMA WriteChecksumsAppends ==
  ASSUME NEW layout, Fits(layout), Typed(layout), NEW b, HoldsBytes(layout, b),
         b.status # "ok" => b.failed
  PROVE  Appended(WriteChecksums(layout, b), b, 0)
<1>. DEFINE n == Len(layout.checksums)
<1>1. PICK f : Summed(layout, b, n, f) /\ WriteChecksums(layout, b) = f[n]
  BY WriteChecksumsIsSummed
<1>2. n \in Nat
  BY DEF Fits
<1>. DEFINE S == {m \in Nat : m <= n => HoldsBytes(layout, f[m]) /\ Appended(f[m], b, 0)}
<1>3. \A k \in 1..n : LET sum == layout.checksums[k]
                      IN  /\ sum.field \in DOMAIN layout.fields /\ sum.width \in Nat
                          /\ AnchorFits(layout.fields, sum.from)
                          /\ AnchorFits(layout.fields, sum.to)
  BY DEF Fits, Typed
<1>. HIDE DEF n
<1>4. 0 \in S
  <2>1. f[0] = b
    BY <1>1, <1>2 DEF Summed
  <2>2. Appended(b, b, 0)
    BY SegmentsNumber DEF Appended
  <2>. QED
    BY <2>1, <2>2
<1>5. ASSUME NEW m \in Nat, m \in S PROVE m + 1 \in S
  <2>. DEFINE k == m + 1
  <2>. SUFFICES ASSUME k <= n PROVE HoldsBytes(layout, f[k]) /\ Appended(f[k], b, 0)
    OBVIOUS
  <2>1. k \in 0..n /\ k # 0 /\ k - 1 = m /\ k \in 1..n /\ m <= n
    BY <1>2
  <2>2. HoldsBytes(layout, f[m]) /\ Appended(f[m], b, 0)
    BY <1>5, <2>1
  <2>. HIDE DEF k
  <2>3. f[k] = WriteChecksum(layout, f[m], layout.checksums[k])
    BY <1>1, <2>1 DEF Summed
  <2>. DEFINE sum == layout.checksums[k]
  <2>4. /\ sum.field \in DOMAIN layout.fields /\ sum.width \in Nat
        /\ AnchorFits(layout.fields, sum.from) /\ AnchorFits(layout.fields, sum.to)
    BY <1>3, <2>1
  <2>. HIDE DEF sum
  <2>5. HoldsBytes(layout, WriteChecksum(layout, f[m], sum))
    BY <2>2, <2>4, WriteChecksumKept
  <2>6. Appended(WriteChecksum(layout, f[m], sum), f[m], 0)
    BY <2>2, WriteChecksumAppends DEF Appended
  <2>7. HoldsBytes(layout, f[k]) /\ Appended(f[k], f[m], 0)
    BY <2>3, <2>5, <2>6 DEF sum
  <2>8. Len(b.segments) \in Nat /\ Len(f[m].segments) \in Nat /\ Len(f[k].segments) \in Nat
    BY <2>2, <2>7, SegmentsNumber
  <2>. QED
    BY <2>2, <2>7, <2>8 DEF Appended
<1>. HIDE DEF S
<1>6. \A m \in Nat : m \in S
  BY <1>4, <1>5, Induction
<1>. QED
  BY <1>1, <1>2, <1>6 DEF S

\* finalize() passes over the fields that are left.
LEMMA FinalizeCounted ==
  ASSUME NEW layout, Fits(layout), Typed(layout), NEW b, HoldsBytes(layout, b), Counted(b)
  PROVE  Counted(BuilderFinalize(layout, b))
<1>1. CASE b.failed \/ b.finalized
  BY <1>1, RefusedCounted DEF BuilderFinalize
<1>2. CASE ~b.failed /\ ~b.finalized
  <2>. DEFINE n == Len(layout.fields)  end == n + 1
              b2 == AdvanceTo(layout, b, end)  b3 == WriteChecksums(layout, b2)
              b4 == [b3 EXCEPT !.finalized = TRUE]
  <2>1. BuilderFinalize(layout, b) \in {b3, Fails(b3, "invalid_data"), b4}
    BY <1>2 DEF BuilderFinalize, Complete
  <2>2. /\ n \in Nat /\ n <= MaxFields /\ MaxFields \in Nat /\ b.next \in 1..(n + 1)
        /\ end \in b.next..(n + 1)
    BY CompilerAssumption DEF CompilerAssumption, Fits, HoldsBytes
  <2>3. /\ Len(b2.segments) <= Len(b.segments) + 2 * (end - b.next)
        /\ b2.failed \/ b2.next = end
        /\ b2.status # "ok" => b2.failed
        /\ HoldsBytes(layout, b2)
    BY <1>2, <2>2, AdvanceAppends, AdvanceKept
  <2>. HIDE DEF b2
  <2>4. HoldsBytes(layout, b3) /\ Appended(b3, b2, 0)
    BY <2>3, WriteChecksumsKept, WriteChecksumsAppends
  <2>. HIDE DEF b3, n
  <2>5. Len(b.segments) \in Nat /\ Len(b2.segments) \in Nat /\ Len(b3.segments) \in Nat
    BY <2>3, <2>4, SegmentsNumber
  <2>6. Len(b.segments) <= 2 * (b.next - 1)
    BY <1>2 DEF Counted
  <2>7. Len(b3.segments) <= 2 * n /\ (b3.failed \/ b3.next = n + 1)
    <3>. DEFINE x == Len(b.segments)  y == Len(b2.segments)  z == Len(b3.segments)  p == b.next
    <3>1. /\ x \in Nat /\ y \in Nat /\ z \in Nat /\ p \in Nat /\ n \in Nat
          /\ y <= x + 2 * ((n + 1) - p) /\ x <= 2 * (p - 1) /\ z <= y + 0
      BY <2>2, <2>3, <2>4, <2>5, <2>6 DEF Appended
    <3>. HIDE DEF x, y, z, p
    <3>2. z <= 2 * n
      BY <3>1
    <3>3. b3.failed \/ b3.next = n + 1
      BY <2>3, <2>4 DEF Appended
    <3>. QED
      BY <3>2, <3>3 DEF z
  <2>8. Counted(b3)
    BY <2>2, <2>5, <2>7 DEF Counted
  <2>9. Counted(Fails(b3, "invalid_data")) /\ Counted(b4)
    BY <2>4, <2>8, RefusedCounted
  <2>. QED
    BY <2>1, <2>8, <2>9
<1>. QED
  BY <1>1, <1>2

\* The inductive invariant of the table of segments.
CInv == BInv /\ Counted(segmented)

\* A new builder has none.
LEMMA InitCounted == Init => CInv
<1>. SUFFICES ASSUME Init PROVE CInv
  OBVIOUS
<1>1. segmented.segments = <<>> /\ segmented.next = 1
  BY DEF Init, NewSegmented
<1>2. Len(segmented.segments) = 0
  BY <1>1
<1>. QED
  BY <1>1, <1>2, InitHoldsBytes, CompilerAssumption DEF CInv, Counted, CompilerAssumption

\* Every call keeps it, whether it is accepted or not.
LEMMA StepCounted == CInv /\ [Next]_vars => CInv'
<1>. SUFFICES ASSUME CInv, [Next]_vars PROVE Counted(segmented')
  BY StepHoldsBytes DEF CInv, Counted
<1>1. Fits(Layout) /\ Typed(Layout) /\ HoldsBytes(Layout, segmented) /\ Counted(segmented)
  BY DEF CInv, BInv, Layout
<1>2. ASSUME NEW i \in DOMAIN Layout.fields, NEW number \in Numbers,
             SetUnsigned(i, number) \/ SetSigned(i, number) \/ SetFloat(i, number)
      PROVE  Counted(segmented')
  <2>1. ASSUME NEW accepted, NEW value \in Int,
               segmented' = SetScalar(Layout, segmented, i, accepted, value)
        PROVE  Counted(segmented')
    BY <1>1, <2>1, SetScalarCounted
  <2>2. number \in Int
    BY CodecAssumption DEF CodecAssumption
  <2>3. number % WordBase \in Int
    BY <2>2, WordBaseType, RemainderType
  <2>4. number % Values(Layout.fields[i].width) \in Int
    <3>1. Layout.fields[i].width \in Nat
      BY <1>1 DEF Fits, FieldFits
    <3>. QED
      BY <2>2, <3>1, ValuesType, RemainderType
  <2>5. CASE SetUnsigned(i, number)
    BY <2>1, <2>2, <2>5 DEF SetUnsigned, BuilderSetUnsigned
  <2>6. CASE SetSigned(i, number)
    BY <2>1, <2>3, <2>6 DEF SetSigned, BuilderSetSigned
  <2>7. CASE SetFloat(i, number)
    BY <2>1, <2>4, <2>7 DEF SetFloat, BuilderSetFloat
  <2>. QED
    BY <1>2, <2>5, <2>6, <2>7
<1>3. ASSUME NEW i \in DOMAIN Layout.fields, NEW payload \in Payloads,
             \/ SetBytes(i, payload) \/ SetString(i, payload)
             \/ AttachBytes(i, payload) \/ AttachString(i, payload)
      PROVE  Counted(segmented')
  <2>1. payload \in Seq(Bytes)
    BY CodecAssumption DEF CodecAssumption
  <2>2. ASSUME NEW accepted, NEW bytes \in Seq(Bytes), NEW storage \in Storages,
               segmented' = SetPayload(Layout, segmented, i, accepted, bytes, storage)
        PROVE  Counted(segmented')
    BY <1>1, <2>2, SetPayloadCounted
  <2>3. LongEnough(i, payload) => CopiedBytes(Layout.fields[i], payload) \in Seq(Bytes)
    <3>1. FieldFits(Layout.fields[i])
      BY <1>1 DEF Fits
    <3>. QED
      BY <2>1, <3>1, CopiedBytesType DEF LongEnough
  <2>4. CASE SetBytes(i, payload)
    BY <2>2, <2>3, <2>4 DEF SetBytes, BuilderSetBytes, Storages
  <2>5. CASE SetString(i, payload)
    BY <2>2, <2>3, <2>5 DEF SetString, BuilderSetString, Storages
  <2>6. CASE AttachBytes(i, payload)
    BY <2>1, <2>2, <2>6 DEF AttachBytes, BuilderAttachBytes, Storages
  <2>7. CASE AttachString(i, payload)
    BY <2>1, <2>2, <2>7 DEF AttachString, BuilderAttachString, Storages
  <2>. QED
    BY <1>3, <2>4, <2>5, <2>6, <2>7
<1>4. CASE Finalize
  BY <1>1, <1>4, FinalizeCounted DEF Finalize
<1>5. CASE Send \/ Receive \/ UNCHANGED vars
  BY <1>1, <1>5 DEF Send, Receive, vars
<1>. QED
  BY <1>2, <1>3, <1>4, <1>5 DEF Next

\* The segmented builder never uses more than two segments for each field a message
\* may have, so the table of kMaxSegments is never full, not even where
\* append_scalar() does not ask; and, while the other has room, no more of its
\* scratch buffer than the other of its buffer.
SegmentsSuffice ==
  /\ Len(segmented.segments) <= 2 * MaxFields
  /\ ~contiguous.failed => segmented.scratch <= Len(contiguous.bytes)

\* kMaxSegments is enough, whatever is called and however calls fail: each field
\* takes two segments at most and is written once.  While the contiguous builder has
\* room, the segmented one needs no more of its scratch buffer.
THEOREM SegmentsSufficeAlways == Spec => []SegmentsSuffice
<1>1. IInv /\ CInv => SegmentsSuffice
  <2>. SUFFICES ASSUME IInv, CInv PROVE SegmentsSuffice
    OBVIOUS
  <2>1. ~contiguous.failed => segmented.scratch <= Len(contiguous.bytes)
    BY DEF IInv, Together, Broken, Steady, Alike
  <2>. QED
    BY <2>1 DEF CInv, Counted, SegmentsSuffice
<1>. QED
  BY InitTogether, StepTogether, InitCounted, StepCounted, <1>1, PTL DEF Spec

-----------------------------------------------------------------------------

\* The candidates tried up to a message, one after the other.
TriedUpto(prot, candidates, bytes, before, m, f) ==
  f = [i \in 0..m |-> IF i = 0 THEN before
                      ELSE TryCandidate(prot, candidates, f[i - 1], i, bytes)]

\* try_candidates() can be followed to any message.
LEMMA TriedUptoExists ==
  ASSUME NEW prot, NEW candidates, NEW bytes, NEW before, NEW n \in Nat
  PROVE  \E f : TriedUpto(prot, candidates, bytes, before, n, f)
<1>. DEFINE S == {m \in Nat : \E f : TriedUpto(prot, candidates, bytes, before, m, f)}
<1>1. 0 \in S
  <2>1. TriedUpto(prot, candidates, bytes, before, 0, [i \in 0..0 |-> before])
    BY DEF TriedUpto
  <2>. QED
    BY <2>1
<1>2. ASSUME NEW m \in Nat, m \in S PROVE m + 1 \in S
  <2>1. PICK f : TriedUpto(prot, candidates, bytes, before, m, f)
    BY <1>2
  <2>. DEFINE next == TryCandidate(prot, candidates, f[m], m + 1, bytes)
              g == [i \in 0..(m + 1) |-> IF i = m + 1 THEN next ELSE f[i]]
              h == [i \in 0..(m + 1) |-> IF i = 0 THEN before
                                         ELSE TryCandidate(prot, candidates, g[i - 1], i, bytes)]
  <2>2. ASSUME NEW i \in 0..(m + 1) PROVE g[i] = h[i]
    <3>1. CASE i = m + 1
      <4>1. g[m] = f[m] /\ i - 1 = m
        BY <3>1
      <4>. QED
        BY <3>1, <4>1
    <3>2. CASE i # m + 1
      <4>1. i \in 0..m /\ (i # 0 => i - 1 \in 0..m /\ g[i - 1] = f[i - 1])
        BY <3>2
      <4>2. f[i] = IF i = 0 THEN before ELSE TryCandidate(prot, candidates, f[i - 1], i, bytes)
        BY <2>1, <4>1 DEF TriedUpto
      <4>. QED
        BY <3>2, <4>1, <4>2
    <3>. QED
      BY <3>1, <3>2
  <2>3. g = h
    BY <2>2
  <2>4. TriedUpto(prot, candidates, bytes, before, m + 1, g)
    BY <2>3 DEF TriedUpto
  <2>. QED
    BY <2>4
<1>. HIDE DEF S
<1>3. \A m \in Nat : m \in S
  BY <1>1, <1>2, Induction
<1>. QED
  BY <1>3 DEF S

\* What is found is a message that is decoded.
Accepts(prot, i, bytes) == i \in DOMAIN prot.messages /\ DecodeAs(prot, i, bytes).status = "ok"
FindsRight(prot, best, bytes) == best.status = "ok" => Accepts(prot, best.message, bytes)
Tries(prot, candidates, i, bytes) ==
  i \in candidates /\ MatchesPrefix(prot.messages[i], bytes) /\ Accepts(prot, i, bytes)

\* One turn of try_candidates(): what was found stays, and a candidate that decodes is
\* found.
LEMMA TryOne ==
  ASSUME NEW prot, NEW candidates, NEW best, NEW i \in DOMAIN prot.messages, NEW bytes
  PROVE  LET next == TryCandidate(prot, candidates, best, i, bytes)
         IN  /\ FindsRight(prot, best, bytes) => FindsRight(prot, next, bytes)
             /\ best.status = "ok" => next.status = "ok"
             /\ Tries(prot, candidates, i, bytes) => next.status = "ok"
<1>. DEFINE next == TryCandidate(prot, candidates, best, i, bytes)
            decoded == DecodeAs(prot, i, bytes)
<1>1. next = IF i \notin candidates \/ best.status = "ok" \/ ~MatchesPrefix(prot.messages[i], bytes)
             THEN best ELSE BestOf(best, i, decoded)
  BY DEF TryCandidate
<1>2. /\ decoded.status = "ok" =>
           BestOf(best, i, decoded).status = "ok" /\ BestOf(best, i, decoded).message = i
      /\ decoded.status # "ok" /\ BestOf(best, i, decoded).status = "ok" => best.status = "ok"
  BY DEF BestOf
<1>3. decoded.status = "ok" <=> Accepts(prot, i, bytes)
  BY DEF Accepts
<1>. HIDE DEF next, decoded
<1>4. FindsRight(prot, best, bytes) => FindsRight(prot, next, bytes)
  BY <1>1, <1>2, <1>3 DEF FindsRight
<1>5. best.status = "ok" => next.status = "ok"
  BY <1>1
<1>6. Tries(prot, candidates, i, bytes) => next.status = "ok"
  BY <1>1, <1>2, <1>3 DEF Tries
<1>. QED
  BY <1>4, <1>5, <1>6 DEF next

\* try_candidates() finds a message that decodes whenever one of the candidates does,
\* and nothing else.
LEMMA TryAll ==
  ASSUME NEW prot, Len(prot.messages) \in Nat, DOMAIN prot.messages = 1..Len(prot.messages),
         NEW candidates, NEW bytes, NEW before
  PROVE  LET found == TryCandidates(prot, candidates, bytes, before)
         IN  /\ FindsRight(prot, before, bytes) => FindsRight(prot, found, bytes)
             /\ before.status = "ok" => found.status = "ok"
             /\ \A i \in DOMAIN prot.messages :
                  Tries(prot, candidates, i, bytes) => found.status = "ok"
<1>. DEFINE n == Len(prot.messages)
            f == CHOOSE u : TriedUpto(prot, candidates, bytes, before, n, u)
            found == TryCandidates(prot, candidates, bytes, before)
<1>1. n \in Nat /\ DOMAIN prot.messages = 1..n
  OBVIOUS
<1>2. TriedUpto(prot, candidates, bytes, before, n, f)
  <2>. HIDE DEF n
  <2>. QED
    BY <1>1, TriedUptoExists
<1>3. found = f[n]
  BY DEF TryCandidates, TriedUpto
<1>. HIDE DEF f, n
<1>4. f[0] = before /\ \A i \in 1..n : f[i] = TryCandidate(prot, candidates, f[i - 1], i, bytes)
  <2>1. \A i \in 0..n : f[i] = IF i = 0 THEN before
                               ELSE TryCandidate(prot, candidates, f[i - 1], i, bytes)
    BY <1>2, Zenon DEF TriedUpto
  <2>2. 0 \in 0..n /\ \A i \in 1..n : i \in 0..n /\ i # 0
    BY <1>1
  <2>. QED
    BY <2>1, <2>2
<1>. DEFINE Good(m) ==
              /\ FindsRight(prot, before, bytes) => FindsRight(prot, f[m], bytes)
              /\ before.status = "ok" => f[m].status = "ok"
              /\ \A i \in 1..m : Tries(prot, candidates, i, bytes) => f[m].status = "ok"
            S == {m \in Nat : m <= n => Good(m)}
<1>5. 0 \in S
  BY <1>4
<1>6. ASSUME NEW m \in Nat, m \in S PROVE m + 1 \in S
  <2>. SUFFICES ASSUME m + 1 <= n PROVE Good(m + 1)
    OBVIOUS
  <2>. DEFINE k == m + 1  next == f[k]
  <2>1. k \in 1..n /\ k - 1 = m /\ m <= n /\ \A i \in 1..k : i \in 1..m \/ i = k
    BY <1>1
  <2>2. Good(m)
    BY <1>6, <2>1
  <2>. HIDE DEF k
  <2>3. next = TryCandidate(prot, candidates, f[m], k, bytes)
    BY <1>4, <2>1
  <2>4. k \in DOMAIN prot.messages
    BY <1>1, <2>1
  <2>5. /\ FindsRight(prot, f[m], bytes) => FindsRight(prot, next, bytes)
        /\ f[m].status = "ok" => next.status = "ok"
        /\ Tries(prot, candidates, k, bytes) => next.status = "ok"
    BY <2>3, <2>4, TryOne
  <2>. HIDE DEF next
  <2>6. \A i \in 1..k : Tries(prot, candidates, i, bytes) => next.status = "ok"
    BY <2>1, <2>2, <2>5
  <2>. QED
    BY <2>2, <2>5, <2>6 DEF next, k
<1>. HIDE DEF S
<1>7. \A m \in Nat : m \in S
  BY <1>5, <1>6, Induction
<1>8. Good(n)
  BY <1>1, <1>7 DEF S
<1>. QED
  BY <1>1, <1>3, <1>8

\* A message whose prefix the frame starts with is filed under the frame's first byte.
LEMMA MatchIsCandidate ==
  ASSUME NEW prot, NEW i \in DOMAIN prot.messages, Typed(prot.messages[i]),
         NEW bytes \in Seq(Bytes), MatchesPrefix(prot.messages[i], bytes)
  PROVE  i \in DispatchCandidates(prot, bytes) \/ i \in FallbackCandidates(prot)
<1>. DEFINE prefix == prot.messages[i].prefix  fields == prot.messages[i].fields
<1>1. prefix = DispatchPrefix(fields) /\ FieldsFit(fields)
  BY DEF Typed
<1>2. PICK p : PrefixOf(fields, p)
  BY <1>1, PrefixExists DEF FieldsFit
<1>. HIDE DEF fields
<1>3. prefix \in Seq(Bytes)
  BY <1>1, <1>2, PrefixIsLong
<1>4. Len(prefix) <= Len(bytes) /\ SubSeq(prefix, 1, Len(prefix)) = SubSeq(bytes, 1, Len(prefix))
  BY DEF MatchesPrefix, IsPrefix
<1>. HIDE DEF prefix
<1>5. CASE prefix = <<>>
  BY <1>5 DEF FallbackCandidates, prefix
<1>6. CASE prefix # <<>>
  <2>. DEFINE n == Len(prefix)
  <2>1. n \in Nat /\ n >= 1 /\ n <= Len(bytes)
    BY <1>3, <1>4, <1>6
  <2>2. prefix = SubSeq(bytes, 1, n)
    BY <1>3, <1>4, SubSeqFull
  <2>. HIDE DEF n
  <2>3. SubSeq(bytes, 1, n)[1] = bytes[1]
    BY <2>1
  <2>4. bytes # <<>>
    BY <2>1
  <2>. QED
    BY <1>6, <2>2, <2>3, <2>4 DEF DispatchCandidates, prefix
<1>. QED
  BY <1>5, <1>6

\* decode_any() finds a message exactly when decode_as() accepts the frame as one,
\* and it finds such a one, for every protocol whose prefixes are plain and every
\* frame: trying by the first byte loses nothing.
THEOREM DispatchCompleteAlways == Spec => []DispatchComplete
<1>1. BInv => DispatchComplete
  <2>. SUFFICES ASSUME BInv, Has(frame),
                       \A i \in DOMAIN protocol.messages : PrefixIsPlain(protocol.messages[i])
                PROVE  LET found == DecodeAny(protocol, frame[1])
                       IN  /\ (found.status = "ok") <=> \E i \in DOMAIN protocol.messages : Decodes(i)
                           /\ found.status = "ok" => Decodes(found.message)
    BY DEF DispatchComplete
  <2>1. PICK bytes \in Seq(Bytes) : frame[1] = bytes
    BY DEF BInv, Framed, Has
  <2>. DEFINE none == [status |-> "message_not_found", message |-> 0]
              first == TryCandidates(protocol, DispatchCandidates(protocol, bytes), bytes, none)
              found == DecodeAny(protocol, bytes)
  <2>2. Len(protocol.messages) \in Nat /\ DOMAIN protocol.messages = 1..Len(protocol.messages)
    BY DEF BInv
  <2>3. FindsRight(protocol, none, bytes)
    BY DEF FindsRight
  <2>. HIDE DEF none
  <2>4. /\ FindsRight(protocol, first, bytes)
        /\ \A i \in DOMAIN protocol.messages :
             Tries(protocol, DispatchCandidates(protocol, bytes), i, bytes) => first.status = "ok"
    BY <2>2, <2>3, TryAll
  <2>5. found = TryCandidates(protocol, FallbackCandidates(protocol), bytes, first)
    BY DEF DecodeAny, none
  <2>. HIDE DEF first, found
  <2>6. /\ FindsRight(protocol, found, bytes)
        /\ first.status = "ok" => found.status = "ok"
        /\ \A i \in DOMAIN protocol.messages :
             Tries(protocol, FallbackCandidates(protocol), i, bytes) => found.status = "ok"
    BY <2>2, <2>4, <2>5, TryAll
  <2>7. \A i \in DOMAIN protocol.messages : Decodes(i) <=> Accepts(protocol, i, bytes)
    BY <2>1 DEF Decodes, Decoded, Accepts
  <2>8. ASSUME NEW i \in DOMAIN protocol.messages, Accepts(protocol, i, bytes)
        PROVE  found.status = "ok"
    <3>. DEFINE layout == protocol.messages[i]
    <3>1. Typed(layout) /\ PrefixIsPlain(layout)
      BY DEF BInv
    <3>2. AssignFromLayout(protocol, layout, bytes, FALSE).status = "ok"
      BY <2>8 DEF Accepts, DecodeAs
    <3>. HIDE DEF layout
    <3>3. MatchesPrefix(layout, bytes)
      BY <3>1, <3>2, DecodedHasPrefix DEF Typed
    <3>4. i \in DispatchCandidates(protocol, bytes) \/ i \in FallbackCandidates(protocol)
      BY <3>1, <3>3, MatchIsCandidate DEF layout
    <3>5. \/ Tries(protocol, DispatchCandidates(protocol, bytes), i, bytes)
          \/ Tries(protocol, FallbackCandidates(protocol), i, bytes)
      BY <2>8, <3>3, <3>4 DEF Tries, layout
    <3>. QED
      BY <2>4, <2>6, <3>5
  <2>9. found.status = "ok" =>
          found.message \in DOMAIN protocol.messages /\ Decodes(found.message)
    BY <2>6, <2>7 DEF FindsRight, Accepts
  <2>10. (found.status = "ok") <=> \E i \in DOMAIN protocol.messages : Decodes(i)
    BY <2>7, <2>8, <2>9
  <2>. QED
    BY <2>1, <2>9, <2>10 DEF found
<1>. QED
  BY InitHoldsBytes, StepHoldsBytes, <1>1, PTL DEF Spec

-----------------------------------------------------------------------------

\* Aligning keeps the order of offsets: a field that may begin later never ends up
\* before one that may begin earlier.
LEMMA AlignUpMonotone ==
  ASSUME NEW x \in Nat, NEW y \in Nat, x <= y, NEW a \in Nat
  PROVE  AlignUp(x, a) <= AlignUp(y, a)
<1>1. CASE a <= 1
  BY <1>1 DEF AlignUp
<1>2. CASE ~(a <= 1)
  <2>. DEFINE p == x \div a  r == x % a  q == y \div a  s == y % a
  <2>1. p \in Nat /\ r \in 0..(a - 1) /\ x = a * p + r
    BY <1>2
  <2>2. q \in Nat /\ s \in 0..(a - 1) /\ y = a * q + s
    BY <1>2
  <2>3. AlignUp(x, a) = IF r = 0 THEN x ELSE x + (a - r)
    BY <1>2 DEF AlignUp
  <2>4. AlignUp(y, a) = IF s = 0 THEN y ELSE y + (a - s)
    BY <1>2 DEF AlignUp
  <2>. HIDE DEF p, r, q, s
  <2>5. CASE p = q
    BY <2>1, <2>2, <2>3, <2>4, <2>5
  <2>6. CASE p < q
    <3>1. a * p + a <= a * q
      <4>1. a * q - (a * p + a) = a * (q - (p + 1)) /\ q - (p + 1) \in Nat
        BY <2>1, <2>2, <2>6
      <4>2. a * (q - (p + 1)) >= 0
        BY <4>1
      <4>3. a * p \in Nat /\ a * q \in Nat
        BY <2>1, <2>2
      <4>. QED
        BY <4>1, <4>2, <4>3
    <3>2. a * p \in Nat /\ a * q \in Nat
      BY <2>1, <2>2
    <3>. QED
      BY <2>1, <2>2, <2>3, <2>4, <3>1, <3>2
  <2>7. CASE q < p
    <3>1. a * q + a <= a * p
      <4>1. a * p - (a * q + a) = a * (p - (q + 1)) /\ p - (q + 1) \in Nat
        BY <2>1, <2>2, <2>7
      <4>2. a * (p - (q + 1)) >= 0
        BY <4>1
      <4>3. a * p \in Nat /\ a * q \in Nat
        BY <2>1, <2>2
      <4>. QED
        BY <4>1, <4>2, <4>3
    <3>2. a * p \in Nat /\ a * q \in Nat
      BY <2>1, <2>2
    <3>. QED
      BY <2>1, <2>2, <3>1, <3>2
  <2>. QED
    BY <2>1, <2>2, <2>5, <2>6, <2>7
<1>. QED
  BY <1>1, <1>2

\* The steps by which compile_layout() adds up the minimum size of a layout.
SizeStep(field, before) ==
  IF IsGated(field) THEN before
  ELSE AlignUp(before, field.alignment) + MinimumContribution(field)
SizeSteps(fields, f) ==
  f[0] = 0 /\ \A i \in 1..Len(fields) : f[i] = SizeStep(fields[i], f[i - 1])

\* The minimum size of a layout is what these steps lead to.
LEMMA MinimumBySteps ==
  ASSUME NEW fields, Len(fields) \in Nat, \A i \in 1..Len(fields) : FieldFits(fields[i])
  PROVE  \E f : /\ SizeSteps(fields, f) /\ MinimumSize(fields) = f[Len(fields)]
                /\ \A i \in 0..Len(fields) : f[i] \in Nat
<1>. DEFINE n == Len(fields)
            step == [i \in 1..n |-> [x \in Nat |-> SizeStep(fields[i], x)]]
            Steps(f) == f = [i \in 0..n |-> IF i = 0 THEN 0
                               ELSE IF IsGated(fields[i]) THEN f[i - 1]
                               ELSE AlignUp(f[i - 1], fields[i].alignment)
                                    + MinimumContribution(fields[i])]
            c == CHOOSE f : Steps(f)
<1>1. ASSUME NEW i \in 1..n, NEW x \in Nat PROVE SizeStep(fields[i], x) \in Nat
  <2>1. FieldFits(fields[i])
    OBVIOUS
  <2>2. fields[i].alignment \in Nat /\ MinimumContribution(fields[i]) \in Nat
    BY <2>1 DEF FieldFits, MinimumContribution
  <2>. DEFINE aligned == AlignUp(x, fields[i].alignment)  size == MinimumContribution(fields[i])
  <2>3. aligned \in Nat /\ size \in Nat
    BY <2>2, AlignUpGrows
  <2>4. SizeStep(fields[i], x) = IF IsGated(fields[i]) THEN x ELSE aligned + size
    BY DEF SizeStep
  <2>. HIDE DEF aligned, size
  <2>. QED
    BY <2>3, <2>4
<1>n. n \in Nat
  OBVIOUS
<1>2. MinimumSize(fields) = c[n]
  BY DEF MinimumSize
<1>. HIDE DEF n
<1>3. PICK f : StepsOf(n, Nat, 0, step, f)
  <2>1. \A i \in 1..n, x \in Nat : step[i][x] \in Nat
    BY <1>1
  <2>. HIDE DEF step
  <2>. QED
    BY <1>n, <2>1, StepsExist
<1>4. Steps(f)
  <2>1. ASSUME NEW i \in 0..n
        PROVE  f[i] = IF i = 0 THEN 0
                      ELSE IF IsGated(fields[i]) THEN f[i - 1]
                      ELSE AlignUp(f[i - 1], fields[i].alignment) + MinimumContribution(fields[i])
    <3>1. i # 0 => i \in 1..n /\ i - 1 \in 0..n
      BY <1>n
    <3>2. i # 0 => f[i - 1] \in Nat /\ f[i] = step[i][f[i - 1]]
      BY <1>3, <3>1 DEF StepsOf
    <3>. QED
      BY <1>3, <3>1, <3>2 DEF StepsOf, SizeStep
  <2>2. f = [i \in 0..n |-> f[i]]
    BY <1>3 DEF StepsOf
  <2>. QED
    BY <2>1, <2>2, Zenon
<1>5. Steps(c)
  BY <1>4
<1>6. c[0] = 0 /\ \A i \in 1..n : c[i] = SizeStep(fields[i], c[i - 1])
  <2>1. \A i \in 0..n : c[i] = IF i = 0 THEN 0
                               ELSE IF IsGated(fields[i]) THEN c[i - 1]
                               ELSE AlignUp(c[i - 1], fields[i].alignment)
                                    + MinimumContribution(fields[i])
    BY <1>5, Zenon
  <2>2. 0 \in 0..n /\ \A i \in 1..n : i \in 0..n /\ i # 0
    BY <1>n
  <2>. HIDE DEF c
  <2>. QED
    BY <2>1, <2>2 DEF SizeStep
<1>. HIDE DEF c
<1>7. \A i \in 0..n : c[i] \in Nat
  <2>1. \A i \in 1..n : c[i - 1] \in Nat => c[i] \in Nat
    BY <1>1, <1>6
  <2>. QED
    BY <1>n, <1>6, <2>1, StepsAreTyped
<1>. QED
  BY <1>2, <1>6, <1>7 DEF SizeSteps, n

\* Sorting the cases of a variant keeps them.
LEMMA SortedAreCases ==
  ASSUME NEW cases, Len(cases) \in Nat, DOMAIN cases = 1..Len(cases)
  PROVE  SortedCases(cases) \in Seq({cases[k] : k \in DOMAIN cases})
<1>. DEFINE R == {cases[k] : k \in DOMAIN cases}
            n == Len(cases)
            inserted(sorted, case) ==
              LET k == SelectInSeq(sorted, LAMBDA other : other.tag > case.tag)
              IN  IF k = 0 THEN Append(sorted, case) ELSE InsertAt(sorted, k, case)
            step == [i \in 1..n |-> [x \in Seq(R) |-> inserted(x, cases[i])]]
            Steps(f) == f = [i \in 0..n |-> IF i = 0 THEN <<>> ELSE inserted(f[i - 1], cases[i])]
            c == CHOOSE f : Steps(f)
<1>n. n \in Nat
  OBVIOUS
<1>1. ASSUME NEW i \in 1..n, NEW x \in Seq(R) PROVE inserted(x, cases[i]) \in Seq(R)
  <2>. DEFINE I == {k \in 1..Len(x) : x[k].tag > cases[i].tag}
              k == SelectInSeq(x, LAMBDA other : other.tag > cases[i].tag)
  <2>1. cases[i] \in R
    OBVIOUS
  <2>2. k = IF I # {} THEN Min(I) ELSE 0
    BY DEF SelectInSeq
  <2>3. inserted(x, cases[i]) = IF k = 0 THEN Append(x, cases[i]) ELSE InsertAt(x, k, cases[i])
    OBVIOUS
  <2>4. k = 0 \/ k \in 1..Len(x)
    <3>1. CASE I # {}
      <4>1. I \in SUBSET Nat /\ I \subseteq 1..Len(x)
        OBVIOUS
      <4>. HIDE DEF I
      <4>2. Min(I) \in I
        BY <3>1, <4>1, LeastNumber DEF Min
      <4>. HIDE DEF k
      <4>. QED
        BY <2>2, <3>1, <4>1, <4>2
    <3>. HIDE DEF I, k
    <3>. QED
      BY <2>2, <3>1
  <2>. HIDE DEF k, I, R, inserted
  <2>5. ASSUME k \in 1..Len(x) PROVE InsertAt(x, k, cases[i]) \in Seq(R)
    <3>1. SubSeq(x, 1, k - 1) \in Seq(R) /\ SubSeq(x, k, Len(x)) \in Seq(R)
      BY <2>5
    <3>. QED
      BY <2>1, <3>1 DEF InsertAt
  <2>6. Append(x, cases[i]) \in Seq(R)
    BY <2>1
  <2>. QED
    BY <2>3, <2>4, <2>5, <2>6
<1>2. SortedCases(cases) = c[n]
  BY DEF SortedCases
<1>3. <<>> \in Seq(R)
  OBVIOUS
<1>. HIDE DEF n, inserted, R
<1>4. PICK f : StepsOf(n, Seq(R), <<>>, step, f)
  <2>1. \A i \in 1..n, x \in Seq(R) : step[i][x] \in Seq(R)
    BY <1>1
  <2>. HIDE DEF step
  <2>. QED
    BY <1>n, <1>3, <2>1, StepsExist
<1>5. Steps(f)
  <2>1. ASSUME NEW i \in 0..n PROVE f[i] = IF i = 0 THEN <<>> ELSE inserted(f[i - 1], cases[i])
    <3>1. i # 0 => i \in 1..n /\ i - 1 \in 0..n
      BY <1>n
    <3>2. i # 0 => f[i - 1] \in Seq(R) /\ f[i] = step[i][f[i - 1]]
      BY <1>4, <3>1 DEF StepsOf
    <3>. QED
      BY <1>4, <3>1, <3>2 DEF StepsOf
  <2>2. f = [i \in 0..n |-> f[i]]
    BY <1>4 DEF StepsOf
  <2>. QED
    BY <2>1, <2>2, Zenon
<1>6. Steps(c)
  BY <1>5
<1>7. c[0] = <<>> /\ \A i \in 1..n : c[i] = inserted(c[i - 1], cases[i])
  <2>1. \A i \in 0..n : c[i] = IF i = 0 THEN <<>> ELSE inserted(c[i - 1], cases[i])
    BY <1>6, Zenon
  <2>2. 0 \in 0..n /\ \A i \in 1..n : i \in 0..n /\ i # 0
    BY <1>n
  <2>. HIDE DEF c
  <2>. QED
    BY <2>1, <2>2
<1>. HIDE DEF c
<1>8. \A i \in 0..n : c[i] \in Seq(R)
  <2>1. \A i \in 1..n : c[i - 1] \in Seq(R) => c[i] \in Seq(R)
    BY <1>1, <1>7
  <2>. DEFINE T == Seq(R)
  <2>2. \A i \in 0..n : c[i] \in T
    <3>1. c[0] \in T /\ \A i \in 1..n : c[i - 1] \in T => c[i] \in T
      BY <1>3, <1>7, <2>1
    <3>. HIDE DEF T
    <3>. QED
      BY <1>n, <3>1, StepsAreTyped
  <2>. QED
    BY <2>2
<1>. QED
  BY <1>2, <1>8, <1>n DEF R

\* What a decoder may take for a layout, of so many bytes.
SizeTrue(layout, consumed, n) ==
  /\ consumed \in layout.minimum_size..n
  /\ layout.fixed => consumed = layout.minimum_size

\* A struct of which the decoder takes no less than its compiled size says.
Sound(prot, t) ==
  /\ prot.structs[t].minimum_size \in Nat
  /\ \A bytes \in Seq(Bytes) :
       LET decoded == DecodeNested(prot, t, bytes)
       IN  Len(bytes) <= MaxFrame /\ decoded.status = "ok" =>
             SizeTrue(prot.structs[t], decoded.consumed, Len(bytes))

\* A field as compile_layout() leaves it: what its size was computed from.
Resolved(field, types) ==
  /\ FieldFits(field) /\ field.kind \in FieldKinds
  /\ field.kind = "struct" => field.size = types[field.type].minimum_size
  /\ field.kind = "collection" =>
       /\ types[field.type].minimum_size \in Nat \ {0}
       /\ field.count \in Nat /\ field.size = field.count * types[field.type].minimum_size
       /\ Has(field.count_from) <=> field.count = 0
  /\ field.kind = "variant" =>
       /\ \A k \in DOMAIN field.cases : types[field.cases[k].type].minimum_size >= field.size
       /\ \A tag : FindVariantCase(field, tag) = 0 \/ FindVariantCase(field, tag) \in DOMAIN field.cases

\* What is left of a frame from an offset on.
LEMMA RestType ==
  ASSUME NEW bytes \in Seq(Bytes), NEW offset \in 0..Len(bytes)
  PROVE  Rest(bytes, offset) \in Seq(Bytes) /\ Len(Rest(bytes, offset)) = Len(bytes) - offset
<1>. DEFINE n == Len(bytes)
<1>1. n \in Nat /\ offset \in 0..n /\ \A k \in (offset + 1)..n : bytes[k] \in Bytes
  OBVIOUS
<1>2. Rest(bytes, offset) = SubSeq(bytes, offset + 1, n)
  BY DEF Rest
<1>. HIDE DEF n
<1>3. /\ SubSeq(bytes, offset + 1, n) \in Seq(Bytes)
      /\ Len(SubSeq(bytes, offset + 1, n)) = IF offset + 1 <= n THEN n - (offset + 1) + 1 ELSE 0
  BY <1>1, SubSeqProperties
<1>. QED
  BY <1>1, <1>2, <1>3 DEF n

\* The sizes of the first elements of a collection, decoded one after the other.
ElementsUpto(prot, type, bytes, n, f) ==
  f = [k \in 0..n |-> IF k = 0 THEN Sized(0) ELSE AddElement(prot, type, bytes, f[k - 1])]

\* The decoder's loop over the elements can be followed to any of them.
LEMMA ElementsUptoExist ==
  ASSUME NEW prot, NEW type, NEW bytes, NEW n \in Nat
  PROVE  \E f : ElementsUpto(prot, type, bytes, n, f)
<1>. DEFINE S == {m \in Nat : \E f : ElementsUpto(prot, type, bytes, m, f)}
<1>1. 0 \in S
  <2>1. ElementsUpto(prot, type, bytes, 0, [k \in 0..0 |-> Sized(0)])
    BY DEF ElementsUpto
  <2>. QED
    BY <2>1
<1>2. ASSUME NEW m \in Nat, m \in S PROVE m + 1 \in S
  <2>1. PICK f : ElementsUpto(prot, type, bytes, m, f)
    BY <1>2
  <2>. DEFINE next == AddElement(prot, type, bytes, f[m])
              g == [k \in 0..(m + 1) |-> IF k = m + 1 THEN next ELSE f[k]]
              h == [k \in 0..(m + 1) |-> IF k = 0 THEN Sized(0)
                                         ELSE AddElement(prot, type, bytes, g[k - 1])]
  <2>2. ASSUME NEW k \in 0..(m + 1) PROVE g[k] = h[k]
    <3>1. CASE k = m + 1
      <4>1. g[m] = f[m] /\ k - 1 = m
        BY <3>1
      <4>. QED
        BY <3>1, <4>1
    <3>2. CASE k # m + 1
      <4>1. k \in 0..m /\ (k # 0 => k - 1 \in 0..m /\ g[k - 1] = f[k - 1])
        BY <3>2
      <4>2. f[k] = IF k = 0 THEN Sized(0) ELSE AddElement(prot, type, bytes, f[k - 1])
        BY <2>1, <4>1 DEF ElementsUpto
      <4>. QED
        BY <3>2, <4>1, <4>2
    <3>. QED
      BY <3>1, <3>2
  <2>3. g = h
    BY <2>2
  <2>4. ElementsUpto(prot, type, bytes, m + 1, g)
    BY <2>3 DEF ElementsUpto
  <2>. QED
    BY <2>4
<1>. HIDE DEF S
<1>3. \A m \in Nat : m \in S
  BY <1>1, <1>2, Induction
<1>. QED
  BY <1>3 DEF S

\* So many elements that decode take what they are compiled to take at least, each:
\* the count of a collection never asks for more bytes than its elements have.
LEMMA ElementsAreSized ==
  ASSUME NEW prot, NEW type, Sound(prot, type), NEW bytes \in Seq(Bytes),
         Len(bytes) <= MaxFrame, NEW n \in Nat,
         ElementsSize(prot, type, bytes, n).status = "ok"
  PROVE  LET size == ElementsSize(prot, type, bytes, n).size
         IN  size \in Nat /\ size >= n * prot.structs[type].minimum_size
<1>. DEFINE c == CHOOSE f : ElementsUpto(prot, type, bytes, n, f)
            low == prot.structs[type].minimum_size
            Good(total, k) == total.status = "ok" =>
              total.size \in Nat /\ total.size <= Len(bytes) /\ total.size >= k * low
            S == {m \in Nat : m <= n => Good(c[m], m)}
<1>1. ElementsUpto(prot, type, bytes, n, c)
  BY ElementsUptoExist
<1>2. ElementsSize(prot, type, bytes, n) = c[n]
  BY DEF ElementsSize, ElementsUpto
<1>3. c[0] = Sized(0) /\ \A k \in 1..n : c[k] = AddElement(prot, type, bytes, c[k - 1])
  <2>1. \A k \in 0..n : c[k] = IF k = 0 THEN Sized(0) ELSE AddElement(prot, type, bytes, c[k - 1])
    BY <1>1, Zenon DEF ElementsUpto
  <2>2. 0 \in 0..n /\ \A k \in 1..n : k \in 0..n /\ k # 0
    OBVIOUS
  <2>. HIDE DEF c
  <2>. QED
    BY <2>1, <2>2
<1>4. low \in Nat /\ Len(bytes) \in Nat
  BY DEF Sound
<1>. HIDE DEF c, low
<1>5. 0 \in S
  <2>1. c[0].size = 0 /\ 0 * low = 0
    BY <1>3, <1>4 DEF Sized
  <2>. QED
    BY <1>4, <2>1
<1>6. ASSUME NEW m \in Nat, m \in S PROVE m + 1 \in S
  <2>. SUFFICES ASSUME m + 1 <= n, c[m + 1].status = "ok" PROVE Good(c[m + 1], m + 1)
    OBVIOUS
  <2>. DEFINE total == c[m]  next == c[m + 1]
              left == Rest(bytes, total.size)
              decoded == DecodeNested(prot, type, left)
  <2>1. next = AddElement(prot, type, bytes, total)
    <3>1. m + 1 \in 1..n /\ (m + 1) - 1 = m
      OBVIOUS
    <3>. QED
      BY <1>3, <3>1
  <2>2. Good(total, m)
    BY <1>6
  <2>3. next.status = "ok"
    OBVIOUS
  <2>4. next = IF total.status # "ok" THEN total
               ELSE IF decoded.status # "ok" THEN Unsized(decoded.status)
               ELSE IF decoded.consumed = 0 THEN Unsized("schema_mismatch")
               ELSE Sized(total.size + decoded.consumed)
    BY <2>1 DEF AddElement
  <2>. HIDE DEF total, next, decoded
  <2>5. /\ total.status = "ok" /\ decoded.status = "ok"
        /\ next.size = total.size + decoded.consumed
    BY <2>3, <2>4 DEF Sized, Unsized
  <2>6. total.size \in Nat /\ total.size <= Len(bytes) /\ total.size >= m * low
    BY <2>2, <2>5
  <2>. DEFINE at == total.size
  <2>7. left \in Seq(Bytes) /\ Len(left) = Len(bytes) - at
    <3>1. at \in 0..Len(bytes)
      BY <1>4, <2>6
    <3>. HIDE DEF at
    <3>. QED
      BY <3>1, RestType DEF at
  <2>. HIDE DEF left
  <2>8. decoded.consumed \in low..Len(left)
    <3>1. Len(left) <= MaxFrame
      BY <1>4, <2>6, <2>7, CodecAssumption DEF CodecAssumption
    <3>. QED
      BY <2>5, <2>7, <3>1 DEF Sound, SizeTrue, decoded, low
  <2>9. (m + 1) * low = m * low + low /\ m * low \in Nat
    BY <1>4
  <2>. DEFINE more == decoded.consumed
  <2>10. more \in Nat /\ more >= low /\ more <= Len(bytes) - at /\ next.size = at + more
    BY <1>4, <2>5, <2>6, <2>7, <2>8
  <2>. HIDE DEF at, more
  <2>11. next.size \in Nat /\ next.size <= Len(bytes) /\ next.size >= (m + 1) * low
    BY <1>4, <2>6, <2>9, <2>10 DEF at
  <2>. QED
    BY <2>11 DEF next
<1>. HIDE DEF S
<1>7. n \in S
  BY <1>5, <1>6, Induction
<1>8. Good(c[n], n)
  BY <1>7 DEF S
<1>. QED
  BY <1>2, <1>8 DEF low

\* A struct nested in a frame takes what it is compiled to take at least, and exactly
\* that when it is fixed, wherever in the frame it begins.
LEMMA NestedIsSized ==
  ASSUME NEW prot, NEW type, Sound(prot, type), NEW bytes \in Seq(Bytes),
         Len(bytes) <= MaxFrame, NEW offset \in 0..Len(bytes),
         DecodeNested(prot, type, Rest(bytes, offset)).status = "ok"
  PROVE  LET size == DecodeNested(prot, type, Rest(bytes, offset)).consumed
         IN  /\ size \in Nat /\ size >= prot.structs[type].minimum_size
             /\ prot.structs[type].fixed => size = prot.structs[type].minimum_size
<1>. DEFINE left == Rest(bytes, offset)
<1>1. left \in Seq(Bytes) /\ Len(left) = Len(bytes) - offset
  BY RestType
<1>. HIDE DEF left
<1>2. Len(left) \in Nat /\ Len(left) <= MaxFrame
  BY <1>1, CodecAssumption DEF CodecAssumption
<1>3. SizeTrue(prot.structs[type], DecodeNested(prot, type, left).consumed, Len(left))
  BY <1>1, <1>2 DEF Sound, left
<1>. QED
  BY <1>2, <1>3 DEF SizeTrue, Sound, left

\* The bytes the decoder gives a field are no fewer than compile_layout() counted
\* for it, and no more when it found the field of fixed size.
SizedAs(field, types, size) ==
  /\ size \in Nat /\ size >= MinimumContribution(field)
  /\ HasFixedSize(field, types) => size = MinimumContribution(field)

\* A collection the decoder accepts, its count checked against the bytes left when the
\* elements are fixed and each element decoded when not, has room for all of them.
LEMMA CollectionIsSized ==
  ASSUME NEW prot, NEW field, Resolved(field, prot.structs), field.kind = "collection",
         Sound(prot, field.type),
         NEW unsigned, \A k \in DOMAIN unsigned : unsigned[k] \in Nat,
         NEW bytes \in Seq(Bytes), Len(bytes) <= MaxFrame, NEW offset \in 0..Len(bytes),
         CollectionSize(prot, field, unsigned, bytes, offset).status = "ok"
  PROVE  SizedAs(field, prot.structs, CollectionSize(prot, field, unsigned, bytes, offset).size)
<1>. DEFINE element == prot.structs[field.type]  low == element.minimum_size
            count == IF Has(field.count_from) THEN unsigned[field.count_from[1]] ELSE field.count
            left == Rest(bytes, offset)
            sized == CollectionSize(prot, field, unsigned, bytes, offset)
<1>1. /\ low \in Nat \ {0} /\ field.count \in Nat /\ field.size = field.count * low
      /\ Has(field.count_from) <=> field.count = 0
  BY DEF Resolved
<1>2. sized = IF Has(field.count_from) /\ field.count_from[1] \notin DOMAIN unsigned
              THEN Unsized("invalid_data")
              ELSE IF ~element.fixed \/ count = 0
              THEN ElementsSize(prot, field.type, left, count)
              ELSE IF count > (Len(bytes) - offset) \div low
              THEN Unsized("schema_mismatch")
              ELSE Sized(count * low)
  BY DEF CollectionSize
<1>3. sized.status = "ok"
  OBVIOUS
<1>. HIDE DEF sized
<1>4. Has(field.count_from) => field.count_from[1] \in DOMAIN unsigned
  BY <1>2, <1>3 DEF Unsized
<1>5. count \in Nat /\ count >= field.count /\ (~Has(field.count_from) => count = field.count)
  BY <1>1, <1>4
<1>6. MinimumContribution(field) = IF IsGated(field) THEN 0 ELSE field.size
  BY DEF MinimumContribution, IsDynamic, IsText, IsScalar
<1>7. HasFixedSize(field, prot.structs) =>
        element.fixed /\ ~IsGated(field) /\ field.count_from = <<>>
  BY DEF HasFixedSize
<1>8. left \in Seq(Bytes) /\ Len(left) <= MaxFrame
  <2>1. left \in Seq(Bytes) /\ Len(left) = Len(bytes) - offset
    BY RestType
  <2>. HIDE DEF left
  <2>. QED
    BY <2>1, CodecAssumption DEF CodecAssumption
<1>. HIDE DEF element, low, count, left
<1>9. count * low \in Nat /\ count * low >= field.size
  <2>1. PICK more \in Nat : count = field.count + more
    BY <1>1, <1>5
  <2>2. count * low = field.count * low + more * low /\ more * low \in Nat
    BY <1>1, <2>1
  <2>3. field.count * low \in Nat
    BY <1>1
  <2>. QED
    BY <1>1, <2>2, <2>3
<1>10. field.size \in Nat
  BY DEF Resolved, FieldFits
<1>11. CASE ~element.fixed \/ count = 0
  <2>1. sized = ElementsSize(prot, field.type, left, count)
    BY <1>2, <1>4, <1>11
  <2>2. ElementsSize(prot, field.type, left, count).size \in Nat
        /\ ElementsSize(prot, field.type, left, count).size >= count * low
    BY <1>3, <1>5, <1>8, <2>1, ElementsAreSized DEF low, element
  <2>3. sized.size \in Nat /\ sized.size >= MinimumContribution(field)
    BY <1>6, <1>9, <1>10, <2>1, <2>2
  <2>4. ~HasFixedSize(field, prot.structs)
    BY <1>1, <1>5, <1>7, <1>11 DEF Has
  <2>. QED
    BY <2>3, <2>4 DEF SizedAs, sized
<1>12. CASE ~(~element.fixed \/ count = 0)
  <2>1. sized = Sized(count * low)
    BY <1>2, <1>3, <1>4, <1>12 DEF Unsized
  <2>2. sized.size = count * low
    BY <2>1 DEF Sized
  <2>3. sized.size \in Nat /\ sized.size >= MinimumContribution(field)
    BY <1>6, <1>9, <1>10, <2>2
  <2>4. HasFixedSize(field, prot.structs) => sized.size = MinimumContribution(field)
    <3>1. field.count_from = <<>> => count = field.count
      BY <1>5 DEF Has
    <3>. QED
      BY <1>1, <1>6, <1>7, <2>2, <3>1
  <2>. QED
    BY <2>3, <2>4 DEF SizedAs, sized
<1>. QED
  BY <1>11, <1>12

\* The size the decoder finds for a field, of any kind, is what compile_layout()
\* counted for it at least, and that exactly when the field is said to be fixed.
LEMMA FieldIsSized ==
  ASSUME NEW prot, NEW field, Resolved(field, prot.structs),
         \A t \in TypesIn(field) : Sound(prot, t),
         NEW unsigned, \A k \in DOMAIN unsigned : unsigned[k] \in Nat,
         NEW bytes \in Seq(Bytes), Len(bytes) <= MaxFrame, NEW offset \in 0..Len(bytes),
         FieldSize(prot, field, unsigned, bytes, offset).status = "ok"
  PROVE  SizedAs(field, prot.structs, FieldSize(prot, field, unsigned, bytes, offset).size)
<1>. DEFINE sized == FieldSize(prot, field, unsigned, bytes, offset)
            sizeOf(decoded) == IF decoded.status = "ok" THEN Sized(decoded.consumed)
                               ELSE Unsized(decoded.status)
            nested(t) == sizeOf(DecodeNested(prot, t, Rest(bytes, offset)))
<1>1. field.width \in Nat /\ field.size \in Nat /\ field.kind \in FieldKinds
  BY DEF Resolved, FieldFits
<1>2. sized.status = "ok"
  OBVIOUS
<1>3. ASSUME NEW t \in TypesIn(field), sized = nested(t)
      PROVE  /\ sized.size \in Nat /\ sized.size >= prot.structs[t].minimum_size
             /\ prot.structs[t].fixed => sized.size = prot.structs[t].minimum_size
  <2>. DEFINE decoded == DecodeNested(prot, t, Rest(bytes, offset))
  <2>1. sized = IF decoded.status = "ok" THEN Sized(decoded.consumed) ELSE Unsized(decoded.status)
    BY <1>3
  <2>2. Sound(prot, t)
    OBVIOUS
  <2>. HIDE DEF sized, decoded
  <2>3. decoded.status = "ok" /\ sized.size = decoded.consumed
    BY <1>2, <2>1 DEF Sized, Unsized
  <2>. QED
    BY <2>2, <2>3, NestedIsSized DEF decoded
<1>4. CASE IsScalar(field)
  <2>1. sized = Sized(field.width)
    BY <1>4 DEF FieldSize, IsScalar, IsText
  <2>2. sized.size = field.width
    BY <2>1 DEF Sized
  <2>3. MinimumContribution(field) = IF IsGated(field) THEN 0 ELSE field.width
    BY <1>4 DEF MinimumContribution, IsDynamic, IsText, IsScalar
  <2>. HIDE DEF sized
  <2>. QED
    BY <1>1, <2>2, <2>3 DEF SizedAs, HasFixedSize, sized
<1>5. CASE IsText(field)
  <2>1. sized = TextSize(field, unsigned, bytes)
    BY <1>5 DEF FieldSize, IsScalar, IsText
  <2>. HIDE DEF sized
  <2>2. MinimumContribution(field) = IF IsGated(field) \/ IsDynamic(field) THEN 0 ELSE field.size
    BY <1>5 DEF MinimumContribution, IsText, IsScalar
  <2>3. CASE IsDynamic(field)
    <3>1. field.size_from[1] \in DOMAIN unsigned /\ sized.size = unsigned[field.size_from[1]]
      BY <1>2, <2>1, <2>3 DEF TextSize, Sized, Unsized
    <3>2. sized.size \in Nat /\ MinimumContribution(field) = 0
      BY <2>2, <2>3, <3>1
    <3>. QED
      BY <2>3, <3>2 DEF SizedAs, HasFixedSize, sized
  <2>4. CASE ~IsDynamic(field)
    <3>1. sized.size = field.size
      BY <2>1, <2>4 DEF TextSize, Sized
    <3>. QED
      BY <1>1, <2>2, <2>4, <3>1 DEF SizedAs, HasFixedSize, sized
  <2>. QED
    BY <2>3, <2>4
<1>6. ASSUME ~IsScalar(field), ~IsText(field)
      PROVE  MinimumContribution(field) = IF IsGated(field) THEN 0 ELSE field.size
  BY <1>6 DEF MinimumContribution, IsDynamic
<1>7. CASE field.kind = "struct"
  <2>1. ~IsScalar(field) /\ ~IsText(field)
    BY <1>7 DEF IsScalar, IsText
  <2>2. sized = nested(field.type)
    BY <1>7, <2>1 DEF FieldSize
  <2>. HIDE DEF sized, nested
  <2>3. field.type \in TypesIn(field)
    BY <1>7 DEF TypesIn
  <2>4. field.size = prot.structs[field.type].minimum_size
    BY <1>7 DEF Resolved
  <2>. QED
    BY <1>1, <1>3, <1>6, <1>7, <2>1, <2>2, <2>3, <2>4 DEF SizedAs, HasFixedSize, sized
<1>8. CASE field.kind = "collection"
  <2>1. sized = CollectionSize(prot, field, unsigned, bytes, offset)
    BY <1>8 DEF FieldSize, IsScalar, IsText
  <2>2. Sound(prot, field.type)
    BY <1>8 DEF TypesIn
  <2>. QED
    BY <1>8, <2>1, <2>2, CollectionIsSized
<1>9. CASE field.kind = "variant"
  <2>. DEFINE tag == unsigned[field.tag_from[1]]  k == FindVariantCase(field, tag)
              type == field.cases[k].type
  <2>1. ~IsScalar(field) /\ ~IsText(field)
    BY <1>9 DEF IsScalar, IsText
  <2>2. sized = IF field.tag_from[1] \notin DOMAIN unsigned THEN Unsized("invalid_data")
                ELSE IF k = 0 THEN Unsized("invalid_data") ELSE nested(type)
    BY <1>9, <2>1 DEF FieldSize
  <2>3. /\ \A n \in DOMAIN field.cases : prot.structs[field.cases[n].type].minimum_size >= field.size
        /\ k = 0 \/ k \in DOMAIN field.cases
    BY <1>9 DEF Resolved
  <2>. HIDE DEF sized, nested, k
  <2>4. k # 0 /\ sized = nested(type)
    BY <1>2, <2>2 DEF Unsized
  <2>5. k \in DOMAIN field.cases /\ type \in TypesIn(field)
    BY <1>9, <2>3, <2>4 DEF TypesIn
  <2>6. prot.structs[type].minimum_size >= field.size /\ prot.structs[type].minimum_size \in Nat
    <3>1. Sound(prot, type)
      BY <2>5
    <3>. QED
      BY <2>3, <2>5, <3>1 DEF Sound
  <2>7. HasFixedSize(field, prot.structs) =>
          ~IsGated(field) /\ prot.structs[type].fixed /\ prot.structs[type].minimum_size = field.size
    BY <1>9, <2>5 DEF HasFixedSize
  <2>. DEFINE low == prot.structs[type].minimum_size
  <2>8. sized.size \in Nat /\ sized.size >= low /\ (prot.structs[type].fixed => sized.size = low)
    BY <1>3, <2>4, <2>5
  <2>9. low \in Nat /\ low >= field.size
    BY <2>6
  <2>10. MinimumContribution(field) = IF IsGated(field) THEN 0 ELSE field.size
    BY <1>6, <2>1
  <2>11. HasFixedSize(field, prot.structs) => ~IsGated(field) /\ sized.size = field.size
    BY <2>7, <2>8
  <2>. HIDE DEF low, type
  <2>12. sized.size \in Nat /\ sized.size >= MinimumContribution(field)
    BY <1>1, <2>8, <2>9, <2>10
  <2>. QED
    BY <2>10, <2>11, <2>12 DEF SizedAs, sized
<1>. QED
  BY <1>1, <1>4, <1>5, <1>7, <1>8, <1>9 DEF FieldKinds, IsScalar, IsText

\* The case the decoder finds for a tag, in the table or by search, is one of the
\* field's: no tag leads past the end of the cases.
LEMMA CaseIsFound ==
  ASSUME NEW field, Len(field.cases) \in Nat, DOMAIN field.cases = 1..Len(field.cases),
         field.lookup = (IF field.cases = <<>> THEN <<>> ELSE DenseLookup(field.cases)), NEW tag
  PROVE  FindVariantCase(field, tag) = 0 \/ FindVariantCase(field, tag) \in DOMAIN field.cases
<1>. DEFINE cases == field.cases  n == Len(cases)
            I == {k \in 1..n : cases[k].tag = tag}
            at == {k \in DOMAIN cases : cases[k].tag = tag}
            low == cases[1].tag
            tags == low .. cases[n].tag
            table == [t \in tags |-> IF {k \in DOMAIN cases : cases[k].tag = t} = {} THEN 0
                                     ELSE Max({k \in DOMAIN cases : cases[k].tag = t})]
<1>1. I = at /\ I \in SUBSET Nat /\ I \in SUBSET (0..n) /\ I \subseteq 1..n
  OBVIOUS
<1>2. SelectInSeq(cases, LAMBDA case : case.tag = tag) = IF I # {} THEN Min(I) ELSE 0
  BY DEF SelectInSeq
<1>3. n \in Nat /\ DOMAIN cases = 1..n
  OBVIOUS
<1>4. Has(field.lookup) => field.lookup = <<table>>
  <2>1. DenseLookup(cases) = <<>> \/ DenseLookup(cases) = <<table>>
    BY DEF DenseLookup
  <2>. HIDE DEF table
  <2>. QED
    BY <2>1 DEF Has
<1>5. I # {} => Min(I) \in 1..n /\ Max(at) \in 1..n
  <2>. HIDE DEF I, at, n
  <2>. SUFFICES ASSUME I # {} PROVE Min(I) \in 1..n /\ Max(at) \in 1..n
    OBVIOUS
  <2>1. Min(I) \in I
    BY <1>1, LeastNumber DEF Min
  <2>2. Max(at) \in at
    BY <1>1, <1>3, MaxOfNumbers
  <2>. QED
    BY <1>1, <2>1, <2>2
<1>6. CASE Has(field.lookup) /\ tag \in DOMAIN field.lookup[1]
  <2>1. FindVariantCase(field, tag) = field.lookup[1][tag]
    BY <1>6 DEF FindVariantCase
  <2>2. field.lookup[1] = table
    <3>. HIDE DEF table
    <3>. QED
      BY <1>4, <1>6
  <2>3. tag \in tags
    <3>. HIDE DEF tags
    <3>. QED
      BY <1>6, <2>2
  <2>4. table[tag] = IF at = {} THEN 0 ELSE Max(at)
    <3>. HIDE DEF tags
    <3>. QED
      BY <2>3
  <2>. HIDE DEF table, at, I, n
  <2>. QED
    BY <1>1, <1>3, <1>5, <2>1, <2>2, <2>4
<1>7. CASE ~(Has(field.lookup) /\ tag \in DOMAIN field.lookup[1])
  <2>1. FindVariantCase(field, tag) = SelectInSeq(cases, LAMBDA case : case.tag = tag)
    BY <1>7 DEF FindVariantCase
  <2>. HIDE DEF at, I, n
  <2>. QED
    BY <1>2, <1>3, <1>5, <2>1
<1>. QED
  BY <1>6, <1>7

\* What compile_layout() makes of an accepted field has the size the decoder relies on.
LEMMA CompiledFieldResolved ==
  ASSUME NEW fields \in Seq(FieldDefinitions), NEW i \in DOMAIN fields, NEW types,
         \A t \in DOMAIN types : types[t].ok => types[t].minimum_size \in Nat,
         FieldAccepted(fields, i, types)
  PROVE  LET field == CompiledField(fields[i], types)
         IN  Resolved(field, types) /\ TypesIn(field) \subseteq DOMAIN types
<1>. DEFINE field == fields[i]
            cases == SortedCases(field.cases)
            R == {field.cases[k] : k \in DOMAIN field.cases}
            sizes == {types[field.cases[k].type].minimum_size : k \in DOMAIN field.cases}
            compiled == CompiledField(field, types)
<1>1. field \in FieldDefinitions
  OBVIOUS
<1>2. /\ field.kind \in FieldKinds /\ field.count \in Nat
      /\ field.cases \in Seq([tag : Nat, type : Nat])
      /\ {"kind", "count", "count_from", "size", "type", "cases"} \subseteq DOMAIN field
  BY <1>1 DEF FieldDefinitions
<1>3. FieldFits(compiled)
  BY CompiledFieldFits
<1>. HIDE DEF field
<1>4. /\ compiled.kind = field.kind /\ compiled.count = field.count
      /\ compiled.count_from = field.count_from /\ compiled.type = field.type
      /\ compiled.cases = cases
      /\ compiled.lookup = (IF cases = <<>> THEN <<>> ELSE DenseLookup(cases))
      /\ field.kind = "struct" => compiled.size = types[field.type].minimum_size
      /\ field.kind = "collection" => compiled.size = field.count * types[field.type].minimum_size
      /\ field.kind = "variant" => compiled.size = Min(sizes)
  BY <1>2 DEF CompiledField
<1>5. cases \in Seq(R) /\ \A k \in DOMAIN cases : cases[k] \in R
  <2>1. Len(field.cases) \in Nat /\ DOMAIN field.cases = 1..Len(field.cases)
    BY <1>2
  <2>2. cases \in Seq(R)
    BY <2>1, SortedAreCases
  <2>. HIDE DEF R, cases
  <2>. QED
    BY <2>2
<1>. HIDE DEF compiled, cases
<1>6. \A tag : \/ FindVariantCase(compiled, tag) = 0
               \/ FindVariantCase(compiled, tag) \in DOMAIN compiled.cases
  <2>1. Len(cases) \in Nat /\ DOMAIN cases = 1..Len(cases)
    <3>. HIDE DEF R
    <3>. QED
      BY <1>5
  <2>2. Len(compiled.cases) \in Nat /\ DOMAIN compiled.cases = 1..Len(compiled.cases)
        /\ compiled.lookup = (IF compiled.cases = <<>> THEN <<>> ELSE DenseLookup(compiled.cases))
    BY <1>4, <2>1
  <2>. QED
    BY <2>2, CaseIsFound
<1>7. CASE field.kind = "struct"
  <2>1. Compiled(types, field.type)
    BY <1>7 DEF FieldAccepted, StructAccepted, IsText, field
  <2>2. TypesIn(compiled) = {field.type}
    BY <1>4, <1>7 DEF TypesIn
  <2>. QED
    BY <1>2, <1>3, <1>4, <1>7, <2>1, <2>2 DEF Resolved, Compiled, compiled, field
<1>8. CASE field.kind = "collection"
  <2>1. /\ Compiled(types, field.type) /\ types[field.type].minimum_size > 0
        /\ (field.count = 0) # (field.count_from = <<>>)
    BY <1>8 DEF FieldAccepted, CollectionAccepted, IsText, field
  <2>2. TypesIn(compiled) = {field.type}
    BY <1>4, <1>8 DEF TypesIn
  <2>3. types[field.type].minimum_size \in Nat \ {0}
    BY <2>1 DEF Compiled
  <2>4. Resolved(compiled, types)
    BY <1>2, <1>3, <1>4, <1>8, <2>1, <2>3 DEF Resolved, Has
  <2>. QED
    BY <2>1, <2>2, <2>4 DEF Compiled, compiled, field
<1>9. CASE field.kind = "variant"
  <2>1. field.cases # <<>> /\ \A k \in DOMAIN field.cases : Compiled(types, field.cases[k].type)
    BY <1>9 DEF FieldAccepted, VariantAccepted, IsText, field
  <2>2. \A c \in R : types[c.type].minimum_size \in sizes /\ Compiled(types, c.type)
    BY <2>1
  <2>3. sizes \in SUBSET Nat
    BY <2>1 DEF Compiled
  <2>4. 1 \in DOMAIN field.cases
    BY <1>2, <2>1
  <2>5. types[field.cases[1].type].minimum_size \in sizes
    BY <2>4
  <2>6. \E n \in sizes : \A m \in sizes : n <= m
    BY <2>3, <2>5, LeastNumber
  <2>7. Min(sizes) \in sizes /\ \A m \in sizes : Min(sizes) <= m
    BY <2>6 DEF Min
  <2>. HIDE DEF sizes, R
  <2>8. \A k \in DOMAIN compiled.cases : /\ types[compiled.cases[k].type].minimum_size >= compiled.size
                                         /\ compiled.cases[k].type \in DOMAIN types
    <3>. SUFFICES ASSUME NEW k \in DOMAIN cases
                  PROVE  /\ types[cases[k].type].minimum_size >= Min(sizes)
                         /\ cases[k].type \in DOMAIN types
      BY <1>4, <1>9
    <3>1. cases[k] \in R
      BY <1>5
    <3>2. types[cases[k].type].minimum_size \in sizes /\ cases[k].type \in DOMAIN types
      BY <2>2, <3>1 DEF Compiled
    <3>3. types[cases[k].type].minimum_size \in Nat /\ Min(sizes) \in Nat
      BY <2>3, <2>7, <3>2
    <3>. QED
      BY <2>7, <3>2, <3>3
  <2>9. TypesIn(compiled) \subseteq DOMAIN types
    BY <1>4, <1>9, <2>8 DEF TypesIn
  <2>10. Resolved(compiled, types)
    BY <1>2, <1>3, <1>4, <1>6, <1>9, <2>8 DEF Resolved
  <2>. QED
    BY <2>9, <2>10 DEF compiled, field
<1>10. CASE field.kind \notin {"struct", "collection", "variant"}
  <2>1. Resolved(compiled, types) /\ TypesIn(compiled) = {}
    BY <1>2, <1>3, <1>4, <1>10 DEF Resolved, TypesIn
  <2>. QED
    BY <2>1 DEF compiled, field
<1>. QED
  BY <1>7, <1>8, <1>9, <1>10

\* The values of the scalars found so far, which later sizes and counts are read from.
AreNumbers(scalars) == \A k \in DOMAIN scalars : scalars[k] \in Nat

\* A field that is recorded leaves numbers behind.
LEMMA RecordedAreNumbers ==
  ASSUME NEW field, NEW bytes \in Seq(Bytes), NEW walk, AreNumbers(walk.scalars), NEW i,
         NEW offset \in Nat, NEW sized, sized.size \in Nat,
         Found(field, bytes, walk, i, offset, sized, Record(field, bytes, walk, i, offset, sized))
  PROVE  AreNumbers(Record(field, bytes, walk, i, offset, sized).scalars)
<1>. DEFINE next == Record(field, bytes, walk, i, offset, sized)
            size == sized.size  end == offset + size
            part == Slice(bytes, offset, size)
            value == ReadUnsigned(part, field.order)
<1>1. ~(offset > Len(bytes)) /\ sized.status = "ok" /\ ~(end > Len(bytes))
  BY DEF Found
<1>2. next.scalars = IF IsScalar(field) THEN WithFound(walk.scalars, i, value) ELSE walk.scalars
  BY <1>1 DEF Record
<1>3. part \in Seq(Bytes)
  <2>1. \A k \in (offset + 1)..end : bytes[k] \in Bytes
    BY <1>1
  <2>2. part = SubSeq(bytes, offset + 1, end)
    BY DEF Slice
  <2>3. offset + 1 \in Int /\ end \in Int
    OBVIOUS
  <2>. HIDE DEF end, part
  <2>. QED
    BY <2>1, <2>2, <2>3, SubSeqProperties
<1>. HIDE DEF part, next
<1>4. value \in Nat
  <2>1. Len(part) \in 0..Len(part) /\ Len(part) \in Nat
    BY <1>3
  <2>. QED
    BY <1>3, <2>1, ReadBySteps
<1>. HIDE DEF value
<1>5. AreNumbers(WithFound(walk.scalars, i, value))
  BY <1>4 DEF AreNumbers, WithFound
<1>. QED
  BY <1>2, <1>5 DEF next

\* The structs nested in a field are decoded to their sizes.
NestedSound(prot, field) == \A t \in TypesIn(field) : Sound(prot, t)

\* A walk that has consumed so many bytes at least, of n.
Ahead(walk, low, n) ==
  /\ "status" \in DOMAIN walk /\ AreNumbers(walk.scalars)
  /\ walk.consumed \in 0..n /\ walk.consumed >= low

\* A turn of the decoder's loop consumes what compile_layout() counted for the field
\* at least, from wherever the field before it ended.
LEMMA StepIsSized ==
  ASSUME NEW prot, NEW layout, NEW i, Resolved(layout.fields[i], prot.structs),
         NestedSound(prot, layout.fields[i]),
         NEW bytes \in Seq(Bytes), Len(bytes) <= MaxFrame,
         NEW walk, NEW low \in Nat, Ahead(walk, low, Len(bytes)),
         Step(prot, layout, bytes, walk, i).status = "ok"
  PROVE  LET next == Step(prot, layout, bytes, walk, i)
             field == layout.fields[i]
         IN  /\ Ahead(next, SizeStep(field, low), Len(bytes))
             /\ HasFixedSize(field, prot.structs) /\ walk.consumed = low =>
                  next.consumed = SizeStep(field, low)
<1>. DEFINE field == layout.fields[i]
            unsigned == RawUnsigned(layout.fields, walk.scalars)
            offset == AlignUp(walk.consumed, field.alignment)
            sized == FieldSize(prot, field, unsigned, bytes, offset)
            next == Step(prot, layout, bytes, walk, i)
            from == walk.consumed  n == Len(bytes)
            contribution == MinimumContribution(field)
            aligned == AlignUp(low, field.alignment)
<1>0. /\ "status" \in DOMAIN walk /\ AreNumbers(walk.scalars)
      /\ walk.consumed \in 0..Len(bytes) /\ walk.consumed >= low
  BY DEF Ahead
<1>1. \A k \in DOMAIN unsigned : unsigned[k] \in Nat
  BY <1>0 DEF RawUnsigned, AreNumbers
<1>2. /\ ~IsSelected(field, unsigned) => next = walk
      /\ IsSelected(field, unsigned) => Found(field, bytes, walk, i, offset, sized, next)
  BY <1>0, StepRecords
<1>3. next = IF walk.status # "ok" \/ ~IsSelected(field, unsigned) THEN walk
             ELSE Record(field, bytes, walk, i, offset, sized)
  BY DEF Step
<1>4. walk.status = "ok" /\ next.status = "ok" /\ "status" \in DOMAIN next
  BY <1>0, StepRecords
<1>5. from \in Nat /\ from <= n /\ n \in Nat /\ from >= low
  BY <1>0
<1>6. Resolved(field, prot.structs) /\ field.alignment \in Nat
  BY DEF Resolved, FieldFits
<1>7. aligned \in Nat /\ aligned >= low /\ offset \in Nat /\ offset >= from /\ aligned <= offset
      /\ (from = low => offset = aligned)
  BY <1>5, <1>6, AlignUpGrows, AlignUpMonotone
<1>8. SizeStep(field, low) = IF IsGated(field) THEN low ELSE aligned + contribution
  BY DEF SizeStep
<1>9. \A t \in TypesIn(field) : Sound(prot, t)
  BY DEF NestedSound
<1>10. CASE ~IsSelected(field, unsigned)
  <2>1. next = walk
    BY <1>2, <1>10
  <2>2. IsGated(field)
    <3>. HIDE DEF field, unsigned
    <3>1. DOMAIN field.condition # {} \/ DOMAIN field.presence # {}
      BY <1>10 DEF IsSelected
    <3>2. DOMAIN <<>> = {}
      OBVIOUS
    <3>. QED
      BY <3>1, <3>2 DEF IsGated, Has
  <2>. HIDE DEF field, next
  <2>. QED
    BY <1>0, <1>5, <1>8, <2>1, <2>2 DEF HasFixedSize, Ahead, field, next
<1>11. CASE IsSelected(field, unsigned)
  <2>. HIDE DEF field, unsigned, sized, offset, next
  <2>1. next = Record(field, bytes, walk, i, offset, sized)
    BY <1>3, <1>4, <1>11
  <2>2. Found(field, bytes, walk, i, offset, sized, next)
    BY <1>2, <1>11
  <2>3. /\ ~(offset > n) /\ sized.status = "ok" /\ ~(offset + sized.size > n)
        /\ next.consumed = offset + sized.size
    BY <2>2 DEF Found
  <2>4. offset \in 0..n
    BY <1>5, <1>7, <2>3
  <2>5. SizedAs(field, prot.structs, sized.size)
    BY <1>1, <1>6, <1>9, <2>3, <2>4, FieldIsSized DEF sized
  <2>6. AreNumbers(next.scalars)
    BY <1>0, <1>7, <2>1, <2>2, <2>5, RecordedAreNumbers DEF SizedAs
  <2>7. contribution \in Nat /\ (IsGated(field) => contribution = 0)
    BY <1>6 DEF Resolved, FieldFits, MinimumContribution
  <2>8. /\ sized.size \in Nat /\ sized.size >= contribution
        /\ HasFixedSize(field, prot.structs) => sized.size = contribution /\ ~IsGated(field)
    BY <2>5 DEF SizedAs, HasFixedSize
  <2>. HIDE DEF contribution, aligned, from, n
  <2>9. next.consumed \in 0..n /\ next.consumed >= SizeStep(field, low)
    BY <1>5, <1>7, <1>8, <2>3, <2>7, <2>8
  <2>10. HasFixedSize(field, prot.structs) /\ from = low => next.consumed = SizeStep(field, low)
    BY <1>5, <1>7, <1>8, <2>3, <2>7, <2>8
  <2>. QED
    BY <1>4, <2>6, <2>9, <2>10 DEF Ahead, field, next, from, n
<1>. QED
  BY <1>10, <1>11

\* A layout as compile_layout() leaves it.
Measured(layout, types) ==
  /\ DOMAIN layout.fields = 1..Len(layout.fields) /\ Len(layout.fields) \in Nat
  /\ \A i \in DOMAIN layout.fields : Resolved(layout.fields[i], types)
  /\ layout.minimum_size = MinimumSize(layout.fields)
  /\ layout.fixed <=> \A i \in DOMAIN layout.fields : HasFixedSize(layout.fields[i], types)

\* Whatever decodes as a layout took the bytes compile_layout() counted for it at
\* least, and no more when the layout is said to be fixed.
LEMMA LayoutIsSized ==
  ASSUME NEW prot, NEW layout, Measured(layout, prot.structs),
         \A i \in DOMAIN layout.fields : NestedSound(prot, layout.fields[i]),
         NEW bytes \in Seq(Bytes), Len(bytes) <= MaxFrame, NEW prefix,
         AssignFromLayout(prot, layout, bytes, prefix).status = "ok"
  PROVE  SizeTrue(layout, AssignFromLayout(prot, layout, bytes, prefix).consumed, Len(bytes))
<1>. DEFINE fields == layout.fields  n == Len(fields)  types == prot.structs
            walk == Walk(prot, layout, bytes)
<1>1. n \in Nat /\ DOMAIN fields = 1..n /\ \A i \in 1..n : Resolved(fields[i], types)
  BY DEF Measured
<1>2. walk.status = "ok" /\ AssignFromLayout(prot, layout, bytes, prefix).consumed = walk.consumed
  BY DecodedIsWalked
<1>3. PICK f : Walked(prot, layout, bytes, f)
  BY <1>1, WalkIsWalked
<1>4. \A i \in 0..n : "status" \in DOMAIN f[i] /\ f[i].status = "ok"
  BY <1>1, <1>2, <1>3, WalkIsFine
<1>5. /\ f[0] = WalkStart /\ \A i \in 1..n : f[i] = Step(prot, layout, bytes, f[i - 1], i)
      /\ walk = f[n]
  BY <1>3 DEF Walked
<1>6. PICK s : /\ SizeSteps(fields, s) /\ MinimumSize(fields) = s[n]
               /\ \A i \in 0..n : s[i] \in Nat
  <2>1. \A i \in 1..n : FieldFits(fields[i])
    BY <1>1 DEF Resolved
  <2>. QED
    BY <1>1, <2>1, MinimumBySteps
<1>7. s[0] = 0 /\ \A i \in 1..n : s[i] = SizeStep(fields[i], s[i - 1])
  BY <1>6 DEF SizeSteps
<1>. DEFINE Good(m) == /\ Ahead(f[m], s[m], Len(bytes))
                       /\ layout.fixed => f[m].consumed = s[m]
            S == {m \in Nat : m <= n => Good(m)}
<1>8. layout.fixed => \A i \in 1..n : HasFixedSize(fields[i], types)
  BY <1>1 DEF Measured
<1>. HIDE DEF fields, n, types
<1>9. 0 \in S
  <2>1. f[0].consumed = 0 /\ f[0].scalars = <<>>
    BY <1>5 DEF WalkStart
  <2>2. AreNumbers(f[0].scalars)
    BY <2>1 DEF AreNumbers
  <2>. QED
    BY <1>4, <1>7, <2>1, <2>2 DEF Ahead
<1>10. ASSUME NEW m \in Nat, m \in S PROVE m + 1 \in S
  <2>. SUFFICES ASSUME m + 1 <= n PROVE Good(m + 1)
    OBVIOUS
  <2>. DEFINE i == m + 1  before == f[m]  low == s[m]
  <2>1. i \in 1..n /\ i - 1 = m /\ m \in 0..n /\ i \in 0..n
    BY <1>1
  <2>2. /\ Ahead(before, low, Len(bytes)) /\ low \in Nat
        /\ layout.fixed => before.consumed = low
    BY <1>1, <1>6, <1>10, <2>1
  <2>3. f[i] = Step(prot, layout, bytes, before, i) /\ s[i] = SizeStep(fields[i], low)
    <3>. HIDE DEF i
    <3>. QED
      BY <1>5, <1>7, <2>1
  <2>4. f[i].status = "ok"
    BY <1>4, <2>1
  <2>5. Resolved(fields[i], types) /\ NestedSound(prot, fields[i])
    BY <1>1, <2>1 DEF fields
  <2>. HIDE DEF i, before, low
  <2>6. Resolved(layout.fields[i], prot.structs) /\ NestedSound(prot, layout.fields[i])
    BY <2>5 DEF fields, types
  <2>7. Step(prot, layout, bytes, before, i).status = "ok"
    BY <2>3, <2>4
  <2>8. LET next == Step(prot, layout, bytes, before, i)
        IN  /\ Ahead(next, SizeStep(layout.fields[i], low), Len(bytes))
            /\ HasFixedSize(layout.fields[i], prot.structs) /\ before.consumed = low =>
                 next.consumed = SizeStep(layout.fields[i], low)
    BY <2>2, <2>6, <2>7, StepIsSized
  <2>9. layout.fixed => HasFixedSize(layout.fields[i], prot.structs)
    BY <1>8, <2>1 DEF fields, types
  <2>10. Good(i)
    BY <2>2, <2>3, <2>8, <2>9 DEF fields
  <2>. QED
    BY <2>10 DEF i
<1>. HIDE DEF S
<1>11. n \in S
  BY <1>1, <1>9, <1>10, Induction
<1>12. Good(n)
  BY <1>1, <1>11 DEF S
<1>13. layout.minimum_size = s[n] /\ s[n] \in Nat
  BY <1>1, <1>6 DEF Measured, fields
<1>. HIDE DEF walk
<1>. QED
  BY <1>2, <1>5, <1>12, <1>13 DEF SizeTrue, Ahead

\* A layout compile_layout() accepts is measured, and nests only structs it was given.
LEMMA CompiledLayoutMeasured ==
  ASSUME NEW layout, layout.fields \in Seq(FieldDefinitions), NEW types,
         \A t \in DOMAIN types : types[t].ok => types[t].minimum_size \in Nat,
         CompileLayout(layout, types).ok
  PROVE  LET compiled == CompileLayout(layout, types)
         IN  /\ Measured(compiled, types)
             /\ \A i \in DOMAIN compiled.fields : TypesIn(compiled.fields[i]) \subseteq DOMAIN types
<1>. DEFINE fields == [i \in DOMAIN layout.fields |-> CompiledField(layout.fields[i], types)]
            compiled == CompileLayout(layout, types)
<1>1. \A i \in DOMAIN layout.fields : FieldAccepted(layout.fields, i, types)
  BY DEF CompileLayout, Failed
<1>2. /\ compiled.fields = fields /\ compiled.minimum_size = MinimumSize(fields)
      /\ compiled.fixed = (\A i \in DOMAIN fields : HasFixedSize(fields[i], types))
  BY <1>1 DEF CompileLayout, Failed
<1>3. DOMAIN fields = 1..Len(fields) /\ Len(fields) \in Nat
  <2>1. Fits(compiled)
    BY CompiledLayoutFits
  <2>. HIDE DEF compiled, fields
  <2>2. Len(fields) \in 1..MaxFields /\ MaxFields \in Nat
    BY <1>2, <2>1, CompilerAssumption DEF Fits, CompilerAssumption
  <2>. QED
    BY <1>2, <2>1, <2>2 DEF Fits
<1>4. \A i \in DOMAIN fields : Resolved(fields[i], types) /\ TypesIn(fields[i]) \subseteq DOMAIN types
  BY <1>1, CompiledFieldResolved
<1>. HIDE DEF fields, compiled
<1>5. Measured(compiled, types)
  BY <1>2, <1>3, <1>4 DEF Measured
<1>. QED
  BY <1>2, <1>4, <1>5 DEF compiled

\* A layout of which the decoder takes no less than its compiled size says.
TakesItsSize(prot, layout) ==
  \A bytes \in Seq(Bytes), prefix \in BOOLEAN :
    LET decoded == AssignFromLayout(prot, layout, bytes, prefix)
    IN  Len(bytes) <= MaxFrame /\ decoded.status = "ok" =>
          SizeTrue(layout, decoded.consumed, Len(bytes))

\* Messages and structs alike, whether bytes may follow them or not.
LEMMA MeasuredTakesItsSize ==
  ASSUME NEW prot, NEW layout, Measured(layout, prot.structs),
         \A i \in DOMAIN layout.fields : NestedSound(prot, layout.fields[i])
  PROVE  TakesItsSize(prot, layout)
<1>. SUFFICES ASSUME NEW bytes \in Seq(Bytes), NEW prefix \in BOOLEAN, Len(bytes) <= MaxFrame,
                     AssignFromLayout(prot, layout, bytes, prefix).status = "ok"
              PROVE  SizeTrue(layout, AssignFromLayout(prot, layout, bytes, prefix).consumed, Len(bytes))
  BY DEF TakesItsSize
<1>. QED
  BY LayoutIsSized

\* What the compiler makes of a definition it accepts: the structs are compiled
\* like layouts, from the innermost outwards.
LEMMA StructsAreCompiled ==
  ASSUME NEW definition \in Definitions, Compile(definition).ok
  PROVE  LET structs == CompileStructs(definition)
         IN  /\ Compile(definition).structs = structs /\ DOMAIN structs \subseteq Nat
             /\ \A t \in DOMAIN structs : structs[t].ok /\ structs[t].minimum_size \in Nat
             /\ \A t \in DOMAIN structs : Measured(structs[t], structs)
             /\ \A t \in DOMAIN structs : \A i \in DOMAIN structs[t].fields :
                  TypesIn(structs[t].fields[i]) \subseteq DOMAIN structs
             /\ \E rank \in [DOMAIN structs -> DOMAIN structs] :
                  \A t \in DOMAIN structs : \A i \in DOMAIN structs[t].fields :
                    \A nested \in TypesIn(structs[t].fields[i]) : rank[nested] < rank[t]
<1>. DEFINE structs == CompileStructs(definition)
            layout(t) == [definition.structs[t] EXCEPT !.trailing = FALSE]
<1>1. Compile(definition).structs = structs /\ \A t \in DOMAIN structs : structs[t].ok
  BY DEF Compile, Failed
<1>2. \A t \in DOMAIN structs : structs[t].ok => structs[t].minimum_size \in Nat
  BY DefinitionAssumption DEF DefinitionAssumption
<1>3. /\ DOMAIN structs \subseteq Nat
      /\ \A t \in DOMAIN structs :
           /\ layout(t).fields \in Seq(FieldDefinitions)
           /\ structs[t] = CompileLayout(layout(t), structs)
      /\ \E rank \in [DOMAIN structs -> DOMAIN structs] :
           \A t \in DOMAIN structs : \A i \in DOMAIN structs[t].fields :
             \A nested \in TypesIn(structs[t].fields[i]) : rank[nested] < rank[t]
  BY <1>1, StructAssumption DEF StructAssumption
<1>. HIDE DEF structs, layout
<1>4. ASSUME NEW t \in DOMAIN structs
      PROVE  /\ Measured(structs[t], structs)
             /\ \A i \in DOMAIN structs[t].fields : TypesIn(structs[t].fields[i]) \subseteq DOMAIN structs
  <2>. DEFINE one == layout(t)
  <2>1. one.fields \in Seq(FieldDefinitions) /\ structs[t] = CompileLayout(one, structs)
    BY <1>3
  <2>. HIDE DEF one
  <2>2. CompileLayout(one, structs).ok
    BY <1>1, <2>1
  <2>. QED
    BY <1>2, <2>1, <2>2, CompiledLayoutMeasured
<1>. QED
  BY <1>1, <1>2, <1>3, <1>4 DEF structs

\* No struct, however deep others nest in it, decodes in fewer bytes than compiled for.
LEMMA StructsAreSound ==
  ASSUME NEW definition \in Definitions, Compile(definition).ok
  PROVE  \A t \in DOMAIN Compile(definition).structs : Sound(Compile(definition), t)
<1>. DEFINE prot == Compile(definition)  structs == prot.structs
<1>1. /\ DOMAIN structs \subseteq Nat
      /\ \A t \in DOMAIN structs : structs[t].ok /\ structs[t].minimum_size \in Nat
      /\ \A t \in DOMAIN structs : Measured(structs[t], structs)
      /\ \A t \in DOMAIN structs : \A i \in DOMAIN structs[t].fields :
           TypesIn(structs[t].fields[i]) \subseteq DOMAIN structs
      /\ \E rank \in [DOMAIN structs -> DOMAIN structs] :
           \A t \in DOMAIN structs : \A i \in DOMAIN structs[t].fields :
             \A nested \in TypesIn(structs[t].fields[i]) : rank[nested] < rank[t]
  BY StructsAreCompiled
<1>2. PICK rank \in [DOMAIN structs -> DOMAIN structs] :
        \A t \in DOMAIN structs : \A i \in DOMAIN structs[t].fields :
          \A nested \in TypesIn(structs[t].fields[i]) : rank[nested] < rank[t]
  BY <1>1
<1>3. \A t \in DOMAIN structs, bytes \in BoundedSeq(Bytes, MaxFrame) :
        DecodeNested(prot, t, bytes) = AssignFromLayout(prot, structs[t], bytes, TRUE)
  BY NestedAssumption DEF NestedAssumption
<1>. HIDE DEF prot
<1>4. \A t \in DOMAIN structs : rank[t] \in Nat
  BY <1>1, <1>2
<1>5. ASSUME NEW bytes \in Seq(Bytes), Len(bytes) <= MaxFrame
      PROVE  bytes \in BoundedSeq(Bytes, MaxFrame)
  <2>. DEFINE n == Len(bytes)
  <2>1. n \in 0..MaxFrame /\ bytes \in [1..n -> Bytes]
    BY <1>5, CodecAssumption DEF CodecAssumption
  <2>. QED
    BY <2>1 DEF BoundedSeq, SeqOf
<1>. DEFINE S == {m \in Nat : \A t \in DOMAIN structs : rank[t] < m => Sound(prot, t)}
<1>6. 0 \in S
  BY <1>4
<1>7. ASSUME NEW m \in Nat, m \in S PROVE m + 1 \in S
  <2>. SUFFICES ASSUME NEW t \in DOMAIN structs, rank[t] < m + 1 PROVE Sound(prot, t)
    OBVIOUS
  <2>1. \A u \in DOMAIN structs : rank[u] < m => Sound(prot, u)
    BY <1>7
  <2>2. ASSUME NEW i \in DOMAIN structs[t].fields PROVE NestedSound(prot, structs[t].fields[i])
    <3>. SUFFICES ASSUME NEW nested \in TypesIn(structs[t].fields[i]) PROVE Sound(prot, nested)
      BY DEF NestedSound
    <3>1. nested \in DOMAIN structs
      BY <1>1
    <3>2. rank[nested] < rank[t]
      BY <1>2
    <3>3. rank[nested] < m
      BY <1>4, <3>1, <3>2
    <3>. QED
      BY <2>1, <3>1, <3>3
  <2>. DEFINE layout == structs[t]
  <2>3. Measured(layout, prot.structs)
    BY <1>1
  <2>4. \A i \in DOMAIN layout.fields : NestedSound(prot, layout.fields[i])
    BY <2>2
  <2>5. layout.minimum_size \in Nat
    BY <1>1
  <2>. HIDE DEF layout, structs
  <2>6. TakesItsSize(prot, layout)
    BY <2>3, <2>4, MeasuredTakesItsSize
  <2>7. ASSUME NEW bytes \in Seq(Bytes), Len(bytes) <= MaxFrame,
               DecodeNested(prot, t, bytes).status = "ok"
        PROVE  SizeTrue(layout, DecodeNested(prot, t, bytes).consumed, Len(bytes))
    <3>1. DecodeNested(prot, t, bytes) = AssignFromLayout(prot, layout, bytes, TRUE)
      BY <1>3, <1>5, <2>7 DEF layout
    <3>. QED
      BY <2>6, <2>7, <3>1 DEF TakesItsSize
  <2>. QED
    BY <2>5, <2>7 DEF Sound, layout, structs
<1>. HIDE DEF S, structs
<1>8. \A m \in Nat : m \in S
  BY <1>6, <1>7, Induction
<1>9. ASSUME NEW t \in DOMAIN structs PROVE Sound(prot, t)
  <2>1. rank[t] + 1 \in Nat /\ rank[t] < rank[t] + 1
    BY <1>4
  <2>. QED
    BY <1>8, <2>1 DEF S
<1>. QED
  BY <1>9 DEF structs, prot

\* Neither does a message.
LEMMA ProtocolsTakeTheirSizes ==
  ASSUME NEW definition \in Definitions, Compile(definition).ok
  PROVE  LET prot == Compile(definition)
         IN  \A layout \in Range(prot.messages) \cup Range(prot.structs) : TakesItsSize(prot, layout)
<1>. DEFINE prot == Compile(definition)
            structs == CompileStructs(definition)
            messages == [i \in DOMAIN definition.messages |->
                           CompileLayout(definition.messages[i], structs)]
<1>1. prot.structs = structs /\ prot.messages = messages /\ \A i \in DOMAIN messages : messages[i].ok
  BY DEF Compile, Failed
<1>2. /\ \A t \in DOMAIN structs : structs[t].ok /\ structs[t].minimum_size \in Nat
      /\ \A t \in DOMAIN structs : Measured(structs[t], structs)
      /\ \A t \in DOMAIN structs : \A i \in DOMAIN structs[t].fields :
           TypesIn(structs[t].fields[i]) \subseteq DOMAIN structs
  BY StructsAreCompiled
<1>3. \A t \in DOMAIN prot.structs : Sound(prot, t)
  BY StructsAreSound
<1>4. \A i \in DOMAIN definition.messages : definition.messages[i].fields \in Seq(FieldDefinitions)
  BY DefinitionAssumption DEF DefinitionAssumption
<1>. HIDE DEF prot, structs
<1>5. ASSUME NEW layout, Measured(layout, structs),
             \A i \in DOMAIN layout.fields : TypesIn(layout.fields[i]) \subseteq DOMAIN structs
      PROVE  TakesItsSize(prot, layout)
  <2>1. \A i \in DOMAIN layout.fields : NestedSound(prot, layout.fields[i])
    BY <1>1, <1>3, <1>5 DEF NestedSound
  <2>. QED
    BY <1>1, <1>5, <2>1, MeasuredTakesItsSize
<1>6. ASSUME NEW t \in DOMAIN structs PROVE TakesItsSize(prot, structs[t])
  BY <1>2, <1>5
<1>7. ASSUME NEW i \in DOMAIN messages PROVE TakesItsSize(prot, messages[i])
  <2>1. CompileLayout(definition.messages[i], structs).ok
    BY <1>1
  <2>2. definition.messages[i].fields \in Seq(FieldDefinitions)
    BY <1>4
  <2>. DEFINE layout == CompileLayout(definition.messages[i], structs)
  <2>3. /\ Measured(layout, structs)
        /\ \A k \in DOMAIN layout.fields : TypesIn(layout.fields[k]) \subseteq DOMAIN structs
    BY <1>2, <2>1, <2>2, CompiledLayoutMeasured
  <2>4. layout = messages[i]
    OBVIOUS
  <2>. HIDE DEF layout, messages
  <2>. QED
    BY <1>5, <2>3, <2>4
<1>. HIDE DEF messages
<1>8. \A layout \in Range(prot.messages) \cup Range(prot.structs) : TakesItsSize(prot, layout)
  BY <1>1, <1>6, <1>7 DEF Range
<1>. QED
  BY <1>8 DEF prot

\* The inductive invariant: sizes that are true of every frame the process can hold.
SInv ==
  /\ BInv
  /\ \A layout \in Layouts : TakesItsSize(protocol, layout)
  /\ Has(frame) => Len(frame[1]) <= MaxFrame

\* Before there is a frame the sizes are those the compiler computed.
LEMMA InitSized == Init => SInv
<1>. SUFFICES ASSUME Init PROVE SInv
  OBVIOUS
<1>1. PICK d \in Definitions : protocol = Compile(d) /\ Compile(d).ok
  BY DEF Init
<1>2. \A layout \in Layouts : TakesItsSize(protocol, layout)
  BY <1>1, ProtocolsTakeTheirSizes DEF Layouts
<1>. QED
  BY <1>2, InitHoldsBytes DEF SInv, Init, Has

\* A frame sent fits the buffer it was copied to; one received is as long as may come in.
LEMMA StepSized == SInv /\ [Next]_vars => SInv'
<1>. SUFFICES ASSUME SInv, [Next]_vars PROVE SInv'
  OBVIOUS
<1>1. BInv'
  BY StepHoldsBytes DEF SInv
<1>2. UNCHANGED protocol
  BY DEF Next, vars, Building, SetUnsigned, SetSigned, SetFloat, SetBytes, SetString,
         AttachBytes, AttachString, Finalize, Send, Receive
<1>3. (\A layout \in Layouts : TakesItsSize(protocol, layout))'
  BY <1>2 DEF SInv, Layouts, TakesItsSize
<1>4. CASE frame' = frame
  BY <1>1, <1>3, <1>4 DEF SInv
<1>5. CASE Send
  <2>. DEFINE joined == Joined(segmented)  copied == CopyTo(segmented, MaxFrame)
  <2>1. copied.status = "ok" /\ frame' = <<copied.bytes>>
    BY <1>5 DEF Send
  <2>2. joined \in Seq(Bytes)
    BY JoinedType DEF SInv, BInv
  <2>. HIDE DEF joined
  <2>3. copied.bytes = joined /\ ~(MaxFrame < Len(joined))
    BY <2>1 DEF CopyTo, joined
  <2>. HIDE DEF copied
  <2>4. frame'[1] = joined
    BY <2>1, <2>3
  <2>5. Len(joined) <= MaxFrame
    BY <2>2, <2>3, CodecAssumption DEF CodecAssumption
  <2>. QED
    BY <1>1, <1>3, <2>4, <2>5 DEF SInv
<1>6. CASE Receive
  <2>1. PICK bytes \in BoundedSeq(Bytes, MaxFrame) : frame' = <<bytes>>
    BY <1>6 DEF Receive
  <2>2. PICK n \in 0..MaxFrame : bytes \in [1..n -> Bytes]
    BY <2>1 DEF BoundedSeq, SeqOf
  <2>3. Len(bytes) <= MaxFrame
    <3>1. n \in Nat /\ n <= MaxFrame
      BY CodecAssumption DEF CodecAssumption
    <3>2. Len(bytes) = n
      BY <2>2, <3>1
    <3>. QED
      BY <3>1, <3>2
  <2>4. frame'[1] = bytes
    BY <2>1
  <2>. QED
    BY <1>1, <1>3, <2>3, <2>4 DEF SInv
<1>7. frame' = frame \/ Send \/ Receive
  BY DEF Next, vars, Building, SetUnsigned, SetSigned, SetFloat, SetBytes, SetString,
         AttachBytes, AttachString, Finalize
<1>. QED
  BY <1>4, <1>5, <1>6, <1>7

\* The compiled sizes are true of every frame that decodes, built here or received,
\* for every definition: a message or struct takes minimum_size bytes at least, as the
\* count limit of collections supposes, and that many when it is fixed, as the strides
\* of at() do.
THEOREM SizeBoundsAlways == Spec => []SizeBounds
<1>1. SInv => SizeBounds
  <2>. SUFFICES ASSUME SInv, Has(frame), NEW layout \in Layouts,
                       AssignFromLayout(protocol, layout, frame[1], TRUE).status = "ok"
                PROVE  LET decoded == AssignFromLayout(protocol, layout, frame[1], TRUE)
                       IN  /\ decoded.consumed \in layout.minimum_size..Len(frame[1])
                           /\ layout.fixed => decoded.consumed = layout.minimum_size
    BY DEF SizeBounds
  <2>1. PICK bytes \in Seq(Bytes) : frame[1] = bytes
    BY DEF SInv, BInv, Framed, Has
  <2>2. Len(bytes) <= MaxFrame /\ TakesItsSize(protocol, layout)
    BY <2>1 DEF SInv
  <2>. QED
    BY <2>1, <2>2 DEF TakesItsSize, SizeTrue
<1>. QED
  BY InitSized, StepSized, <1>1, PTL DEF Spec

=============================================================================
