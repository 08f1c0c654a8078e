--------------------------- MODULE DecodedMessage ---------------------------
(***************************************************************************)
(* The accessors of a decoded message.  What is nested in it is decoded    *)
(* again when it is asked for.                                             *)
(***************************************************************************)
EXTENDS MessageDecoder

\* Structs nest: a nested layout is decoded as the one around it is.
decode_nested(protocol, type, bytes) ==
  LET layout == protocol.structs[type]
  IN  AssignFromLayout(protocol, layout, bytes, TRUE)

-----------------------------------------------------------------------------
\* The accessors of a decoded message.  One that answers nullopt gives NoValue.

NoValue == [nothing |-> 0]

FieldBytes(message, i) ==
  Slice(message.frame, message.starts[i], message.ends[i] - message.starts[i])

\* get_struct() and get_variant(): the bytes of the field, decoded again.
Nested(protocol, message, i, type) ==
  AssignFromLayout(protocol, protocol.structs[type], FieldBytes(message, i), FALSE)

CollectionCount(layout, message, i) ==
  LET field == layout.fields[i]
  IN  IF Has(field.count_from) THEN message.scalars[field.count_from[1]] ELSE field.count

\* Every element is taken to have the minimum size.
At_Strided(protocol, type, bytes, count, index) ==
  IF index >= count THEN NotDecoded("schema_mismatch")
  ELSE AssignFromLayout(protocol, protocol.structs[type],
                        Rest(bytes, index * protocol.structs[type].minimum_size), TRUE)

\* DecodedCollectionView::at(), from 0.
At(protocol, type, bytes, count, index) ==
  LET element == protocol.structs[type]
      decode(offset) == AssignFromLayout(protocol, element, Rest(bytes, offset), TRUE)
      skip == ElementsSize(protocol, type, bytes, index)
  IN  IF index >= count THEN NotDecoded("schema_mismatch")
      ELSE IF element.fixed THEN decode(index * element.minimum_size)
      ELSE IF skip.status # "ok" THEN NotDecoded(skip.status)
      ELSE decode(skip.size)

\* Everything an application can read from a decoded message, through the
\* accessors alone.
RECURSIVE View(_, _, _)
View(protocol, layout, message) ==
  LET sub(type, nested) == IF nested.status # "ok" THEN NoValue
                           ELSE [fields |-> View(protocol, protocol.structs[type], nested)]
      value(i) ==
        LET field == layout.fields[i]
            count == CollectionCount(layout, message, i)
            type == field.cases[FindVariantCase(field, message.scalars[field.tag_from[1]])].type
        IN  CASE field.kind = "signed" -> [number |-> SignExtend(message.scalars[i], field.width)]
              [] IsScalar(field) -> [number |-> message.scalars[i]]
              [] IsText(field) -> [bytes |-> FieldBytes(message, i)]
              [] field.kind = "struct" ->
                   sub(field.type, Nested(protocol, message, i, field.type))
              [] field.kind = "collection" ->
                   [elements |-> [k \in 1..count |->
                      sub(field.type, At(protocol, field.type, FieldBytes(message, i),
                                         count, k - 1))]]
              [] OTHER -> sub(type, Nested(protocol, message, i, type))
  IN  [i \in DOMAIN message.starts |-> value(i)]

=============================================================================
