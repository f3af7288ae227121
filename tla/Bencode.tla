-------------------------------- MODULE Bencode --------------------------------
(***************************************************************************)
(* The bencode crate's serializer and deserializer (ser/mod.rs, value.rs   *)
(* and the Deserializer of lib.rs). A value is tagged with what it is, a   *)
(* shape says which type the reader asks for; "any" is the crate's Value.  *)
(***************************************************************************)
EXTENDS Tokenizer, TLC

Number(n) == [is |-> "int", n |-> n]

Bool(b) == [is |-> "bool", b |-> b]

ByteString(b) == [is |-> "bytes", bytes |-> b]

Array(items) == [is |-> "array", items |-> items]

\* A map or a structure: its entries <<key, value>>, in the order of the keys.
Dict(entries) == [is |-> "dict", entries |-> entries]

\* The fields of a structure variant, which are written as they are declared.
Fields(entries) == [is |-> "fields", entries |-> entries]

\* A variant of an enumeration, alone or with its content.
UnitVariant(name) == [is |-> "unit", name |-> name]

Variant(name, content) == [is |-> "variant", name |-> name, content |-> content]

\* Keys are compared byte by byte.
KeyBefore(a, b) ==
  \/ IsStrictPrefix(a, b)
  \/ \E i \in DOMAIN a \cap DOMAIN b :
       a[i] < b[i] /\ SubSeq(a, 1, i - 1) = SubSeq(b, 1, i - 1)

SortedByKey(entries) == SortSeq(entries, LAMBDA e, f : KeyBefore(e[1], f[1]))

-------------------------------------------------------------------------------
(* The serializer *)

RECURSIVE Decimal(_)
Decimal(n) == IF n < 10 THEN <<48 + n>> ELSE Append(Decimal(n \div 10), 48 + (n % 10))

WriteInt(n) ==
  <<IntegerStart>> \o (IF n < 0 THEN <<Minus>> \o Decimal(-n) ELSE Decimal(n))
    \o <<ContainerEnd>>

WriteBytes(b) == Decimal(Len(b)) \o <<Colon>> \o b

Inside(open, parts) == <<open>> \o FlattenSeq(parts) \o <<ContainerEnd>>

\* A sequence or a tuple, a map or a structure, a variant; with the bytes of
\* what is in them.
WriteSeq(items) == Inside(ArrayStart, items)

WriteFields(entries) ==
  Inside(DictionaryStart, [i \in DOMAIN entries |-> WriteBytes(entries[i][1]) \o entries[i][2]])

WriteMap(entries) == WriteFields(SortedByKey(entries))

WriteVariant(name, content) == WriteFields(<< <<name, content>> >>)

RECURSIVE ToBytes(_)
ToBytes(v) ==
  LET entries == [i \in DOMAIN v.entries |-> <<v.entries[i][1], ToBytes(v.entries[i][2])>>]
  IN  CASE v.is = "int" -> WriteInt(v.n)
        [] v.is = "bool" -> WriteInt(IF v.b THEN 1 ELSE 0)
        [] v.is = "bytes" -> WriteBytes(v.bytes)
        [] v.is = "array" -> WriteSeq([i \in DOMAIN v.items |-> ToBytes(v.items[i])])
        [] v.is = "dict" -> WriteMap(entries)
        [] v.is = "fields" -> WriteFields(entries)
        [] v.is = "unit" -> WriteBytes(v.name)
        [] v.is = "variant" -> WriteVariant(v.name, ToBytes(v.content))

-------------------------------------------------------------------------------
(* The deserializer. It takes its tokens from the front of the data; what it *)
(* returns is the value and the data after it, or why there is none.         *)

BadToken == [is |-> "error"]

Read(value, rest) == [is |-> "ok", value |-> value, rest |-> rest]

\* The first token of the data, and what follows it; a token that is cut is an
\* error here.
TokenOf(r, data) ==
  CASE r.is = "ok" -> [is |-> "ok", node |-> r.node, rest |-> SubSeq(data, r.used + 1, Len(data))]
    [] r.is = "incomplete" -> BadToken
    [] OTHER -> r

Peeked(data) == IF data = <<>> THEN BadToken ELSE TokenOf(ParseNextItem(data), data)

\* The container that the reader is in must end here (expect_assert).
Closed(value, t) ==
  IF t.is # "ok" THEN t
  ELSE IF t.node.kind # "end" THEN Panics
  ELSE Read(value, t.rest)

Numeric(text, rest) == IF text = <<>> THEN Panics ELSE Read(Number(DecimalValue(text)), rest)

\* A structure, or the fields of a structure variant.
Named(shape) == shape.is \in {"struct", "fields"}

FieldShape(shape, key) ==
  IF Named(shape) /\ key \in DOMAIN shape.fields THEN shape.fields[key] ELSE [is |-> "any"]

RECURSIVE DecodeToken(_, _)
RECURSIVE DecodeItems(_, _, _)
RECURSIVE DecodeEntries(_, _, _)

Decode(shape, data) == DecodeToken(shape, Peeked(data))

\* The elements of an array until its end; t is the token that is next.
WithItem(shape, items, r) ==
  IF r.is # "ok" THEN r ELSE DecodeItems(shape, Append(items, r.value), Peeked(r.rest))

DecodeItems(shape, items, t) ==
  IF t.is # "ok" THEN t
  ELSE IF t.node.kind = "end" THEN Closed(Array(items), t)
  ELSE WithItem(shape, items, DecodeToken(shape, t))

\* A key given twice counts the last time (BTreeMap::insert). The keys that a
\* structure does not name are read and dropped.
WithEntry(shape, entries, key, value) ==
  IF Named(shape) /\ key \notin DOMAIN shape.fields THEN entries
  ELSE Append(SelectSeq(entries, LAMBDA e : e[1] # key), <<key, value>>)

\* The map as a whole; a structure must have all of its fields.
Whole(shape, entries, t) ==
  IF Named(shape) /\ {e[1] : e \in ToSet(entries)} # DOMAIN shape.fields
  THEN BadToken
  ELSE Closed(IF shape.is = "fields" THEN Fields(SortedByKey(entries))
              ELSE Dict(SortedByKey(entries)), t)

AfterEntry(shape, entries, key, r) ==
  IF r.is # "ok" THEN r
  ELSE DecodeEntries(shape, WithEntry(shape, entries, key, r.value), Peeked(r.rest))

\* The entries of a map until its end; its keys are byte strings.
DecodeEntries(shape, entries, t) ==
  IF t.is # "ok" THEN t
  ELSE IF t.node.kind = "end" THEN Whole(shape, entries, t)
  ELSE IF t.node.kind # "bytes" THEN BadToken
  ELSE IF Named(shape) /\ t.node.bytes \in {e[1] : e \in ToSet(entries)}
  THEN Panics
  ELSE AfterEntry(shape, entries, t.node.bytes,
                  Decode(FieldShape(shape, t.node.bytes), t.rest))

\* The content of a variant, and the end of the dictionary that it is in.
Content(name, r) ==
  IF r.is # "ok" THEN r ELSE Closed(Variant(name, r.value), Peeked(r.rest))

DecodeVariant(shape, name) ==
  IF name.is # "ok" THEN name
  ELSE IF name.node.kind # "bytes" THEN Panics
  ELSE IF name.node.bytes \notin DOMAIN shape.variants THEN Panics
  ELSE Content(name.node.bytes, Decode(shape.variants[name.node.bytes], name.rest))

\* deserialize_enum: a name alone, or a dictionary of the name and the content.
DecodeEnum(shape, t) ==
  CASE t.node.kind = "bytes" -> Read(UnitVariant(t.node.bytes), t.rest)
    [] t.node.kind = "dictionary" -> DecodeVariant(shape, Peeked(t.rest))
    [] t.node.kind = "end" -> Panics
    [] OTHER -> BadToken

\* The kinds of token that each shape insists on.
Expected ==
  [int |-> {"integer"}, bool |-> {"integer"}, bytes |-> {"bytes"},
   array |-> {"array"}, struct |-> {"dictionary"}, fields |-> {"dictionary"},
   enum |-> {"bytes", "dictionary", "array", "integer", "end"},
   any |-> {"integer", "bytes", "array", "dictionary"}]

\* deserialize_any and the like, from the first token on.
DecodeToken(shape, t) ==
  IF t.is # "ok" THEN t
  ELSE IF t.node.kind \notin Expected[shape.is] THEN Panics
  ELSE IF shape.is = "enum" THEN DecodeEnum(shape, t)
  ELSE IF shape.is = "bool"
  THEN IF t.node.bytes \notin {<<48>>, <<49>>} THEN Panics
       ELSE Read(Bool(t.node.bytes = <<49>>), t.rest)
  ELSE CASE t.node.kind = "integer" -> Numeric(t.node.bytes, t.rest)
         [] t.node.kind = "bytes" -> Read(ByteString(t.node.bytes), t.rest)
         [] t.node.kind = "array" ->
              DecodeItems(IF shape.is = "array" THEN shape.of ELSE [is |-> "any"], <<>>,
                          Peeked(t.rest))
         [] t.node.kind = "dictionary" -> DecodeEntries(shape, <<>>, Peeked(t.rest))

\* from_bytes: nothing may follow the value.
AllOf(r) == IF r.is = "ok" /\ r.rest # <<>> THEN BadToken ELSE r

FromBytes(shape, data) == AllOf(Decode(shape, data))

===============================================================================
