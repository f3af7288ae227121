------------------------------- MODULE Tokenizer -------------------------------
(***************************************************************************)
(* The tokenizer of the bencode crate (lib.rs): it is given the bytes in   *)
(* pieces, and returns the next node or how many more bytes it needs.      *)
(* Bytes that a node was cut in wait in "scratch", whose first scratch_    *)
(* offset bytes are used up; the rest of the piece is "data".              *)
(*                                                                         *)
(* A result is a record, as in PeerWire: "ok", "incomplete", "error" or    *)
(* "panic".                                                                *)
(***************************************************************************)
EXTENDS Integers, Sequences, SequencesExt

Digits == 48..57

Colon == 58

Minus == 45

\* The bytes d, e, i and l.
DictionaryStart == 100

ContainerEnd == 101

IntegerStart == 105

ArrayStart == 108

Node(kind, bytes) == [kind |-> kind, bytes |-> bytes]

Token(n, node) == [is |-> "ok", used |-> n, node |-> node]

More(n) == [is |-> "incomplete", need |-> n]

Panics == [is |-> "panic"]

\* The number that decimal digits stand for.
RECURSIVE DecimalValue(_)
DecimalValue(digits) ==
  IF digits = <<>> THEN 0
  ELSE 10 * DecimalValue(Front(digits)) + Last(digits) - 48

\* check_is_digits returns what it checked: the text without its minus sign.
WithoutSign(text) == IF text # <<>> /\ Head(text) = Minus THEN Tail(text) ELSE text

AreDigits(text) == \A i \in DOMAIN text : text[i] \in Digits

\* The place of the first such byte; 0 if there is none.
IndexOf(data, byte) == SelectInSeq(data, LAMBDA x : x = byte)

IntegerOf(end, text) ==
  IF AreDigits(text) THEN Token(end, Node("integer", text)) ELSE Panics

IntegerToken(data, end) ==
  IF end = 0 THEN More(1) ELSE IntegerOf(end, WithoutSign(SubSeq(data, 2, end - 1)))

BytesOf(data, colon, length) ==
  IF Len(data) < colon + length THEN More(colon + length - Len(data))
  ELSE Token(colon + length, Node("bytes", SubSeq(data, colon + 1, colon + length)))

BytesToken(data, colon) ==
  IF colon = 0 THEN More(1)
  ELSE IF ~AreDigits(SubSeq(data, 1, colon - 1)) THEN Panics
  ELSE BytesOf(data, colon, DecimalValue(SubSeq(data, 1, colon - 1)))

\* parse_next_item, of at least one byte
ParseNextItem(data) ==
  CASE Head(data) = DictionaryStart -> Token(1, Node("dictionary", <<>>))
    [] Head(data) = ArrayStart -> Token(1, Node("array", <<>>))
    [] Head(data) = ContainerEnd -> Token(1, Node("end", <<>>))
    [] Head(data) = IntegerStart -> IntegerToken(data, IndexOf(data, ContainerEnd))
    [] Head(data) \in Digits -> BytesToken(data, IndexOf(data, Colon))
    [] OTHER -> Panics

-------------------------------------------------------------------------------
(* The buffer. cap is the capacity of the scratch vector: a vector of bytes  *)
(* that must grow doubles it, or takes what is asked for, and never less     *)
(* than 8.                                                                   *)

NewTokenizer(data) == [scratch |-> <<>>, scratch_offset |-> 0, cap |-> 0, data |-> data]

Extend(tz, bytes) ==
  LET len == Len(tz.scratch) + Len(bytes)
  IN  [tz EXCEPT !.scratch = @ \o bytes,
                 !.cap = IF len <= @ THEN @ ELSE CHOOSE c \in {2 * @, len, 8} :
                                                   \A d \in {2 * @, len, 8} : d <= c]

\* Mutant of AddData: what is left of the piece before is forgotten.
AddDataForgets(tz, data) == [tz EXCEPT !.data = data]

\* add_data
AddData(tz, data) == [Extend(tz, tz.data) EXCEPT !.data = data]

\* fixup_scratch copies over the used bytes as many as there were of those.
FixupScratch(tz) ==
  LET split == tz.scratch_offset
      valid == Len(tz.scratch) - split
      moved == [i \in DOMAIN tz.scratch |->
                  IF i <= split /\ i <= valid THEN tz.scratch[split + i] ELSE tz.scratch[i]]
  IN  IF tz.cap \div 2 < split
      THEN [tz EXCEPT !.scratch = SubSeq(moved, 1, valid), !.scratch_offset = 0]
      ELSE tz

Taken(tz, n) ==
  [Extend(tz, SubSeq(tz.data, 1, n)) EXCEPT !.data = SubSeq(tz.data, n + 1, Len(tz.data))]

Unused(tz) == SubSeq(tz.scratch, tz.scratch_offset + 1, Len(tz.scratch))

Result(tz, r) == [tz |-> tz, result |-> r]

\* next(false): the token, and the tokenizer after it. What waits in the scratch
\* buffer comes first.
RECURSIVE NextToken(_)

FromScratch(tz, r) ==
  CASE r.is = "ok" -> Result([tz EXCEPT !.scratch_offset = @ + r.used], r)
    [] r.is = "incomplete" /\ r.need <= Len(tz.data) -> NextToken(Taken(tz, r.need))
    [] OTHER -> Result(tz, r)

FromData(tz, r) ==
  CASE r.is = "ok" -> Result([tz EXCEPT !.data = SubSeq(@, r.used + 1, Len(@))], r)
    [] r.is = "incomplete" -> Result(Taken(tz, Len(tz.data)), r)
    [] OTHER -> Result(tz, r)

NextFixed(tz) ==
  IF Unused(tz) # <<>> THEN FromScratch(tz, ParseNextItem(Unused(tz)))
  ELSE IF tz.data = <<>> THEN Result(tz, More(1))
  ELSE FromData(tz, ParseNextItem(tz.data))

NextToken(tz) == NextFixed(FixupScratch(tz))

===============================================================================
