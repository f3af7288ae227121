--------------------------------- MODULE Ksuid ---------------------------------
(***************************************************************************)
(* The identifiers of sessions and requests (the ksuid crate): four bytes  *)
(* of time and a payload, written in base 62 or in hexadecimal. The        *)
(* lengths are constants, so that shorter identifiers can be enumerated;   *)
(* the crate has 20 bytes, and 27 characters for them.                     *)
(***************************************************************************)
EXTENDS Naturals, Sequences, SequencesExt

CONSTANTS IdLen, Base62Len

\* The characters 0-9, A-Z and a-z, in the order of their codes.
CharMap ==
  [i \in 0..61 |-> IF i < 10 THEN 48 + i ELSE IF i < 36 THEN 65 + i - 10 ELSE 97 + i - 36]

\* b62_to_bin
ByteMap == [c \in {CharMap[i] : i \in 0..61} |-> CHOOSE i \in 0..61 : CharMap[i] = c]

\* One round of the long division in change_base: what is left of the number
\* without its leading zeroes, and the remainder.
RECURSIVE Divide(_, _, _, _, _)
Divide(num, quotient, rem, in, out) ==
  LET acc == Head(num) + in * rem
      div == acc \div out
  IN  IF num = <<>> THEN [num |-> quotient, rem |-> rem]
      ELSE Divide(Tail(num),
                  IF quotient = <<>> /\ div = 0 THEN <<>> ELSE Append(quotient, div),
                  acc % out, in, out)

\* change_base, from the last digit of the result to the first; "panic" if
\* the result is longer than its buffer.
RECURSIVE ChangeBase(_, _, _, _, _)
ChangeBase(num, result, len, in, out) ==
  LET step == Divide(num, <<>>, 0, in, out)
  IN  IF num = <<>>
      THEN [is |-> "ok", digits |-> [i \in 1..(len - Len(result)) |-> 0] \o result]
      ELSE IF Len(result) = len THEN [is |-> "panic"]
      ELSE ChangeBase(step.num, <<step.rem>> \o result, len, in, out)

\* Mutant of ToBase62: the zeroes in front are dropped.
ToBase62Short(id) ==
  LET digits == ChangeBase(id, <<>>, Base62Len, 256, 62).digits
      first == SelectInSeq(digits, LAMBDA d : d # 0)
      tail == IF first = 0 THEN <<>> ELSE SubSeq(digits, first, Len(digits))
  IN  [i \in DOMAIN tail |-> CharMap[tail[i]]]

\* to_base62, encode_raw
ToBase62(id) ==
  LET digits == ChangeBase(id, <<>>, Base62Len, 256, 62).digits
  IN  [i \in DOMAIN digits |-> CharMap[digits[i]]]

\* The order of byte strings.
Before(a, b) ==
  \/ IsStrictPrefix(a, b)
  \/ \E i \in DOMAIN a \cap DOMAIN b :
       a[i] < b[i] /\ SubSeq(a, 1, i - 1) = SubSeq(b, 1, i - 1)

MaxBase62 == ToBase62([i \in 1..IdLen |-> 255])

\* from_base62, decode_raw
FromBase62(text) ==
  LET digits == [i \in DOMAIN text |-> ByteMap[text[i]]]
  IN  IF Len(text) # Base62Len \/ Before(MaxBase62, text) THEN [is |-> "error"]
      ELSE IF \E i \in DOMAIN text : text[i] \notin DOMAIN ByteMap THEN [is |-> "error"]
      ELSE ChangeBase(digits, <<>>, IdLen, 62, 256)

HexDigits == [i \in 0..15 |-> IF i < 10 THEN 48 + i ELSE 65 + i - 10]

\* to_hex
ToHex(id) ==
  FlattenSeq([i \in DOMAIN id |-> <<HexDigits[id[i] \div 16], HexDigits[id[i] % 16]>>])

\* hex_digit takes both cases.
HexDigit(c) ==
  LET places == {i \in 0..15 : HexDigits[i] = c \/ (i > 9 /\ HexDigits[i] + 32 = c)}
  IN  IF places = {} THEN 16 ELSE CHOOSE i \in places : TRUE

\* from_hex
FromHex(text) ==
  LET n == [i \in DOMAIN text |-> HexDigit(text[i])]
  IN  IF Len(text) # 2 * IdLen \/ (\E i \in DOMAIN n : n[i] = 16) THEN [is |-> "error"]
      ELSE [is |-> "ok", digits |-> [i \in 1..IdLen |-> 16 * n[2 * i - 1] + n[2 * i]]]

===============================================================================
