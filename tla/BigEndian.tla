------------------------------- MODULE BigEndian -------------------------------
(* Numbers as bytes, most significant first, as the byteorder crate has them. *)
EXTENDS Naturals, Sequences

WriteU16(n) == <<n \div 256, n % 256>>

WriteU24(n) == <<n \div 65536>> \o WriteU16(n % 65536)

WriteU32(n) == <<n \div 16777216>> \o WriteU24(n % 16777216)

\* The number in the w bytes from the i-th on.
RECURSIVE ReadUint(_, _, _)
ReadUint(bytes, i, w) ==
  IF w = 0 THEN 0 ELSE 256 * ReadUint(bytes, i, w - 1) + bytes[i + w - 1]

===============================================================================
