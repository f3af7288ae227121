------------------------------ MODULE TorrentInfo ------------------------------
(***************************************************************************)
(* The description of a torrent (torrent.rs, torrent_id.rs): how the map   *)
(* "info" of a torrent file is read, entry by entry, and how an identifier *)
(* is read from hexadecimal digits.                                        *)
(***************************************************************************)
EXTENDS Naturals, Sequences, SequencesExt

Keys == {"files", "length", "name", "name.utf-8", "piece length", "pieces", "private"}

TorrentIdLength == 20

Chunks(data, n) ==
  [i \in 1..(Len(data) \div n) |-> SubSeq(data, n * (i - 1) + 1, n * i)]

\* Whether a piece length (below 2^31) is a power of two, and which.
Shifts(v) == {s \in 0..30 : v = 2 ^ s}

\* Where each file begins, after the ones before it.
RECURSIVE WithOffsets(_, _)
WithOffsets(files, offset) ==
  IF files = <<>> THEN [files |-> <<>>, length |-> offset]
  ELSE LET others == WithOffsets(Tail(files), offset + Head(files).length)
       IN  [files |-> <<[length |-> Head(files).length, path |-> Head(files).path,
                         global_offset |-> offset]>> \o others.files,
            length |-> others.length]

Value(entries, key) == entries[SelectInSeq(entries, LAMBDA e : e[1] = key)][2]

\* The name in UTF-8 counts, if there is one.
ReadName(entries) ==
  Value(entries, IF \E i \in DOMAIN entries : entries[i][1] = "name.utf-8"
                 THEN "name.utf-8" ELSE "name")

\* visit_map: a key that is unknown or given twice, or a value that is not what
\* it should be, is an error, and so is a missing field; "files" and "length"
\* exclude each other.
DecodeInfo(entries) ==
  LET given == {entries[i][1] : i \in DOMAIN entries}
      value(key) == Value(entries, key)
      files == IF "files" \in given THEN WithOffsets(value("files"), 0)
               ELSE [files |-> <<>>, length |-> value("length")]
      bad == \/ ~(given \subseteq Keys)
             \/ \E i, j \in DOMAIN entries : i # j /\ entries[i][1] = entries[j][1]
             \/ ~({"piece length", "pieces", "name"} \subseteq given)
             \/ "files" \in given <=> "length" \in given
  IN  IF bad THEN [is |-> "error"]
      ELSE IF Shifts(value("piece length")) = {} THEN [is |-> "error"]
      ELSE IF Len(value("pieces")) % TorrentIdLength # 0 \/ value("pieces") = <<>>
      THEN [is |-> "error"]
      ELSE IF "files" \in given /\ (\E i \in DOMAIN value("files") : value("files")[i].path = <<>>)
      THEN [is |-> "error"]
      ELSE [is |-> "ok",
            info |-> [piece_length_shift |-> CHOOSE s \in Shifts(value("piece length")) : TRUE,
                      pieces |-> Chunks(value("pieces"), TorrentIdLength),
                      name |-> ReadName(entries), files |-> files.files,
                      length |-> files.length,
                      private |-> IF "private" \in given THEN {value("private")} ELSE {}]]

\* nibble_from_char; 16 for a character that is no digit
Nibble(c) ==
  IF c \in 48..57 THEN c - 48
  ELSE IF c \in 65..70 THEN c - 55
  ELSE IF c \in 97..102 THEN c - 87
  ELSE 16

\* hex(): two lowercase digits for each byte.
TorrentIdHex(id) ==
  LET digit(n) == IF n < 10 THEN 48 + n ELSE 87 + n
  IN  FlattenSeq([i \in DOMAIN id |-> <<digit(id[i] \div 16), digit(id[i] % 16)>>])

\* from_str, dehex: as many bytes as there are digits for, and no more than an
\* identifier has; what follows is not looked at.
TorrentIdFromStr(text) ==
  LET used == IF Len(text) < 2 * TorrentIdLength THEN <<>>
              ELSE SubSeq(text, 1, 2 * TorrentIdLength)
      n == [i \in DOMAIN used |-> Nibble(used[i])]
  IN  IF Len(used) # 2 * TorrentIdLength \/ (\E i \in DOMAIN n : n[i] = 16)
      THEN [is |-> "error"]
      ELSE [is |-> "ok",
            id |-> [i \in 1..TorrentIdLength |-> 16 * n[2 * i - 1] + n[2 * i]]]

===============================================================================
