---------------------------- MODULE ArtifactStore ----------------------------
(***************************************************************************)
(* Fetching an executable (start_daemon/mod.rs find_artifact, the          *)
(* ExecutableFactory of platform/ and the memfd crate): the response is    *)
(* written into a sealed in-memory file as it arrives and hashed on the    *)
(* way; the file is used if the hash is the manifest's.                    *)
(*                                                                         *)
(* A hash is the bytes that were hashed. The server may send anything. A   *)
(* body that ends before its Content-Length is an error of the stream.     *)
(***************************************************************************)
EXTENDS Naturals, Sequences, SequencesExt

CONSTANTS
  Triples,         \* PLATFORM_TRIPLES
  Manifests,       \* triple -> the bytes whose hash the manifest has
  ImageTypes,
  Bodies,          \* what the server may send
  MaxArtifactSize

ASSUME BodiesAssumption == Bodies \subseteq Seq(Nat)

VARIABLES
  artifacts,       \* the manifest's
  image_type,
  body,            \* of the response, as far as it has not arrived
  storage,         \* the file: [written, capacity]
  hashed,          \* what the hasher has been given
  fetch,           \* "start", "writing", "ready" or why it failed
  short            \* some write took less than it was given

storeVars == <<artifacts, image_type, body, storage, hashed, fetch, short>>

StoreInit ==
  /\ artifacts \in Manifests
  /\ image_type \in ImageTypes
  /\ body \in Bodies
  /\ storage = [written |-> <<>>, capacity |-> 0]
  /\ hashed = <<>>
  /\ fetch = "start"
  /\ short = FALSE

\* The platforms that the manifest has an artifact for; the first counts.
Supported == {i \in DOMAIN Triples : Triples[i] \in DOMAIN artifacts}

Expected == artifacts[Triples[Min(Supported)]]

\* Why nothing is written, if so; the checks in their order.
Rejected(hasLength) ==
  IF Supported = {} THEN "platform not supported"
  ELSE IF ~hasLength THEN "no content-length"
  ELSE IF Len(body) > MaxArtifactSize THEN "artifact too large"
  ELSE IF image_type # "executable" THEN "artifact type unsupported"
  ELSE "no"

\* The request is answered. The file gets the response's length and can neither
\* grow nor shrink from then on.
Respond ==
  /\ fetch = "start"
  /\ \E hasLength \in BOOLEAN :
       IF Rejected(hasLength) # "no"
       THEN fetch' = Rejected(hasLength) /\ UNCHANGED storage
       ELSE fetch' = "writing" /\ storage' = [storage EXCEPT !.capacity = Len(body)]
  /\ UNCHANGED <<artifacts, image_type, body, hashed, short>>

\* Mutant of HashUpdate: all that was to be written is hashed.
HashUpdateAll(data, written) == hashed \o data

HashUpdate(data, written) == hashed \o SubSeq(data, 1, written)

\* A piece of the body arrives and is written, once: what a short write leaves
\* is dropped.
Write ==
  /\ fetch = "writing"
  /\ \E n \in 1..Len(body), written \in 1..Len(body) :
       LET data == SubSeq(body, 1, n)
       IN  /\ written <= n
           /\ Len(storage.written) + written <= storage.capacity
           /\ storage' = [storage EXCEPT !.written = @ \o SubSeq(data, 1, written)]
           /\ hashed' = HashUpdate(data, written)
           /\ body' = SubSeq(body, n + 1, Len(body))
           /\ short' = (short \/ written < n)
  /\ UNCHANGED <<artifacts, image_type, fetch>>

\* The connection or a write fails.
StreamFails ==
  /\ fetch \in {"start", "writing"}
  /\ fetch' = "io error"
  /\ UNCHANGED <<artifacts, image_type, body, storage, hashed, short>>

\* validate_hash and finalize_executable
Finalize ==
  /\ fetch = "writing"
  /\ body = <<>>
  /\ fetch' = IF hashed = Expected THEN "ready" ELSE "hash mismatch"
  /\ UNCHANGED <<artifacts, image_type, body, storage, hashed, short>>

StoreNext == Respond \/ Write \/ StreamFails \/ Finalize

StoreSpec == StoreInit /\ [][StoreNext]_storeVars

-------------------------------------------------------------------------------

\* The file's bytes: what was not written is zero.
Content ==
  storage.written \o [i \in 1..(storage.capacity - Len(storage.written)) |-> 0]

\* Safety: an executable that is handed out is the manifest's artifact for this
\* platform, byte for byte: lost bytes are found out by the hash. Only zeros may
\* follow it, and these only if a write was short.
ExecutableIsArtifact ==
  fetch = "ready" => /\ IsPrefix(Expected, Content)
                     /\ ~short => Content = Expected

===============================================================================
