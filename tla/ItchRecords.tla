---------------------------- MODULE ItchRecords -----------------------------
(***************************************************************************)
(* decode() on every record with a few bytes that are not zero: the record *)
(* grows and shrinks, and its bytes change one at a time.                  *)
(***************************************************************************)
EXTENDS ItchCodec

CONSTANTS
  ByteValues,    \* what a byte of the record may become
  MaxNonzero,    \* how many bytes behind the first are not zero at most
  MaxExtra       \* how many bytes longer than wire_length a record gets

ASSUME RecordsAssumption ==
  /\ ByteValues \subseteq 0 .. ByteSpan - 1
  /\ MaxNonzero \in Nat /\ MaxExtra \in Nat

VARIABLE raw     \* the record given to decode()

Nonzero(r) == {i \in 2 .. Len(r) : r[i] # 0}

(* The length a record of its type needs; 1 for an unsupported type. *)
Needed(r) == Max({1, wire_length(TypeOf(r[1]))})

RecordInit == raw = <<>>

Begin(b) == raw = <<>> /\ raw' = <<b>>

SetByte(i, b) ==
  /\ i \in 2 .. Len(raw)
  /\ raw' = [raw EXCEPT ![i] = b]
  /\ Cardinality(Nonzero(raw')) <= MaxNonzero

Lengthen ==
  /\ raw # <<>> /\ Nonzero(raw) = {}
  /\ Len(raw) < Needed(raw) + MaxExtra
  /\ raw' = Append(raw, 0)

Shorten ==
  /\ raw # <<>> /\ Nonzero(raw) = {}
  /\ raw' = SubSeq(raw, 1, Len(raw) - 1)

RecordNext ==
  \/ \E b \in ByteValues \cup {Letter[t] : t \in MessageTypes} : Begin(b)
  \/ \E i \in 2 .. Len(raw), b \in ByteValues : SetByte(i, b)
  \/ Lengthen
  \/ Shorten

RecordSpec == RecordInit /\ [][RecordNext]_raw

-----------------------------------------------------------------------------
Decoded(r) == decode(r) # NoMessage

(* Decoding reads no byte that is not there: what decode() lets through is *)
(* long enough for every offset that the type's decoder uses, however the  *)
(* record was cut, so wire_length and the offsets never disagree.          *)
ReadsInside ==
  raw # <<>> /\ accepts(TypeOf(raw[1]), Len(raw)) =>
    \A f \in Fields(TypeOf(raw[1])) :
      LET at == FieldsAt(TypeOf(raw[1]))[f]
      IN  at[1] >= 1 /\ at[1] + at[2] <= Len(raw)

(* Every byte behind the type belongs to exactly one field: changing one   *)
(* byte of a record changes exactly one member of the decoded message, so  *)
(* no two fields overlap and no byte is ignored; bytes past wire_length    *)
(* change nothing.                                                         *)
OneByteOneField ==
  [][raw' # raw /\ Len(raw') = Len(raw) /\ Decoded(raw) =>
       LET type    == TypeOf(raw[1])
           byte    == CHOOSE i \in 1 .. Len(raw) : raw[i] # raw'[i]
           changed == {f \in Fields(type) : decode(raw)[f] # decode(raw')[f]}
       IN  Cardinality(changed) = IF byte <= wire_length(type) THEN 1 ELSE 0]_raw
=============================================================================
