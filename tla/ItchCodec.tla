----------------------------- MODULE ItchCodec ------------------------------
(***************************************************************************)
(* The bytes of ITCH records: the decoder (itch/decode.cpp), which reads   *)
(* each field at a fixed offset, and the encoder (the append_* functions   *)
(* and the messages generate() builds with them in itch/synth.cpp), which  *)
(* appends one field after the other.                                      *)
(*                                                                         *)
(* A record is a sequence of bytes, raw[1] the first; a byte is a number   *)
(* below ByteSpan.  A decoded message is a record with its type and one    *)
(* member per field, numbers for integers and single characters, sequences *)
(* of bytes for texts.  The zero attribution of an 'A' message is left out.*)
(***************************************************************************)
EXTENDS ItchTypes, Sequences, FiniteSets, FiniteSetsExt

CONSTANTS
  ByteSpan,    \* number of values of a byte (256)
  Letter,      \* the byte of each message type (enum class MessageType)
  Space        \* the byte ' '

ASSUME CodecAssumption ==
  /\ ByteSpan \in Nat /\ ByteSpan > 1
  /\ Letter \in [MessageTypes -> 0 .. ByteSpan - 1]
  /\ \A t, u \in MessageTypes : Letter[t] = Letter[u] => t = u
  /\ Space \in 0 .. ByteSpan - 1

SeqExt == INSTANCE SequencesExt

NoMessage == [type |-> "nullopt"]

-----------------------------------------------------------------------------
(* read_u16_be, read_u32_be, read_u48_be, read_u64_be and read_char. *)
read_be(raw, offset, width) ==
  LET value[k \in 0 .. width] ==
        IF k = 0 THEN 0 ELSE value[k - 1] * ByteSpan + raw[offset + k]
  IN  value[width]

read_chars(raw, offset, width) == SubSeq(raw, offset + 1, offset + width)

(* append_u16, append_u32, append_u48, append_u64, append_char and         *)
(* write_u16_be: the low bytes of v, high one first.                       *)
append_be(v, width) ==
  LET shifted[n \in 0 .. width] ==
        IF n = 0 THEN v ELSE shifted[n - 1] \div ByteSpan
  IN  [k \in 1 .. width |-> shifted[width - k] % ByteSpan]

append_str_padded(s, width) ==
  [i \in 1 .. width |-> IF i <= Len(s) THEN s[i] ELSE Space]

-----------------------------------------------------------------------------
(* The decoder: where each field is read, as <<offset, width>>. *)

TextFields == {"stock", "issue_subtype", "attribution"}

HeaderAt ==
  [stock_locate |-> <<1, 2>>, tracking_number |-> <<3, 2>>, timestamp |-> <<5, 6>>]

(* Mutant: the last indicator is read one byte early. *)
StockDirectoryAt_indicator_early ==
  [stock |-> <<11, 8>>, market_category |-> <<19, 1>>,
   financial_status_indicator |-> <<20, 1>>, round_lot_size |-> <<21, 4>>,
   round_lots_only |-> <<25, 1>>, issue_classification |-> <<26, 1>>,
   issue_subtype |-> <<27, 2>>, authenticity |-> <<29, 1>>,
   short_sale_threshold_indicator |-> <<30, 1>>, ipo_flag |-> <<31, 1>>,
   luld_reference_price_tier |-> <<32, 1>>, etp_flag |-> <<33, 1>>,
   etp_leverage_factor |-> <<34, 4>>, inverse_indicator |-> <<37, 1>>]

StockDirectoryAt ==
  [stock |-> <<11, 8>>, market_category |-> <<19, 1>>,
   financial_status_indicator |-> <<20, 1>>, round_lot_size |-> <<21, 4>>,
   round_lots_only |-> <<25, 1>>, issue_classification |-> <<26, 1>>,
   issue_subtype |-> <<27, 2>>, authenticity |-> <<29, 1>>,
   short_sale_threshold_indicator |-> <<30, 1>>, ipo_flag |-> <<31, 1>>,
   luld_reference_price_tier |-> <<32, 1>>, etp_flag |-> <<33, 1>>,
   etp_leverage_factor |-> <<34, 4>>, inverse_indicator |-> <<38, 1>>]

AddOrderAt ==
  [order_reference_number |-> <<11, 8>>, buy_sell_indicator |-> <<19, 1>>,
   shares |-> <<20, 4>>, stock |-> <<24, 8>>, price |-> <<32, 4>>]

OrderExecutedAt ==
  [order_reference_number |-> <<11, 8>>, executed_shares |-> <<19, 4>>,
   match_number |-> <<23, 8>>]

OrderCancelAt == [order_reference_number |-> <<11, 8>>, cancelled_shares |-> <<19, 4>>]

OrderReplaceAt ==
  [original_order_reference_number |-> <<11, 8>>,
   new_order_reference_number |-> <<19, 8>>, shares |-> <<27, 4>>,
   price |-> <<31, 4>>]

(* The table f with more entries. *)
And(f, g) == [x \in DOMAIN f \cup DOMAIN g |-> IF x \in DOMAIN g THEN g[x] ELSE f[x]]

PayloadAt(type) ==
  CASE type = "SystemEvent"            -> [event_code |-> <<11, 1>>]
    [] type = "StockDirectory"         -> StockDirectoryAt
    [] type = "AddOrder"               -> AddOrderAt
    [] type = "AddOrderMPID"           -> And(AddOrderAt, [attribution |-> <<36, 4>>])
    [] type = "OrderExecuted"          -> OrderExecutedAt
    [] type = "OrderExecutedWithPrice" ->
         And(OrderExecutedAt, [printable |-> <<31, 1>>, execution_price |-> <<32, 4>>])
    [] type = "OrderCancel"            -> OrderCancelAt
    [] type = "OrderDelete"            -> [order_reference_number |-> <<11, 8>>]
    [] type = "OrderReplace"           -> OrderReplaceAt
    [] type = "Trade"                  -> And(AddOrderAt, [match_number |-> <<36, 8>>])

FieldsAt(type) == And(HeaderAt, PayloadAt(type))

Fields(type) == DOMAIN FieldsAt(type)

(* The type whose letter is b, if decode() knows it. *)
TypeOf(b) ==
  IF \E t \in MessageTypes : Letter[t] = b
  THEN CHOOSE t \in MessageTypes : Letter[t] = b
  ELSE "unsupported"

ReadField(raw, field, at) ==
  IF field \in TextFields
  THEN read_chars(raw, at[field][1], at[field][2])
  ELSE read_be(raw, at[field][1], at[field][2])

decode(raw) ==
  IF raw = <<>> \/ ~accepts(TypeOf(raw[1]), Len(raw))
  THEN NoMessage
  ELSE LET type == TypeOf(raw[1])
       IN  And([type |-> type],
               [f \in Fields(type) |-> ReadField(raw, f, FieldsAt(type))])

-----------------------------------------------------------------------------
(* The encoder: the fields in the order they are appended, with the width. *)

StockDirectoryAppends ==
  <<<<"stock", 8>>, <<"market_category", 1>>, <<"financial_status_indicator", 1>>,
    <<"round_lot_size", 4>>, <<"round_lots_only", 1>>, <<"issue_classification", 1>>,
    <<"issue_subtype", 2>>, <<"authenticity", 1>>,
    <<"short_sale_threshold_indicator", 1>>, <<"ipo_flag", 1>>,
    <<"luld_reference_price_tier", 1>>, <<"etp_flag", 1>>,
    <<"etp_leverage_factor", 4>>, <<"inverse_indicator", 1>>>>

AddOrderAppends ==
  <<<<"order_reference_number", 8>>, <<"buy_sell_indicator", 1>>,
    <<"shares", 4>>, <<"stock", 8>>, <<"price", 4>>>>

(* generate() builds every type but OrderExecutedWithPrice. *)
Appends(type) ==
  CASE type = "SystemEvent"    -> <<<<"event_code", 1>>>>
    [] type = "StockDirectory" -> StockDirectoryAppends
    [] type = "AddOrder"       -> AddOrderAppends
    [] type = "AddOrderMPID"   -> AddOrderAppends \o <<<<"attribution", 4>>>>
    [] type = "OrderExecuted"  -> <<<<"order_reference_number", 8>>,
                                    <<"executed_shares", 4>>, <<"match_number", 8>>>>
    [] type = "OrderCancel"    -> <<<<"order_reference_number", 8>>,
                                    <<"cancelled_shares", 4>>>>
    [] type = "OrderDelete"    -> <<<<"order_reference_number", 8>>>>
    [] type = "OrderReplace"   -> <<<<"original_order_reference_number", 8>>,
                                    <<"new_order_reference_number", 8>>,
                                    <<"shares", 4>>, <<"price", 4>>>>
    [] type = "Trade"          -> AddOrderAppends \o <<<<"match_number", 8>>>>

(* append_header: the type's letter comes first. *)
HeaderAppends == <<<<"stock_locate", 2>>, <<"tracking_number", 2>>, <<"timestamp", 6>>>>

encode(msg) ==
  LET appends == HeaderAppends \o Appends(msg.type)
      bytes(i) == IF appends[i][1] \in TextFields
                  THEN append_str_padded(msg[appends[i][1]], appends[i][2])
                  ELSE append_be(msg[appends[i][1]], appends[i][2])
  IN  <<Letter[msg.type]>>
        \o SeqExt!FlattenSeq([i \in 1 .. Len(appends) |-> bytes(i)])

(* Mutant: the prefix counts itself. *)
write_framed_whole(record) == append_be(Len(record) + 2, 2) \o record

write_framed(record) == append_be(Len(record), 2) \o record
=============================================================================
