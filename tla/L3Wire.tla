-------------------------------- MODULE L3Wire ---------------------------------
(***************************************************************************)
(* The 64-byte messages of L3MarketDataMessage.hpp: where serialize() puts *)
(* each field, and which messages parseOne() accepts.  A value of several  *)
(* bytes is abstracted to the bytes <<value, 0>>, <<value, 1>>, ...        *)
(***************************************************************************)
EXTENDS L3Types, FiniteSets

OpCode == {"N", "X", "M", "T"}

Message == [op_code : OpCode, side : Side, order_id : OrderId \cup {ZeroId},
            price_tick : Price, quantity : Qty]

ASSUME NoMessageAssumption == None \notin Message
-----------------------------------------------------------------------------
kMessageSize == 64

\* The sequence number, the send time, the trade id and the symbol "FOO": the
\* books read none of them.
Unread == {"symbol", "seq_num", "send_timestamp_ns", "trade_id"}

\* Mutant of Layout: the quantity is put over the second half of the price.
LayoutOverlapping ==
  << [field |-> "op_code",           at |-> 0,  size |-> 1],
     [field |-> "side",              at |-> 1,  size |-> 1],
     [field |-> "symbol",            at |-> 2,  size |-> 8],
     [field |-> "seq_num",           at |-> 16, size |-> 8],
     [field |-> "send_timestamp_ns", at |-> 24, size |-> 8],
     [field |-> "order_id",          at |-> 32, size |-> 8],
     [field |-> "price_tick",        at |-> 40, size |-> 4],
     [field |-> "quantity",          at |-> 42, size |-> 4],
     [field |-> "trade_id",          at |-> 48, size |-> 8] >>

\* The fields in the order serialize() writes them.
Layout ==
  << [field |-> "op_code",           at |-> 0,  size |-> 1],
     [field |-> "side",              at |-> 1,  size |-> 1],
     [field |-> "symbol",            at |-> 2,  size |-> 8],
     [field |-> "seq_num",           at |-> 16, size |-> 8],
     [field |-> "send_timestamp_ns", at |-> 24, size |-> 8],
     [field |-> "order_id",          at |-> 32, size |-> 8],
     [field |-> "price_tick",        at |-> 40, size |-> 4],
     [field |-> "quantity",          at |-> 44, size |-> 4],
     [field |-> "trade_id",          at |-> 48, size |-> 8] >>

encodeSideChar(side) == IF side = "Bid" THEN "B" ELSE "S"

decodeSideChar(char) ==
  CASE char = "B" -> "Bid" [] char = "S" -> "Ask" [] OTHER -> None

\* The value serialize() writes for a field of the message.
Written(msg, field) ==
  CASE field \in Unread -> field
    [] field = "side"   -> encodeSideChar(msg.side)
    [] OTHER            -> msg[field]

\* The bytes of a message; a later write covers an earlier one.
Serialize(msg) ==
  [b \in 0 .. kMessageSize - 1 |->
     LET covers == {i \in DOMAIN Layout :
                      b \in Layout[i].at .. Layout[i].at + Layout[i].size - 1}
         last   == CHOOSE i \in covers : \A j \in covers : j <= i
     IN  IF covers = {} THEN <<0, 0>>
         ELSE <<Written(msg, Layout[last].field), b - Layout[last].at>>]

\* readScalar: the value whose bytes are all there, in order.
Read(data, field) ==
  LET place == CHOOSE i \in DOMAIN Layout : Layout[i].field = field
      at    == Layout[place].at
      value == data[at][1]
  IN  IF \A k \in 0 .. Layout[place].size - 1 : data[at + k] = <<value, k>>
      THEN value ELSE None
-----------------------------------------------------------------------------
\* Mutant of Valid: the price range is not checked.
ValidAtAnyPrice(msg) ==
  /\ msg.op_code \in OpCode
  /\ msg.side \in Side
  /\ msg.op_code \in {"N", "M", "T"} => msg.quantity \in 1 .. MaxQty
  /\ msg.op_code \in {"N", "X", "M"} => msg.order_id # ZeroId

\* The checks of parseOne() on the fields it has read.
Valid(msg) ==
  /\ msg.op_code \in OpCode
  /\ msg.side \in Side
  /\ msg.op_code \in {"N", "M", "T"} =>
       msg.price_tick \in TickPrice /\ msg.quantity \in 1 .. MaxQty
  /\ msg.op_code \in {"N", "X", "M"} => msg.order_id # ZeroId

\* parseOne(): the message in the bytes, or None.
ParseOne(data) ==
  LET msg == [op_code    |-> Read(data, "op_code"),
              side       |-> decodeSideChar(Read(data, "side")),
              order_id   |-> Read(data, "order_id"),
              price_tick |-> Read(data, "price_tick"),
              quantity   |-> Read(data, "quantity")]
  IN  IF Valid(msg) THEN msg ELSE None
=============================================================================
