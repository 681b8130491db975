--------------------------- MODULE MCStorageEngine ---------------------------
(* Two queries at once on two CSDs, and any one failure: a scan of two SSTs, one  *)
(* with a choice of CSD, with a work on top, whose rows have a column of every     *)
(* type; and a scan that finds nothing.                                         *)
EXTENDS StorageEngine
CONSTANTS csdA, csdB, noPeer

MCCsd == {csdA, csdB}
MCQuery == {"rows", "nothing"}
MCPeer == MCQuery \X MCCsd
MCHasty == {<<"nothing", csdB>>}
MCStream == [rows |-> <<"scan", "merge">>, nothing |-> <<"scan">>]
Sst(csds, n) ==
  [csds |-> csds, blocks |-> n, listed |-> [c \in MCCsd |-> <<>>], part |-> [c \in MCCsd |-> c]]
MCSstInfo == [rows |-> <<Sst(<<csdA>>, 2), Sst(<<csdA, csdB>>, 1)>>, nothing |-> <<Sst(<<csdB>>, 1)>>]

MCSchema ==
  [flag |-> Column(MySQL_BYTE, 1), line |-> Column(MySQL_INT16, 2), number |-> Column(MySQL_INT32, 4),
   key |-> Column(MySQL_INT64, 8), ratio |-> Column(MySQL_FLOAT32, 4), price |-> Column(MySQL_NEWDECIMAL, 7),
   discount |-> Column(MySQL_NEWDECIMAL, 7), day |-> Column(MySQL_DATE, 3), at |-> Column(MySQL_TIMESTAMP, 4),
   mode |-> Column(MySQL_STRING, 4), name |-> Column(MySQL_VARSTRING, 10), text |-> Column(MySQL_VARSTRING, 300)]
C(column) == [is |-> "column", text |-> column, type |-> ColumnType, chars |-> Len(column), value |-> 0]
L(type) == [is |-> "literal", text |-> "1", type |-> type, chars |-> 1, value |-> 1]
O(op) == [is |-> "operator", text |-> op, type |-> 11, chars |-> 1, value |-> 0]
Other(tokens) == [kind |-> "other", tokens |-> tokens]
Product == <<C("price"), L(2), C("discount"), O("-"), O("*")>>
Bare == <<"flag", "line", "name", "number", "key", "text", "ratio", "price", "day", "at", "mode">>
MCProjections ==
  [rows    |-> [k \in DOMAIN Bare |-> Other(<<C(Bare[k])>>)] \o
               <<Other(Product), Other(Product \o <<C("price"), C("discount"), O("*"), O("-")>>), Other(<<L(2)>>)>>,
   nothing |-> <<Other(<<C("number")>>)>>]

I(bytes) == [is |-> "int", bytes |-> Extended(bytes)]
D(negative, whole, fraction) == [is |-> "decimal", negative |-> negative, whole |-> Zeros(4) \o whole, fraction |-> fraction]
S(chars) == [is |-> "string", chars |-> chars]
F(tenths) == [is |-> "float", tenths |-> tenths]
Row(flag, name, key, text, ratio, price, product, sum) ==
  <<I(<<flag>>), I(<<1, flag>>), S(name), I(<<0, 1, 2, flag>>), I(key), S(text), F(ratio), price,
    [is |-> "date", day |-> <<1998, 12, 1>>], I(<<9, 0, 0, 0>>), S(<<65>>), product, sum, I(<<1>>)>>
Long == [k \in 1..256 |-> 97]
MCRows ==
  [rows |-> <<<<Row(1, <<65, 66>>, <<5>>, <<>>, 20, D(FALSE, <<1, 2>>, 99), D(FALSE, <<1, 2>>, 9999), D(FALSE, <<0, 1>>, 1)),
                Row(200, <<>>, <<1, 0, 0, 0, 1>>, Long, 27, D(TRUE, <<1, 2>>, 7), D(TRUE, <<1, 2>>, 700), D(TRUE, <<0, 1>>, 1))>>,
              <<Row(2, [k \in 1..10 |-> 67], <<255>>, <<65>>, 0, D(FALSE, <<0, 0>>, 0), D(FALSE, <<0, 0>>, 1), D(FALSE, <<0, 0>>, 0))>>>>,
   nothing |-> << <<>> >>]

\* What AnswersAreWhole of StorageEngine_proofs assumes of the SSTs.
ASSUME CountsAreRight == CountsAgree

\* What AnswersAreExact assumes of the rows.
ASSUME RowsAreRight == RowsFit
==============================================================================
