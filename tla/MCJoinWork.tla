------------------------------ MODULE MCJoinWork ------------------------------
(* Up to two rows of each table, which is enough for two hits of one key, a key  *)
(* without a hit, equal rows, and a streamed table that comes in two batches of  *)
(* one row; every type of work, sound or not, with one or two filters.           *)
EXTENDS JoinWork
CONSTANTS leftKey, leftDate, leftFloat, rightKey, rightValue

MCLeft == {leftKey, leftDate, leftFloat}
MCRight == {rightKey, rightValue}
MCType == leftKey :> "int" @@ leftDate :> "date" @@ leftFloat :> "float"
            @@ rightKey :> "int" @@ rightValue :> "int"

F(op, l, r) == [op |-> op, lv |-> l, rv |-> r]
W(type, filtering, dependency) ==
  [type |-> type, filtering |-> filtering, dependency |-> dependency, projection |-> rightValue]
OnKey == <<F("EQ", leftKey, rightKey)>>
OnDate == <<F("EQ", leftDate, rightKey)>>

EqualJoins ==
  {W("INNER_JOIN", OnKey \o <<F("LT", leftKey, rightValue)>>, <<>>),
   W("INNER_JOIN", OnDate, <<>>),
   W("INNER_JOIN", OnKey \o <<F("NE", leftFloat, rightValue)>>, <<>>),
   W("INNER_JOIN", OnKey \o <<F("IN", leftKey, rightValue)>>, <<>>),
   W("LEFT_OUTER_JOIN", OnKey, <<>>),
   W("LEFT_OUTER_JOIN", OnKey \o OnDate, <<>>),
   W("RIGHT_OUTER_JOIN", <<>>, <<>>),
   W("RIGHT_OUTER_JOIN", OnKey, <<>>)}
NonEqualJoin == {W("INNER_JOIN", <<F("LT", leftKey, rightKey)>>, <<>>)}
Others ==
  {W("UNION", OnKey, <<>>), W("UNION", <<>>, <<>>), W("FILTER", <<>>, <<>>),
   W("IN", <<F("IN", leftKey, rightKey)>>, <<>>),
   W("IN", <<F("NOTIN", leftKey, rightKey)>>, <<>>)}
Dependent ==
  {W("DEPENDENCY_EXIST", <<>>, OnKey),
   W("DEPENDENCY_EXIST", <<>>, <<>>),
   W("DEPENDENCY_EXIST", OnKey, OnKey \o <<F("NE", leftKey, rightValue)>>),
   W("DEPENDENCY_INNER_JOIN", <<F("EQ", leftFloat, rightValue)>>, OnKey),
   W("DEPENDENCY_INNER_JOIN", <<F("GT", leftFloat, rightValue)>>, <<F("GE", leftKey, rightKey)>>),
   W("DEPENDENCY_IN", <<F("IN", leftFloat, rightValue)>>, OnDate \o OnKey)}
Every == EqualJoins \cup NonEqualJoin \cup Others \cup Dependent
==============================================================================
