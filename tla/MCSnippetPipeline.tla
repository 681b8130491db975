--------------------------- MODULE MCSnippetPipeline ---------------------------
(* An integer, a float that an outer join may have filled up, and a string; up  *)
(* to three rows of each two values: groups of one to three rows, groups of the  *)
(* same answer, equal rows, no row at all.                                       *)
EXTENDS SnippetPipeline
CONSTANTS num, real, text

MCColumn == {num, real, text}
MCType == num :> "int" @@ real :> "float" @@ text :> "str"

C(c) == [kind |-> "column", name |-> c]
I(x) == [kind |-> "literal", type |-> "int", value |-> x]
S(x) == [kind |-> "literal", type |-> "str", value |-> x]
O(name) == [kind |-> "operator", name |-> name]
Plain(tokens) == [whens |-> <<>>, otherwise |-> tokens]
P(select, tokens) == [select |-> select, of |-> Plain(tokens)]
Text(op, x) == <<C(text), S(x), O(op)>>
Case(conditions, links) ==
  [whens |-> <<[conditions |-> conditions, links |-> links, value |-> <<C(num), I(1), O("+")>>],
               [conditions |-> <<Text("LIKE", 2)>>, links |-> <<"THEN">>, value |-> <<C(num)>>]>>,
   otherwise |-> <<I(0)>>]
By(p, ascending) == [of |-> p, ascending |-> ascending]
Q(group_by, projection, having, order_by) ==
  [group_by |-> group_by, projection |-> projection, having |-> having, order_by |-> order_by]

Grouped ==
  {Q(<<num>>,
     <<P("COLUMNNAME", <<C(num)>>), P("SUM", <<C(real)>>), P("COUNT", <<C(real)>>),
       P("COUNTSTAR", <<I(0)>>)>>,
     <<[of |-> 4, op |-> "GE", value |-> 2]>>, <<By(1, FALSE)>>),
   Q(<<num>>, <<P("AVG", <<C(real)>>)>>, <<>>, <<By(1, TRUE)>>),
   Q(<<num, text>>,
     <<P("COLUMNNAME", <<C(text)>>), P("MIN", <<C(num)>>), P("COUNTDISTINCT", <<C(real)>>)>>,
     <<[of |-> 1, op |-> "NE", value |-> 1], [of |-> 2, op |-> "LT", value |-> 2]>>, <<>>)}
Ungrouped ==
  {Q(<<>>, <<P("COLUMNNAME", <<C(num)>>), P("COLUMNNAME", <<C(num), C(real), O("*")>>)>>,
     <<>>, <<By(1, FALSE), By(2, TRUE)>>),
   Q(<<>>, <<P("AVG", <<C(real), C(real), O("+")>>), P("MAX", <<C(num), I(3), O("-")>>)>>,
     <<>>, <<>>)}
SumOf(conditions, links) ==
  Q(<<text>>, <<[select |-> "SUM", of |-> Case(conditions, links)]>>, <<>>, <<>>)
Cases ==
  {SumOf(<<Text("LIKE", 1)>>, <<"THEN">>),
   SumOf(<<Text("LIKE", 2), Text("LIKE", 1), Text("LIKE", 2)>>, <<"OR", "AND", "THEN">>),
   SumOf(<<Text("LIKE", 1), Text("LIKE", 1)>>, <<"AND", "THEN">>),
   SumOf(<<Text("LIKE", 1), Text("LIKE", 1), Text("LIKE", 2)>>, <<"AND", "OR", "THEN">>),
   SumOf(<<Text("=", 1)>>, <<"THEN">>)}
Unsound ==
  {Q(<<>>, <<P("AVG", <<C(num)>>), P("SUM", <<C(real), C(num), O("*")>>)>>, <<>>, <<>>),
   Q(<<num>>, <<P("COUNTSTAR", <<I(0)>>), P("MAX", <<C(text)>>)>>,
     <<[of |-> 1, op |-> "GT", value |-> 1]>>, <<By(1, TRUE)>>)}
Every == Grouped \cup Ungrouped \cup Cases \cup Unsound
==============================================================================
