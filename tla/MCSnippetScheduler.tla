-------------------------- MODULE MCSnippetScheduler --------------------------
(* Two CSDs and four snippets: one SST with two replicas and a projection of    *)
(* every kind; three SSTs of which the middle one has a choice between CSDs that *)
(* are penalised already; two SSTs with two replicas each, one read whole and     *)
(* one block by block; none at all.  The block bound lies above the number of    *)
(* CSDs, as 10000 does.                                                         *)
EXTENDS SnippetScheduler
CONSTANTS csdA, csdB, noCsd

MCCsd == {csdA, csdB}

\* What the theorems of SnippetScheduler_proofs take DSI's search to select.
ASSUME DsiHolders == DsiPicksHolders

Whole == <<>>
TwoRuns == <<[offsets |-> 1, lengths |-> 3], [offsets |-> 2, lengths |-> 2]>>
Sst(csds, n, listed) ==
  [csds |-> csds, blocks |-> n, listed |-> [c \in MCCsd |-> listed], part |-> [c \in MCCsd |-> c]]
MCSstInfo ==
  [one   |-> <<Sst(<<csdA, csdB>>, 5, TwoRuns)>>,
   three |-> <<Sst(<<csdA>>, 1, Whole), Sst(<<csdB, csdA>>, 2, Whole), Sst(<<csdB>>, 1, Whole)>>,
   two   |-> <<Sst(<<csdA, csdB>>, 5, TwoRuns), Sst(<<csdA, csdB>>, 5, Whole)>>,
   none  |-> <<>>]
MCSnippet == {"one", "three", "two", "none"}
MCScore == {1, 4}
Every == {"dcs", "dsi", "dfa", "auto"}

\* Columns of TPC-H's lineitem: decimals, an INT32, an INT64, a string.
MCSchema ==
  [price |-> [type |-> 246, length |-> 7], discount |-> [type |-> 246, length |-> 7],
   tax |-> [type |-> 246, length |-> 7], number |-> [type |-> 3, length |-> 4],
   key |-> [type |-> 8, length |-> 8], mode |-> [type |-> 254, length |-> 10]]
C(name) == [is |-> "column", text |-> name, type |-> 10, chars |-> 5, value |-> 0]
L(type, n) == [is |-> "literal", text |-> "1", type |-> type, chars |-> n, value |-> n]
O(op) == [is |-> "operator", text |-> op, type |-> 11, chars |-> 1, value |-> 0]
K(word) == [is |-> "literal", text |-> word, type |-> 9, chars |-> 4, value |-> 0]
Other(tokens) == [kind |-> "other", tokens |-> tokens]
Then(v) == [kind |-> "case", tokens |-> <<K("CASE"), C("mode"), L(9, 3), O("="), K("THEN"), v, K("ELSE"), L(2, 0)>>]
AllProjections ==
  <<Other(<<C("mode")>>), Other(<<C("price")>>), Other(<<L(2, 1)>>),
    Other(<<C("price"), L(2, 1), C("discount"), O("-"), O("*")>>),
    Other(<<C("price"), C("discount"), O("*"), C("tax"), O("*")>>),
    Other(<<C("price"), C("number"), O("*"), C("discount"), O("*")>>),
    Other(<<C("price"), C("discount"), O("-")>>),
    Other(<<C("number"), L(2, 1), O("+")>>),
    Other(<<C("number"), L(6, 3), O("*")>>),
    Other(<<C("key"), L(2, 1), O("+")>>),
    Then(L(2, 1)), Then(L(6, 3)), Then(L(9, 8)), Then(C("price")),
    [kind |-> "extract", tokens |-> <<K("EXTRACT"), K("YEAR"), C("key")>>],
    [kind |-> "substring", tokens |-> <<K("SUBSTRING"), C("mode"), L(2, 2), L(2, 5)>>]>>
MCProjections == [s \in MCSnippet |-> IF s = "one" THEN AllProjections ELSE <<Other(<<C("number")>>)>>]
==============================================================================
