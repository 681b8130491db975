---------------------------- MODULE SnippetPipeline ----------------------------
(***************************************************************************)
(* What RunSnippetWork makes of a work's target table: groups, projections    *)
(* with their aggregates, the having clause, the order                        *)
(* (src/merging_module/merge_query_manager.cc:62-1101).  JoinWork has how the  *)
(* target is made, BufferManager what saveTableData does with the result.      *)
(*                                                                           *)
(* Strings, floats and dates are numbers with a type: the code's control       *)
(* depends on the type, and of a string only the order is looked at.  Floats    *)
(* are exact, and the average of floats is a fraction.  Left out are "/", LIKE  *)
(* with a wildcard, SUBSTRING, EXTRACT, TOP (it only logs), the null flags of   *)
(* the result, and the text that a group's key is put together as.             *)
(***************************************************************************)
EXTENDS Integers, Sequences, FiniteSets, FiniteSetsExt, SequencesExt, Functions

CONSTANTS
  Column,
  Type,       \* [Column -> "int" | "float" | "str" | "date"]
  Value,      \* the values of a column
  Nullable,   \* the columns that an outer join may have filled up
  MaxRows,    \* bound: rows of the target
  Query       \* the snippets, see QueryAssumption

SelectType == {"COLUMNNAME", "SUM", "AVG", "COUNT", "COUNTSTAR", "COUNTDISTINCT", "MIN", "MAX"}
Comparison == {"EQ", "GE", "LE", "GT", "LT", "NE"}

\* A token of an expression in postfix order.
Token == [kind : {"column"}, name : Column]
         \cup [kind : {"literal"}, type : {"int", "float", "str"}, value : Int]
         \cup [kind : {"operator"}, name : {"+", "-", "*", "=", "<>", "LIKE"}]

\* A CASE has for every WHEN its conditions, what follows each of them ("AND",
\* "OR", and "THEN" after the last) and the value; a plain expression has none,
\* and its value in `otherwise'.
When == [conditions : Seq(Seq(Token)), links : Seq({"AND", "OR", "THEN"}), value : Seq(Token)]
Expression == [whens : Seq(When), otherwise : Seq(Token)]

\* Filters of the having clause and the order name a projection by its position.
\* As in SQL, arithmetic and averages are of numbers, comparisons in a CASE are of
\* strings, and all values of an expression have one type.
ASSUME QueryAssumption ==
  /\ Type \in [Column -> {"int", "float", "str", "date"}]
  /\ Value \subseteq Int
  /\ Nullable \subseteq Column
  /\ MaxRows \in Nat
  /\ \A q \in Query :
       /\ q.group_by \in Seq(Column)
       /\ q.projection \in Seq([select : SelectType, of : Expression]) /\ q.projection # <<>>
       /\ q.having \in Seq([of : DOMAIN q.projection, op : Comparison, value : Int])
       /\ q.order_by \in Seq([of : DOMAIN q.projection, ascending : BOOLEAN])

VARIABLES
  query,    \* the snippet
  target,   \* target_table_: rows [value, null]
  groups,   \* group_by_table_
  result,   \* result_table_, then having_table_ and order_by_table_
  pc        \* the step of RunSnippetWork: "group" ... "save", or "undefined"

vars == <<query, target, groups, result, pc>>

\* A table made by a projection: a sequence of values per projection, and row_count.
Empty == [columns |-> [p \in DOMAIN query.projection |-> <<>>], row_count |-> 0]

\* What an outer join fills up is 0 and marked as null.
Row == {r \in [value : [Column -> Value \cup {0}], null : SUBSET Nullable] :
          \A c \in Column : r.value[c] = 0 <=> c \in r.null}

Init ==
  /\ query \in Query
  /\ target \in UNION {[1..n -> Row] : n \in 0..MaxRows}
  /\ groups = <<>>
  /\ result = Empty
  /\ pc = "group"
------------------------------------------------------------------------------
(* Projection and Postfix: the value of an expression in a row.               *)

\* struct T: a type, and a field for each of the types.
Nothing == [type |-> "empty", int |-> 0, float |-> 0, str |-> 0, boolean |-> FALSE, parts |-> 1]

Of(type, x) ==
  CASE type = "float" -> [Nothing EXCEPT !.type = type, !.float = x]
    [] type = "str" -> [Nothing EXCEPT !.type = type, !.str = x]
    [] type \in {"int", "date"} -> [Nothing EXCEPT !.type = type, !.int = x]

Apply(op, x, y) ==
  CASE op = "+" -> x + y
    [] op = "-" -> x - y
    [] op = "*" -> x * y

\* A sum looks at the left operand's type only.  Of a float and an integer, the
\* other operators put the number where integers go and call it a float.
Arithmetic(op, x, y) ==
  CASE x.type = "int" /\ (op = "+" \/ y.type = "int") -> Of("int", Apply(op, x.int, y.int))
    [] x.type = "int" /\ op # "+" /\ y.type = "float" -> Of("float", Apply(op, x.int, y.float))
    [] x.type = "float" /\ (op = "+" \/ y.type = "float") ->
         Of("float", Apply(op, x.float, y.float))
    [] x.type = "float" /\ op # "+" /\ y.type = "int" ->
         [Of("int", Apply(op, x.float, y.int)) EXCEPT !.type = "float"]

\* "=" and "<>" compare the types, which are both string.
Equality(op, x, y) ==
  [Nothing EXCEPT !.boolean = x.type = "str" /\ y.type = "str" /\ op = "="]

\* A pattern without a wildcard.
Like(x, y) == [Nothing EXCEPT !.boolean = x.str = y.str]

Operate(op, x, y) ==
  CASE op \in {"=", "<>"} -> Equality(op, x, y)
    [] op = "LIKE" -> Like(x, y)
    [] op \in {"+", "-", "*"} -> Arithmetic(op, x, y)

\* The stack grows at its end.
Postfix(row, tokens) ==
  LET step(stack, t) ==
        LET n == Len(stack)
        IN  CASE t.kind = "column" -> Append(stack, Of(Type[t.name], row.value[t.name]))
              [] t.kind = "literal" -> Append(stack, Of(t.type, t.value))
              [] t.kind = "operator" ->
                   Append(SubSeq(stack, 1, n - 2), Operate(t.name, stack[n - 1], stack[n]))
  IN  Last(FoldLeft(step, <<>>, tokens))

\* A condition that fails before an AND ends the WHEN, whatever comes after an OR.
Link(state, holds, link) ==
  CASE state # "next" -> state
    [] state = "next" /\ holds -> IF link = "AND" THEN "next" ELSE "pass"
    [] state = "next" /\ ~ holds -> IF link = "OR" THEN "next" ELSE "fail"

Passes(row, when) ==
  LET step(state, k) == Link(state, Postfix(row, when.conditions[k]).boolean, when.links[k])
  IN  FoldLeft(step, "next", [k \in DOMAIN when.links |-> k]) = "pass"

\* The first WHEN that passes, or what comes after ELSE.
Chosen(row, e) == LET passed == {k \in DOMAIN e.whens : Passes(row, e.whens[k])}
                  IN  IF passed = {} THEN e.otherwise ELSE e.whens[Min(passed)].value

\* A CASE does not copy the value of a date.
Projection(row, e) ==
  LET t == Postfix(row, Chosen(row, e))
  IN  IF e.whens # <<>> /\ t.type = "date" THEN [t EXCEPT !.int = 0] ELSE t
------------------------------------------------------------------------------
(* GroupBy: a table per key, in the order in which the keys come up.           *)

\* makeGroupbyKey
Key(row) == [g \in DOMAIN query.group_by |-> row.value[query.group_by[g]]]

\* Faulty variant: rows of a group that was there before start another one.
GroupByRuns(rows) ==
  LET step(acc, row) ==
        IF acc # <<>> /\ Key(acc[Len(acc)][1]) = Key(row)
        THEN [acc EXCEPT ![Len(acc)] = Append(@, row)]
        ELSE Append(acc, <<row>>)
  IN  IF rows = <<>> THEN <<<<>>>> ELSE FoldLeft(step, <<>>, rows)

GroupBy(rows) ==
  LET step(acc, row) ==
        LET found == {k \in DOMAIN acc : Key(acc[k][1]) = Key(row)}
        IN  IF found = {} THEN Append(acc, <<row>>)
            ELSE [acc EXCEPT ![Min(found)] = Append(@, row)]
  IN  IF rows = <<>> THEN <<<<>>>> ELSE FoldLeft(step, <<>>, rows)

Group ==
  /\ pc = "group"
  /\ groups' = IF query.group_by = <<>> THEN <<target>> ELSE GroupBy(target)
  /\ pc' = "project"
  /\ UNCHANGED <<query, target, result>>
------------------------------------------------------------------------------
(* Aggregation: the column that a projection makes of a table with rows.       *)

\* What every projection makes of every row.
Values(rows) ==
  [p \in DOMAIN query.projection |->
     [r \in DOMAIN rows |-> Projection(rows[r], query.projection[p].of)]]

\* The type of a sum is that of the last value.
Total(vals) ==
  LET type == vals[Len(vals)].type
      add(acc, t) == IF t.type = "float" THEN [acc EXCEPT !.float = @ + t.float]
                     ELSE IF t.type = "int" THEN [acc EXCEPT !.int = @ + t.int] ELSE acc
  IN  [FoldLeft(add, Nothing, vals) EXCEPT !.type = type]

\* The field that the type points to.
Number(t) == IF t.type = "float" THEN t.float ELSE IF t.type = "str" THEN t.str ELSE t.int

\* Division in C rounds towards zero.
Quotient(x, n) == IF x >= 0 THEN x \div n ELSE -((-x) \div n)

\* An average is a float; of integers, the integer part.
Average(vals) ==
  LET total == Total(vals)
  IN  IF total.type = "float" THEN [total EXCEPT !.parts = Len(vals)]
      ELSE Of("float", Quotient(total.int, Len(vals)))

\* The name that COUNT and COUNTDISTINCT look at.
Name(p) == p.of.otherwise[1].name

\* MIN and MAX keep the first value's type; MAX knows of no strings there, and
\* neither of dates: then no value is put into the column.
Extreme(vals, known, best) ==
  IF vals[1].type \in known
  THEN <<Of(vals[1].type, best)>>
  ELSE <<>>

Aggregate(rows, vals, p) ==
  LET numbers == {Number(vals[r]) : r \in DOMAIN vals}
  IN  CASE p.select = "COLUMNNAME" -> IF query.group_by # <<>> THEN <<vals[1]>> ELSE vals
        [] p.select = "SUM" ->
             IF Total(vals).type \in {"int", "float"} THEN <<Total(vals)>> ELSE <<>>
        [] p.select = "AVG" -> <<Average(vals)>>
        [] p.select = "COUNT" ->
             <<Of("int", Cardinality({r \in DOMAIN rows : Name(p) \notin rows[r].null}))>>
        [] p.select = "COUNTSTAR" -> <<Of("int", Len(rows))>>
        [] p.select = "COUNTDISTINCT" ->
             <<Of("int", IF Type[Name(p)] = "date" THEN 0 ELSE Cardinality(numbers))>>
        [] p.select = "MIN" -> Extreme(vals, {"int", "float", "str"}, Min(numbers))
        [] p.select = "MAX" -> Extreme(vals, {"int", "float"}, Max(numbers))

\* One call of Aggregation adds a table's columns below those already there; the
\* first column that is not empty says by how many rows.
Aggregation(dest, rows, values) ==
  LET made == [p \in DOMAIN values |-> Aggregate(rows, values[p], query.projection[p])]
      filled == {p \in DOMAIN made : made[p] # <<>>}
  IN  IF rows = <<>> THEN [dest EXCEPT !.row_count = 0]
      ELSE [columns |-> [p \in DOMAIN made |-> dest.columns[p] \o made[p]],
            row_count |-> dest.row_count + IF filled = {} THEN 0 ELSE Len(made[Min(filled)])]

\* One table of the loop over group_by_table_.
Project ==
  /\ pc = "project"
  /\ \E values \in {Values(Head(groups))} :
       result' = Aggregation(result, Head(groups), values)
  /\ groups' = Tail(groups)
  /\ pc' = IF groups' # <<>> THEN "project"
           ELSE IF query.having # <<>> THEN "having"
           ELSE IF query.order_by # <<>> THEN "order" ELSE "save"
  /\ UNCHANGED <<query, target>>
------------------------------------------------------------------------------
(* Filtering and OrderBy.                                                      *)

\* The projections whose column has less values than the table has rows.
Short == {p \in DOMAIN result.columns : Len(result.columns[p]) < result.row_count}

\* The rows of the result numbered by `rows'.
Selected(rows) ==
  [columns |-> [p \in DOMAIN result.columns |->
                  [k \in DOMAIN rows |-> result.columns[p][rows[k]]]],
   row_count |-> Len(rows)]

Less(x, y) == Number(x) * y.parts < Number(y) * x.parts

Compare(op, x, y) ==
  \/ op = "EQ" /\ ~ Less(x, y) /\ ~ Less(y, x)
  \/ op = "GE" /\ ~ Less(x, y)
  \/ op = "LE" /\ ~ Less(y, x)
  \/ op = "GT" /\ Less(y, x)
  \/ op = "LT" /\ Less(x, y)
  \/ op = "NE" /\ (Less(x, y) \/ Less(y, x))

\* Dates have no case: such a filter leaves the verdict of the one before, which is
\* that the row passes.
Holds(f, r) ==
  LET t == result.columns[f.of][r]
  IN  t.type = "date" \/ Compare(f.op, t, Of(t.type, f.value))

Kept(r) == \A k \in DOMAIN query.having : Holds(query.having[k], r)

\* A filter is looked at if those before it hold, the other columns if all do.
FilteringReads(p) == \E r \in 1..result.row_count : \E k \in 1..(Len(query.having) + 1) :
  /\ k <= Len(query.having) => query.having[k].of = p
  /\ \A h \in 1..(k - 1) : query.having[h].of \notin Short /\ Holds(query.having[h], r)

Filtering ==
  /\ pc = "having"
  /\ \A p \in Short : ~ FilteringReads(p)
  /\ result' = Selected(SelectSeq([r \in 1..result.row_count |-> r], Kept))
  /\ pc' = IF query.order_by # <<>> THEN "order" ELSE "save"
  /\ UNCHANGED <<query, target, groups>>

\* The columns of the order in which two rows differ.
Differ(i, j) == {k \in DOMAIN query.order_by :
  LET column == result.columns[query.order_by[k].of]
  IN  Less(column[i], column[j]) \/ Less(column[j], column[i])}

\* Faulty variant: descending order is taken for ascending order.
BeforeAscending(i, j) ==
  LET column == result.columns[query.order_by[Min(Differ(i, j))].of]
  IN  Less(column[i], column[j])

Before(i, j) ==
  LET order == query.order_by[Min(Differ(i, j))]
      column == result.columns[order.of]
  IN  IF order.ascending THEN Less(column[i], column[j]) ELSE Less(column[j], column[i])

\* Any sort compares the neighbours of the order it comes to, hence some two equal
\* rows if there are any.
Ties == \E i, j \in 1..result.row_count : i # j /\ Differ(i, j) = {}

OrderBy ==
  /\ pc = "order"
  /\ Short = {}
  /\ ~ Ties
  /\ result' = Selected(SetToSortSeq(1..result.row_count, Before))
  /\ pc' = "save"
  /\ UNCHANGED <<query, target, groups>>

\* A column is read beyond its end, or the comparison of two equal rows ends
\* without a value.
Undefined ==
  /\ \/ pc = "having" /\ \E p \in Short : FilteringReads(p)
     \/ pc = "order" /\ (Short # {} \/ Ties)
  /\ pc' = "undefined"
  /\ UNCHANGED <<query, target, groups, result>>
------------------------------------------------------------------------------
Next ==
  \/ Group \/ Project \/ Filtering \/ OrderBy \/ Undefined
  \/ pc \in {"save", "undefined"} /\ UNCHANGED vars

Spec == Init /\ [][Next]_vars
------------------------------------------------------------------------------
(* What the snippet asks for, over plain numbers: an expression is a number or a  *)
(* truth value, "AND" binds stronger than "OR", and a group is a set of rows.     *)

Meaning(row, tokens) ==
  LET step(stack, t) ==
        LET n == Len(stack)
            Operator(op, x, y) == CASE op \in {"=", "LIKE"} -> x = y
                                    [] op = "<>" -> x # y
                                    [] OTHER -> Apply(op, x, y)
        IN  CASE t.kind = "column" -> Append(stack, row.value[t.name])
              [] t.kind = "literal" -> Append(stack, t.value)
              [] t.kind = "operator" ->
                   Append(SubSeq(stack, 1, n - 2), Operator(t.name, stack[n - 1], stack[n]))
  IN  Last(FoldLeft(step, <<>>, tokens))

\* Some run of conditions linked by AND holds, from the start or an OR up to an OR
\* or the end.
Means(row, when) == \E i, j \in DOMAIN when.links :
  /\ i = 1 \/ when.links[i - 1] = "OR"
  /\ i <= j /\ when.links[j] # "AND"
  /\ \A k \in i..j : Meaning(row, when.conditions[k])
  /\ \A k \in i..(j - 1) : when.links[k] = "AND"

Worth(r, e) ==
  LET row == target[r]
      true == {k \in DOMAIN e.whens : Means(row, e.whens[k])}
  IN  Meaning(row, IF true = {} THEN e.otherwise
                   ELSE e.whens[CHOOSE k \in true : \A h \in true : k <= h].value)

\* A projection of the rows `G' as a fraction.
Answer(G, p) ==
  LET worths == {Worth(r, p.of) : r \in G}
      sum == MapThenSumSet(LAMBDA r : Worth(r, p.of), G)
  IN  CASE p.select = "COLUMNNAME" -> <<Worth(Min(G), p.of), 1>>
        [] p.select = "SUM" -> <<sum, 1>>
        [] p.select = "AVG" -> <<sum, Cardinality(G)>>
        [] p.select = "COUNT" -> <<Cardinality({r \in G : Name(p) \notin target[r].null}), 1>>
        [] p.select = "COUNTSTAR" -> <<Cardinality(G), 1>>
        [] p.select = "COUNTDISTINCT" -> <<Cardinality(worths), 1>>
        [] p.select = "MIN" -> <<Min(worths), 1>>
        [] p.select = "MAX" -> <<Max(worths), 1>>

\* The rows that make one row of the result.  Without a row there is no result,
\* unlike in SQL, where COUNT would be 0.
Parts ==
  LET alike(r) == {x \in DOMAIN target : Key(target[x]) = Key(target[r])}
  IN  IF query.group_by # <<>> THEN {alike(r) : r \in DOMAIN target}
      ELSE IF \E p \in Range(query.projection) : p.select # "COLUMNNAME"
           THEN {DOMAIN target} \ {{}}
           ELSE {{r} : r \in DOMAIN target}

Satisfies(answer, f) ==
  LET x == answer[f.of][1]
      y == f.value * answer[f.of][2]
  IN  CASE f.op = "EQ" -> x = y
        [] f.op = "GE" -> x >= y
        [] f.op = "LE" -> x <= y
        [] f.op = "GT" -> x > y
        [] f.op = "LT" -> x < y
        [] f.op = "NE" -> x # y

Answers(G) == [p \in DOMAIN query.projection |-> Answer(G, query.projection[p])]
Asked == {G \in Parts : \A f \in Range(query.having) : Satisfies(Answers(G), f)}

\* A row of the result, and whether it says what a set of rows answers.
Shown(r) == [p \in DOMAIN query.projection |->
               <<Number(result.columns[p][r]), result.columns[p][r].parts>>]
Agree(a, b) == \A p \in DOMAIN a : a[p][1] * b[p][2] = b[p][1] * a[p][2]

\* Where the code departs from that: averages of integers lose their fraction, MIN
\* and MAX do not know all types, "=" compares types, an operator on a float and an
\* integer takes the wrong field, and an OR after an AND is not looked at.
Types(tokens) == {IF t.kind = "column" THEN Type[t.name] ELSE t.type :
                    t \in {x \in Range(tokens) : x.kind # "operator"}}

Departs == \E p \in Range(query.projection) :
  LET e == p.of
      computed == {e.otherwise} \cup {w.value : w \in Range(e.whens)}
      compared == UNION {Range(w.conditions) : w \in Range(e.whens)}
  IN  \/ p.select = "AVG" /\ Types(e.otherwise) = {"int"}
      \/ p.select \in {"MIN", "MAX"} /\ Types(e.otherwise) = {"date"}
      \/ p.select = "MAX" /\ Types(e.otherwise) = {"str"}
      \/ \E c \in compared : \E t \in Range(c) : t.kind = "operator" /\ t.name # "LIKE"
      \/ \E c \in computed : {"int", "float"} \subseteq Types(c)
      \/ \E w \in Range(e.whens) : \E i, j \in DOMAIN w.links :
           i < j /\ w.links[i] = "AND" /\ w.links[j] = "OR"

\* In no other case has what is saved anything but, as often as it was asked for,
\* each row that the snippet asks for: whatever the steps are, grouping in the order
\* of arrival, projection of each group on its own, filtering, sorting
\* (RunSnippetWork, merge_query_manager.cc:74-133).
ResultExactUnlessDeparts ==
  pc = "save" /\ ~ Departs =>
    /\ Short = {}
    /\ result.row_count = Cardinality(Asked)
    /\ \A G \in Asked : Cardinality({H \in Asked : Agree(Answers(H), Answers(G))})
                       = Cardinality({r \in 1..result.row_count : Agree(Shown(r), Answers(G))})

\* What is saved is in the order of the snippet: by the first column of the order in
\* which two rows differ, in its direction (OrderBy, merge_query_manager.cc:947-990).
ResultOrdered ==
  pc = "save" => \A i, j \in 1..result.row_count : i < j /\ query.order_by # <<>> =>
    \E k \in DOMAIN query.order_by :
      LET of(h) == query.order_by[h].of
          x(h) == Shown(i)[of(h)][1] * Shown(j)[of(h)][2]
          y(h) == Shown(j)[of(h)][1] * Shown(i)[of(h)][2]
      IN  /\ \A h \in 1..(k - 1) : x(h) = y(h)
          /\ IF query.order_by[k].ascending THEN x(k) < y(k) ELSE x(k) > y(k)
==============================================================================
