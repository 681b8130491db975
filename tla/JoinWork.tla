------------------------------- MODULE JoinWork -------------------------------
(***************************************************************************)
(* How one work of the Merge Query Manager makes its target table            *)
(* (src/merging_module/merge_query_manager.cc:1103-2319): it reads one of    *)
(* its two tables whole, then takes the other one as it grows, a batch at a   *)
(* time, and adds the rows of every batch to the target.  BufferManager has   *)
(* the threads around it; here the rows and the filters are looked into.      *)
(*                                                                           *)
(* A row maps column names to numbers, and a column has the type that the     *)
(* code switches on: `int' (strings are treated alike), `float' or `date'.    *)
(* The target is kept as lineage: <<i, j>> is the i-th row of the left table  *)
(* next to the j-th of the right one, 0 for none.  Null flags are left out,   *)
(* and the text that keys are put together as, but for what a type does to it. *)
(***************************************************************************)
EXTENDS Integers, Sequences, FiniteSets, FiniteSetsExt, SequencesExt, Functions

CONSTANTS
  LeftColumn, RightColumn,
  Type,                 \* [column -> "int" | "float" | "date"]
  Value,                \* the values of a column
  MaxLeft, MaxRight,    \* bound: rows of the two tables
  Work,                 \* the snippets, see WorkType
  BatchRows             \* 1000000 in getTableData

Column == LeftColumn \cup RightColumn
Comparison == {"EQ", "GE", "LE", "GT", "LT", "NE"}
Filter == [op : Comparison \cup {"IN", "NOTIN"}, lv : LeftColumn, rv : RightColumn]
WorkType ==
  {"FILTER", "INNER_JOIN", "LEFT_OUTER_JOIN", "RIGHT_OUTER_JOIN", "CROSS_JOIN", "UNION", "IN",
   "DEPENDENCY_INNER_JOIN", "DEPENDENCY_EXIST", "DEPENDENCY_IN"}

\* The filters joined by AND, without the AND between two of them; the projection
\* of a dependent subquery is the minimum of a column.
ASSUME WorkAssumption ==
  /\ LeftColumn \cap RightColumn = {}
  /\ Type \in [Column -> {"int", "float", "date"}]
  /\ Value \subseteq Int
  /\ \A w \in Work : /\ w.type \in WorkType
                     /\ w.filtering \in Seq(Filter)
                     /\ w.dependency \in Seq(Filter)
                     /\ w.projection \in RightColumn
  /\ \A w \in Work : w.type \in {"IN", "DEPENDENCY_INNER_JOIN", "DEPENDENCY_IN"} =>
                       w.filtering # <<>>
  /\ \A w \in Work : w.type = "IN" => w.filtering[1].op \in {"IN", "NOTIN"}
  /\ \A w \in Work : w.type = "DEPENDENCY_INNER_JOIN" => Type[w.projection] # "date"
  /\ BatchRows \in Nat \ {0}
  /\ MaxLeft \in Nat /\ MaxRight \in Nat

VARIABLES
  work,        \* the snippet
  left, right, \* the two input tables, as they will be when finished
  shown,       \* how many rows of the streamed table are in its work buffer
  finished,    \* is that buffer WorkDone?
  pc,          \* "read", "stream", "done", or "undefined"
  row_index,   \* the rows of the streamed table that earlier batches had
  target,      \* target_table_
  row_count,   \* the row_count of the columns of target_table_
  hash_table   \* hash_table_: <<key, row>> of the table read whole

vars == <<work, left, right, shown, finished, pc, row_index, target, row_count, hash_table>>

LeftStreams == work.type \in {"LEFT_OUTER_JOIN", "IN", "DEPENDENCY_INNER_JOIN",
                              "DEPENDENCY_EXIST", "DEPENDENCY_IN"}
Streamed == IF LeftStreams THEN left ELSE right

Tables(columns, max) == UNION {[1..n -> [columns -> Value]] : n \in 0..max}

Init ==
  /\ work \in Work
  /\ left \in Tables(LeftColumn, MaxLeft)
  /\ right \in Tables(RightColumn, MaxRight)
  /\ shown = 0
  /\ finished = FALSE
  /\ pc = "read"
  /\ row_index = 0
  /\ target = <<>>
  /\ row_count = 0
  /\ hash_table = {}
------------------------------------------------------------------------------
(* The streamed table grows in its work buffer, see BufferManager.             *)

Arrive ==
  /\ ~ finished
  /\ \E n \in shown..Len(Streamed) : shown' = n
  /\ finished' \in {FALSE, shown' = Len(Streamed)}
  /\ finished' \/ shown' > shown
  /\ UNCHANGED <<work, left, right, pc, row_index, target, row_count, hash_table>>
------------------------------------------------------------------------------
(* What loops over rows and filters make of them.                              *)

\* What a sequence has of a set, in its order.
Kept(s, S) ==
  LET kept[k \in 0..Len(s)] ==
        IF k = 0 THEN <<>>
        ELSE IF s[k] \in S THEN Append(kept[k - 1], s[k]) ELSE kept[k - 1]
  IN  kept[Len(s)]

\* The numbers of a set, from the least on.
Ascending(S) ==
  CHOOSE s \in [1..Cardinality(S) -> S] : \A i, j \in 1..Cardinality(S) : i < j => s[i] < s[j]
------------------------------------------------------------------------------
(* Filters and hash keys.                                                      *)

\* compareByOperator
Compare(op, x, y) ==
  \/ op = "EQ" /\ x = y
  \/ op = "GE" /\ x >= y
  \/ op = "LE" /\ x <= y
  \/ op = "GT" /\ x > y
  \/ op = "LT" /\ x < y
  \/ op = "NE" /\ x # y

EqualFilters == Kept(work.filtering, {f \in Range(work.filtering) : f.op = "EQ"})
LeftKeys == [k \in DOMAIN EqualFilters |-> EqualFilters[k].lv]
RightKeys == [k \in DOMAIN EqualFilters |-> EqualFilters[k].rv]

\* to_string writes a float with decimals, other numbers without.
Text(c, x) == <<Type[c] = "float", x>>

KeyOf(row, columns) == [k \in DOMAIN columns |-> Text(columns[k], row[columns[k]])]

\* createHashTable: every column of the key goes in.
HashTable(table, columns) == {<<KeyOf(table[i], columns), i>> : i \in DOMAIN table}

\* The key that is looked for: the switch over the column's type has no date.
ProbeKey(row, columns) ==
  KeyOf(row, Kept(columns, {c \in Column : Type[c] # "date"}))

\* hash_table_[key]: the rows with that key in the order they were put in.
Hits(table, key) == Ascending({e[2] : e \in {x \in table : x[1] = key}})

\* A non-equal filter; the switch skips dates.
PassesFilter(f, l, r) ==
  f.op \in Comparison \ {"EQ"} /\ Type[f.lv] # "date" => Compare(f.op, l[f.lv], r[f.rv])

PassesNonEqual(l, r) == \A f \in Range(work.filtering) : PassesFilter(f, l, r)

\* The type of the left column says where the value of the right one is looked for.
Misread(l, r) == \E k \in DOMAIN work.filtering :
  LET f == work.filtering[k]
  IN  /\ f.op \in Comparison \ {"EQ"} /\ Type[f.lv] # "date"
      /\ (Type[f.lv] = "float") # (Type[f.rv] = "float")
      /\ \A h \in 1..(k - 1) : PassesFilter(work.filtering[h], l, r)
------------------------------------------------------------------------------
(* What a batch adds to the target: the rows of the streamed table from        *)
(* row_index on, out of the `n' in the snapshot.                               *)

\* Faulty variant: each batch starts again at the first row.
BatchFromStart(n) == [k \in 1..n |-> k]

Batch(n) == [k \in 1..(n - row_index) |-> row_index + k]

\* InnerJoin_hash with an equal filter.
InnerJoinHash(n) ==
  LET ofRow(j) == LET hits == Hits(hash_table, ProbeKey(right[j], RightKeys))
                      passed == Kept(hits, {i \in DOMAIN left : PassesNonEqual(left[i], right[j])})
                  IN  [k \in DOMAIN passed |-> <<passed[k], j>>]
  IN  FlattenSeq([k \in DOMAIN Batch(n) |-> ofRow(Batch(n)[k])])

\* InnerJoin_hash without one: the loop over the right table starts at its first
\* row, whatever row_index is.
InnerJoinNestedLoop(n) ==
  LET ofRow(i) == LET passed == Ascending({j \in 1..n : PassesNonEqual(left[i], right[j])})
                  IN  [k \in DOMAIN passed |-> <<i, passed[k]>>]
  IN  FlattenSeq([i \in DOMAIN left |-> ofRow(i)])

\* LeftOuterJoin_hash: only equal filters count.
LeftOuterJoinHash(n) ==
  LET ofRow(i) == LET hits == Hits(hash_table, ProbeKey(left[i], LeftKeys))
                  IN  IF hits = <<>> THEN <<<<i, 0>>>>
                      ELSE [k \in DOMAIN hits |-> <<i, hits[k]>>]
  IN  FlattenSeq([k \in DOMAIN Batch(n) |-> ofRow(Batch(n)[k])])

\* RightOuterJoin_hash, if no column name has to be looked up in the right table.
RightOuterJoinHash(n) ==
  LET ofRow(j) == LET hits == Hits(hash_table, <<>>)
                  IN  IF hits = <<>> THEN <<<<0, j>>>>
                      ELSE [k \in DOMAIN hits |-> <<hits[k], j>>]
  IN  FlattenSeq([k \in DOMAIN Batch(n) |-> ofRow(Batch(n)[k])])

\* Union with a filter, which means UNION ALL.
UnionAll(n) == [k \in DOMAIN Batch(n) |-> <<0, Batch(n)[k]>>]

\* The batch's rows of the left table, those in `passed' only.
LeftRows(n, passed) ==
  LET kept == Kept(Batch(n), passed)
  IN  [k \in DOMAIN kept |-> <<kept[k], 0>>]

\* In: the first filter is IN or NOTIN.
In(n) ==
  LET f == work.filtering[1]
      found(i) == Hits(hash_table, ProbeKey(left[i], <<f.lv>>)) # <<>>
  IN  LeftRows(n, {i \in 1..n : found(i) # (f.op = "NOTIN")})
------------------------------------------------------------------------------
(* Subqueries that depend on the row of the left table.                        *)

\* One filter for the pair: "keep" for a date, which no branch handles; a float
\* on the right is looked for among the integers, where its column has nothing.
Dependency(f, l, r) ==
  CASE Type[f.lv] = "date" -> "keep"
    [] Type[f.lv] # "date" /\ Type[f.rv] = "float" -> "undefined"
    [] OTHER -> IF Compare(f.op, l[f.lv], r[f.rv]) THEN "yes" ELSE "no"

\* `passed' after k filters, from what it is at the start.
PassedAfter(l, r, passed, k) ==
  LET told == {h \in 1..k : Dependency(work.dependency[h], l, r) # "keep"}
  IN  IF told = {} THEN passed ELSE Dependency(work.dependency[Max(told)], l, r)

\* The filters in order until one leaves it false.
Dependencies(l, r, passed) ==
  LET ends == {k \in DOMAIN work.dependency : PassedAfter(l, r, passed, k) \in {"no", "undefined"}}
  IN  PassedAfter(l, r, passed, IF ends = {} THEN Len(work.dependency) ELSE Min(ends))

\* DependencyExist: `exist' as the scan of the right table leaves it; without a
\* row to scan it keeps what the memory held.
Exists(i, garbage) ==
  LET outcome(j) == Dependencies(left[i], right[j], "no")
      last == {j \in DOMAIN right : outcome(j) # "no"}
  IN  IF right = <<>> THEN garbage
      ELSE IF last = {} THEN "no" ELSE outcome(Min(last))

\* is_not: any filter at all stands for NOT EXISTS.
DependencyExist(n, garbage) ==
  LeftRows(n, {i \in 1..n : (Exists(i, garbage[i]) = "yes") = (work.filtering = <<>>)})

\* DependencyInnerJoin: the minimum over the rows that pass, if there is one.
Subquery(i) == {j \in DOMAIN right : Dependencies(left[i], right[j], "no") = "yes"}

DependencyInnerJoin(n) ==
  LET f == work.filtering[1]
      least(i) == Min({right[j][work.projection] : j \in Subquery(i)})
  IN  LeftRows(n, {i \in 1..n : Subquery(i) # {} /\ Compare(f.op, left[i][f.lv], least(i))})

\* DependencyIn: the hash table is made over the subquery's rows with the names of
\* its projection, which are not columns there, so that every key is empty; and
\* filtering_size() is not 0, so that the test is NOT IN.
DependencyInHash(n) ==
  hash_table \cup
    {<<<<>>, j>> : j \in {x \in DOMAIN right : \E k \in DOMAIN Batch(n) :
                            Dependencies(left[Batch(n)[k]], right[x], "yes") = "yes"}}

DependencyIn(n) ==
  LET key(i) == KeyOf(left[i], <<work.filtering[1].lv>>)
  IN  LeftRows(n, {i \in 1..n : Hits(DependencyInHash(n), key(i)) = <<>>})
------------------------------------------------------------------------------
(* Reads of a column that has no such values: the process dies.               *)

\* The pairs of rows of which InnerJoin_hash looks at the non-equal filters.
Reached(n) ==
  IF EqualFilters = <<>> THEN (DOMAIN left) \X (1..n)
  ELSE {p \in (DOMAIN left) \X Range(Batch(n)) :
          <<ProbeKey(right[p[2]], RightKeys), p[1]>> \in hash_table}

\* RightOuterJoin_hash looks the left column of an equal filter up in the right
\* table, which puts an empty column there.  The dependent joins take the type of
\* the compared column before the left table is there, hence as a float.
UndefinedRead(n) ==
  LET pairs == {Dependencies(left[Batch(n)[k]], right[j],
                             IF work.type = "DEPENDENCY_IN" THEN "yes" ELSE "no") :
                  k \in DOMAIN Batch(n), j \in DOMAIN right}
  IN  \/ work.type = "INNER_JOIN" /\ \E p \in Reached(n) : Misread(left[p[1]], right[p[2]])
      \/ work.type = "RIGHT_OUTER_JOIN" /\ EqualFilters # <<>>
      \/ /\ work.type \in {"DEPENDENCY_INNER_JOIN", "DEPENDENCY_IN"}
         /\ Type[work.filtering[1].lv] # "float" \/ "undefined" \in pairs
      \/ /\ work.type = "DEPENDENCY_EXIST"
         /\ \E k \in DOMAIN Batch(n) : Exists(Batch(n)[k], "no") = "undefined"

\* What one batch of `n' rows adds; `garbage' stands for uninitialised memory.
Added(n, garbage) ==
  CASE work.type = "INNER_JOIN" -> IF EqualFilters # <<>> THEN InnerJoinHash(n)
                                   ELSE InnerJoinNestedLoop(n)
    [] work.type = "LEFT_OUTER_JOIN" -> LeftOuterJoinHash(n)
    [] work.type = "RIGHT_OUTER_JOIN" -> RightOuterJoinHash(n)
    [] work.type = "UNION" -> UnionAll(n)
    [] work.type = "IN" -> In(n)
    [] work.type = "DEPENDENCY_INNER_JOIN" -> DependencyInnerJoin(n)
    [] work.type = "DEPENDENCY_EXIST" -> DependencyExist(n, garbage)
    [] work.type = "DEPENDENCY_IN" -> DependencyIn(n)
------------------------------------------------------------------------------
(* The steps of the work's thread.                                             *)

\* Types for which nothing is streamed: Filtering is given a left table that was
\* never read, CrossJoin has no body, and Union without a filter stops there.
MakesNothing ==
  work.type \in {"FILTER", "CROSS_JOIN"} \/ (work.type = "UNION" /\ work.filtering = <<>>)

\* GetFinishedTableData and what is done before the loop.
ReadWhole ==
  /\ pc = "read"
  /\ pc' = IF MakesNothing THEN "done" ELSE "stream"
  /\ hash_table' =
       CASE work.type \in {"INNER_JOIN", "RIGHT_OUTER_JOIN"} ->
              HashTable(left, LeftKeys)
         [] work.type = "LEFT_OUTER_JOIN" -> HashTable(right, RightKeys)
         [] work.type = "IN" -> HashTable(right, <<work.filtering[1].rv>>)
         [] OTHER -> {}
  /\ target' = IF work.type = "UNION" /\ ~ MakesNothing
               THEN [i \in DOMAIN left |-> <<i, 0>>] ELSE <<>>
  /\ row_count' = Len(target')
  /\ UNCHANGED <<work, left, right, shown, finished, row_index>>

\* GetTableData returns: a batch of new rows, or all there will be.
Snapshot == shown - row_index >= BatchRows \/ finished

\* One round of the loop.
StreamBatch ==
  /\ pc = "stream"
  /\ Snapshot
  /\ row_index # shown
  /\ ~ UndefinedRead(shown)
  /\ \E garbage \in [DOMAIN left -> IF right = <<>> THEN {"yes", "no"} ELSE {"no"}] :
       target' = target \o Added(shown, garbage)
  /\ row_count' = IF work.type = "UNION" THEN row_count + shown ELSE Len(target')
  /\ hash_table' = IF work.type = "DEPENDENCY_IN" THEN DependencyInHash(shown) ELSE hash_table
  /\ row_index' = shown
  /\ pc' = IF finished THEN "done" ELSE "stream"
  /\ UNCHANGED <<work, left, right, shown, finished>>

StreamCrash ==
  /\ pc = "stream"
  /\ Snapshot
  /\ row_index # shown
  /\ UndefinedRead(shown)
  /\ pc' = "undefined"
  /\ UNCHANGED <<work, left, right, shown, finished, row_index, target, row_count, hash_table>>

\* The table was finished without another row.
StreamEnds ==
  /\ pc = "stream"
  /\ Snapshot
  /\ row_index = shown
  /\ pc' = "done"
  /\ UNCHANGED <<work, left, right, shown, finished, row_index, target, row_count, hash_table>>

Next ==
  \/ Arrive \/ ReadWhole \/ StreamBatch \/ StreamCrash \/ StreamEnds
  \/ pc \in {"done", "undefined"} /\ UNCHANGED vars

Spec == Init /\ [][Next]_vars
------------------------------------------------------------------------------
\* What the work is to compute, from the rows of the streamed table that it has
\* seen: the pairs of rows for a join, the rows of the left table for the others.
Seen == 1..row_index
Matches(l, r) == \A f \in Range(work.filtering) : Compare(f.op, l[f.lv], r[f.rv])
Depends(l, r) == \A f \in Range(work.dependency) : Compare(f.op, l[f.lv], r[f.rv])
Pairs(I, J) == {p \in I \X J : Matches(left[p[1]], right[p[2]])}
Alone(I) == {<<i, 0>> : i \in I}
SubqueryOf(i) == {right[j] : j \in {x \in DOMAIN right : Depends(left[i], right[x])}}

Expected ==
  CASE work.type = "FILTER" -> Alone(DOMAIN left)
    [] work.type \in {"INNER_JOIN", "CROSS_JOIN"} -> Pairs(DOMAIN left, Seen)
    [] work.type = "LEFT_OUTER_JOIN" ->
         LET P == Pairs(Seen, DOMAIN right)
         IN  P \cup Alone({i \in Seen : \A p \in P : p[1] # i})
    [] work.type = "RIGHT_OUTER_JOIN" ->
         LET P == Pairs(DOMAIN left, Seen)
         IN  P \cup {<<0, j>> : j \in {x \in Seen : \A p \in P : p[2] # x}}
    [] work.type = "UNION" -> Alone(DOMAIN left) \cup {<<0, j>> : j \in Seen}
    [] work.type = "IN" ->
         LET f == work.filtering[1]
             among(i) == \E j \in DOMAIN right : left[i][f.lv] = right[j][f.rv]
         IN  Alone({i \in Seen : among(i) = (f.op = "IN")})
    [] work.type = "DEPENDENCY_EXIST" ->
         Alone({i \in Seen : (SubqueryOf(i) # {}) = (work.filtering = <<>>)})
    [] work.type = "DEPENDENCY_INNER_JOIN" ->
         LET f == work.filtering[1]
             least(i) == Min({r[work.projection] : r \in SubqueryOf(i)})
         IN  Alone({i \in Seen : SubqueryOf(i) # {} /\ Compare(f.op, left[i][f.lv], least(i))})
    [] work.type = "DEPENDENCY_IN" ->
         LET f == work.filtering[1]
             among(i) == \E r \in SubqueryOf(i) : left[i][f.lv] = r[work.projection]
         IN  Alone({i \in Seen : among(i) = (f.op = "IN")})

\* However the streamed table is cut into batches, the target holds each row that
\* the work is to make from the rows seen so far, once: "hash join + nested loop
\* join", "left outer join", "left and right table union", "non dependency in",
\* "dependency join", "single table filtering" (merge_query_manager.h:90-99).
TargetExact ==
  pc \in {"stream", "done"} => IsInjective(target) /\ Range(target) = Expected

\* Where the code departs from that: an operator that is not there, a key of which
\* the two sides are written differently or one side is left out, non-equal filters
\* of an outer join or on a date, a join by IN, EXISTS where there is nothing to look at, and
\* in a subquery no filter at all or one on a date.
Departs ==
  LET join == work.type \in {"INNER_JOIN", "LEFT_OUTER_JOIN", "RIGHT_OUTER_JOIN"}
      probed(f) == IF LeftStreams THEN f.lv ELSE f.rv
      key(f) == (join /\ f.op = "EQ") \/ work.type = "IN"
  IN  \/ MakesNothing \/ work.type = "DEPENDENCY_IN"
      \/ \E f \in Range(work.filtering) :
           \/ key(f) /\ (Type[probed(f)] = "date" \/ Text(f.lv, 0) # Text(f.rv, 0))
           \/ /\ join /\ ~ key(f)
              /\ work.type # "INNER_JOIN" \/ Type[f.lv] = "date" \/ f.op \notin Comparison
      \/ work.type = "DEPENDENCY_EXIST" /\ right = <<>>
      \/ work.type \in {"DEPENDENCY_EXIST", "DEPENDENCY_INNER_JOIN"} /\ work.dependency = <<>>
      \/ \E f \in Range(work.dependency) : Type[f.lv] = "date"

\* In no other case does the target depart from it, except that a join without an
\* equal filter may hold a row more than once, if the table came in batches: outer
\* and dependent joins included, no row is lost or made up at the seam of two
\* batches, and the count of the rows is right, but for UNION ALL.
TargetExactUnlessDeparts ==
  pc \in {"stream", "done"} /\ ~ Departs =>
    /\ Range(target) = Expected
    /\ IsInjective(target) \/ (work.type = "INNER_JOIN" /\ EqualFilters = <<>>)
    /\ row_count = Len(target) \/ work.type = "UNION"
==============================================================================
