---------------------------- MODULE SnippetMessage ----------------------------
(***************************************************************************)
(* The message that the Snippet Manager makes of a scan snippet for one CSD    *)
(* (src/offloading_module/snippet_manager.cc): which blocks or whole SSTs the   *)
(* CSD is to scan, how many blocks that is, and the type and length of every    *)
(* column that comes back.  Only operators; SnippetScheduler and StorageEngine  *)
(* send the messages.                                                          *)
(*                                                                           *)
(* An SST is its position in sst_info.  info[i] is a record                      *)
(*   csds    the CSDs that hold it,                                            *)
(*   blocks  sst_block_count,                                                  *)
(*   listed  [CSD -> sequence of Block messages], <<>> for the whole SST; a      *)
(*           Block has `offsets' offsets and `lengths' lengths,                  *)
(*   part    [CSD -> partition].                                               *)
(* A projection is [kind, tokens]; a token is [is, text, type, chars, value]: an  *)
(* operator or a value, its text of so many characters, its value_type, and what  *)
(* stoi makes of it.                                                            *)
(***************************************************************************)
EXTENDS Integers, Sequences, FiniteSets, FiniteSetsExt, SequencesExt, Functions, TLC

\* One offset with a length per block, or a block whose pieces lie at several offsets.
BlocksIn(b) == IF b.offsets = 1 THEN b.lengths ELSE 1

\* What one SST adds to csd_block_count, as identities: the blocks of each run k of its
\* list, or those of the whole SST, as run 0.
WholeBlocks(info, i) == {<<i, 0>>} \X (1..info[i].blocks)
RunBlocks(info, i, k, csd) == {<<i, k>>} \X (1..BlocksIn(info[i].listed[csd][k]))

BlocksOf(info, i, csd) ==
  IF info[i].listed[csd] = <<>> THEN WholeBlocks(info, i)
  ELSE UNION {RunBlocks(info, i, k, csd) : k \in DOMAIN info[i].listed[csd]}

Listed(info, i, csd) == {<<i, k>> : k \in DOMAIN info[i].listed[csd]}

\* Faulty variant: the SSTs without blocks of their own are not counted.
CountListed(info, csd, targets) ==
  Cardinality(UNION {BlocksOf(info, i, csd) : i \in {j \in targets : info[j].listed[csd] # <<>>}})

CsdBlockCount(info, csd, targets) == Cardinality(UNION {BlocksOf(info, i, csd) : i \in targets})

\* serialize, the blocks: once there is a block, the list of whole SSTs is left out.
BlockInfo(info, csd, targets) ==
  LET blocks == UNION {Listed(info, i, csd) : i \in targets}
  IN  [partition |-> info[Min(targets)].part[csd],
       block     |-> blocks,
       sst_list  |-> IF blocks # {} THEN {}
                     ELSE {i \in targets : info[i].listed[csd] = <<>>}]
------------------------------------------------------------------------------
(* calcul_return_column_type.  The types of value_type count from INT8 = 0, those *)
(* of columns are MySQL's: 3 is INT32 and 246 is DECIMAL.                        *)

Int32 == 3
Decimal == 246
ColumnType == 10

LengthByType(t) ==
  LET known == 0 :> 1 @@ 1 :> 2 @@ 2 :> 4 @@ 3 :> 8 @@ 4 :> 4 @@ 5 :> 8 @@ 7 :> 4
               @@ 8 :> 8 @@ 14 :> 3 @@ 246 :> 7
  IN  IF t \in DOMAIN known THEN known[t] ELSE 0

MysqlType(t) ==
  LET known == 0 :> 2 @@ 1 :> 2 @@ 2 :> 3 @@ 3 :> 8 @@ 4 :> 4 @@ 5 :> 5 @@ 6 :> 246
               @@ 7 :> 14 @@ 8 :> 7 @@ 9 :> 254
  IN  IF t \in DOMAIN known THEN known[t] ELSE 0

Column(t, n) == [type |-> t, length |-> n]

\* The value after the first THEN, <<>> if there is none.
ThenValue(tokens) ==
  LET at == {j \in DOMAIN tokens : tokens[j].text = "THEN"}
  IN  IF at = {} THEN <<>> ELSE <<tokens[Min(at) + 1]>>

CaseColumn(tokens) ==
  [k \in DOMAIN ThenValue(tokens) |->
     LET v == ThenValue(tokens)[k]
     IN  Column(MysqlType(v.type), IF LengthByType(v.type) = 0 THEN v.chars ELSE LengthByType(v.type))]

\* A postfix token, on a stack of types and one of the sizes of the decimals in it.
Pushed(schema, stacks, token) ==
  LET n == Len(stacks.types)
      m == Len(stacks.sizes)
      operands == {k \in {n - 1, n} : stacks.types[k] = Decimal}
      type == IF token.type = ColumnType THEN schema[token.text].type ELSE token.type
  IN  IF token.is = "operator"
      THEN [types |-> Append(SubSeq(stacks.types, 1, n - 2),
                             IF operands = {} THEN Int32 ELSE Decimal),
            sizes |-> IF Cardinality(operands) < 2 THEN stacks.sizes
                      ELSE Append(SubSeq(stacks.sizes, 1, m - 2),
                                  stacks.sizes[m - 1] + stacks.sizes[m])]
      ELSE [types |-> Append(stacks.types, type),
            sizes |-> IF token.type = ColumnType /\ type = Decimal
                      THEN Append(stacks.sizes, 1) ELSE stacks.sizes]

\* The stacks after each number of tokens.
PostfixStacks(schema, tokens) ==
  LET stacks[k \in 0..Len(tokens)] ==
        IF k = 0 THEN [types |-> <<>>, sizes |-> <<>>]
        ELSE Pushed(schema, stacks[k - 1], tokens[k])
  IN  stacks

\* Faulty variant: the number of sizes left on the stack instead of the one on top.
ExpressionColumnKeeps(schema, tokens) ==
  LET end == PostfixStacks(schema, tokens)[Len(tokens)]
  IN  IF Last(end.types) = Int32 THEN Column(Int32, 4) ELSE Column(Decimal, 6 + Len(end.sizes))

ExpressionColumn(schema, tokens) ==
  LET end == PostfixStacks(schema, tokens)[Len(tokens)]
  IN  IF Last(end.types) = Int32 THEN Column(Int32, 4) ELSE Column(Decimal, 6 + Last(end.sizes))

\* A projection of one value: operator[] makes an entry of zeros for a literal.
SingleColumn(schema, token) ==
  IF token.text \in DOMAIN schema THEN schema[token.text] ELSE Column(0, 0)

\* The columns that one projection adds: one, or none for a CASE without THEN.
ColumnsOf(schema, p) ==
  CASE p.kind = "case"      -> CaseColumn(p.tokens)
    [] p.kind = "extract"   -> <<Column(Int32, 4)>>
    [] p.kind = "substring" -> <<Column(schema[p.tokens[2].text].type,
                                        p.tokens[4].value - p.tokens[3].value + 1)>>
    [] p.kind = "other"     -> <<IF Len(p.tokens) = 1 THEN SingleColumn(schema, p.tokens[1])
                                 ELSE ExpressionColumn(schema, p.tokens)>>

ReturnColumns(schema, projections) ==
  LET columns[k \in 0..Len(projections)] ==
        IF k = 0 THEN <<>> ELSE columns[k - 1] \o ColumnsOf(schema, projections[k])
  IN  columns[Len(projections)]

\* serialize as a whole.  `ssts' is not in the message: it says what it stands for.
Serialize(snippet, info, columns, csd, targets) ==
  [snippet |-> snippet, csd |-> csd, ssts |-> targets,
   block_info |-> BlockInfo(info, csd, targets),
   csd_block_count |-> CsdBlockCount(info, csd, targets),
   columns |-> columns]
------------------------------------------------------------------------------
(* What is asked for.                                                          *)

\* The message names all that its SSTs have on the CSD, in the partition they are
\* in, and counts just that.
Described(info, m) ==
  /\ \A i \in m.ssts : /\ info[i].part[m.csd] = m.block_info.partition
                       /\ \/ i \in m.block_info.sst_list
                          \/ /\ info[i].listed[m.csd] # <<>>
                             /\ Listed(info, i, m.csd) \subseteq m.block_info.block
  /\ m.csd_block_count =
       Cardinality((UNION {WholeBlocks(info, i) : i \in m.block_info.sst_list})
                   \cup (UNION {RunBlocks(info, b[1], b[2], m.csd) : b \in m.block_info.block}))

\* Some SSTs of the message are to be read whole and others block by block, or they
\* are in different partitions: the first ones decide.
Mixed(info, m) ==
  \E i, j \in m.ssts : \/ info[i].listed[m.csd] = <<>> /\ info[j].listed[m.csd] # <<>>
                       \/ info[i].part[m.csd] # info[j].part[m.csd]

\* What the parser of the query makes: operands before their operators, and one value
\* in the end; a CASE has a THEN with a value behind it.
Depth(tokens, k) == k - 2 * Cardinality({j \in 1..k : tokens[j].is = "operator"})

Postfix(tokens) ==
  /\ Depth(tokens, Len(tokens)) = 1
  /\ \A k \in DOMAIN tokens : tokens[k].is = "operator" => Depth(tokens, k - 1) >= 2

WellFormed(schema, p) ==
  /\ p.kind \in {"case", "extract", "substring", "other"}
  /\ p.tokens \in Seq(Range(p.tokens)) \ {<<>>}
  /\ \A t \in Range(p.tokens) :
       /\ IF t.is = "operator" THEN t.type # ColumnType ELSE t.type \in 0..ColumnType
       /\ t.type = ColumnType => t.text \in DOMAIN schema
  /\ p.kind = "other" =>
       /\ \A t \in Range(p.tokens) : t.is = "operator" <=> t.text \in {"+", "-", "*", "/"}
       /\ Postfix(p.tokens)
  /\ p.kind = "case" => /\ \E t \in Range(p.tokens) : t.text = "THEN"
                        /\ Last(p.tokens).text # "THEN"

\* The type of a value and of an operation, in MySQL's numbers: 4 and 5 are floats, 8
\* is INT64.
TypeAsked(schema, token) ==
  IF token.type = ColumnType THEN schema[token.text].type ELSE MysqlType(token.type)

Promoted(x, y) ==
  CASE Decimal \in {x, y} -> Decimal
    [] Decimal \notin {x, y} /\ {4, 5} \cap {x, y} # {} -> 5
    [] {Decimal, 4, 5} \cap {x, y} = {} /\ 8 \in {x, y} -> 8
    [] OTHER -> Int32

\* An expression's value, on one stack of types with their sizes: a product has the
\* sizes of both sides, a sum the larger one (`decimalSize' at line 217).
Evaluated(schema, stack, token) ==
  LET n == Len(stack)
      a == stack[n - 1]
      b == stack[n]
      type == TypeAsked(schema, token)
  IN  IF token.is = "operator"
      THEN Append(SubSeq(stack, 1, n - 2),
             [type |-> Promoted(a.type, b.type),
              size |-> IF token.text \in {"*", "/"} THEN a.size + b.size ELSE Max({a.size, b.size})])
      ELSE Append(stack, [type |-> type, size |-> IF type = Decimal THEN 1 ELSE 0])

StacksAsked(schema, tokens) ==
  LET stacks[k \in 0..Len(tokens)] ==
        IF k = 0 THEN <<>> ELSE Evaluated(schema, stacks[k - 1], tokens[k])
  IN  stacks

ValueAsked(schema, v) ==
  CASE v.type = ColumnType -> schema[v.text]
    [] v.type # ColumnType /\ LengthByType(v.type) # 0 -> Column(MysqlType(v.type), LengthByType(v.type))
    [] OTHER -> Column(MysqlType(v.type), v.chars)

ExpressionAsked(schema, tokens) ==
  LET result == Last(StacksAsked(schema, tokens)[Len(tokens)])
  IN  CASE result.type = Decimal -> Column(Decimal, 6 + result.size)
        [] result.type \in {5, 8} -> Column(result.type, 8)
        [] OTHER -> Column(Int32, 4)

Asked(schema, p) ==
  CASE p.kind = "extract"   -> Column(Int32, 4)
    [] p.kind = "substring" -> Column(schema[p.tokens[2].text].type,
                                      p.tokens[4].value - p.tokens[3].value + 1)
    [] p.kind = "case"      -> ValueAsked(schema, ThenValue(p.tokens)[1])
    [] p.kind = "other"     -> IF Len(p.tokens) = 1 THEN ValueAsked(schema, p.tokens[1])
                               ELSE ExpressionAsked(schema, p.tokens)

Decimals(schema, p) ==
  {j \in DOMAIN p.tokens : p.tokens[j].type = ColumnType /\ schema[p.tokens[j].text].type = Decimal}

\* Some sum or difference has decimals on both sides.
AddsDecimals(schema, tokens) ==
  \E k \in DOMAIN tokens :
    LET stack == StacksAsked(schema, tokens)[k - 1]
    IN  /\ tokens[k].text \in {"+", "-"}
        /\ stack[Len(stack)].type = Decimal
        /\ stack[Len(stack) - 1].type = Decimal

\* THEN followed by a column; a literal by itself; a sum where both sides have a decimal;
\* an operation with a literal that does not fit INT32, or on columns of such a type.
Departs(schema, p) ==
  \/ p.kind = "case" /\ ThenValue(p.tokens)[1].type = ColumnType
  \/ p.kind = "other" /\ Len(p.tokens) = 1 /\ p.tokens[1].type # ColumnType
  \/ /\ p.kind = "other"
     /\ Len(p.tokens) > 1
     /\ \/ AddsDecimals(schema, p.tokens)
        \/ \E t \in Range(p.tokens) :
             /\ t.is # "operator"
             /\ TypeAsked(schema, t) \in {4, 5, 8, Decimal}
             /\ t.type # ColumnType \/ Decimals(schema, p) = {}
==============================================================================
