------------------------------ MODULE RowFormat ------------------------------
(***************************************************************************)
(* The way of a cell from the bytes a CSD sends to the text of the answer:     *)
(* getColOffset and mergeResult (src/merging_module/buffer_manager.cc) cut and  *)
(* decode the rows, save_table_column_type (buffer_manager.h) chooses the       *)
(* vector, GetQueryResult (merging_interface.cc) makes protobuf columns of the  *)
(* vectors, formatTable (merging_module_connector.h) prints them.  Only         *)
(* operators; StorageEngine sends rows through them.                           *)
(*                                                                           *)
(* A column is [type, length], as the snippet declared it.  A cell is a record  *)
(*   [is |-> "int", bytes]    8 bytes, the lowest first,                        *)
(*   [is |-> "float", tenths],                                                 *)
(*   [is |-> "decimal", negative, whole, fraction]   whole: 6 bytes, the        *)
(*                            highest first; fraction: in units of the scale,   *)
(*   [is |-> "date", day]     <<year, month, day>>,                             *)
(*   [is |-> "string", chars] a sequence of bytes,                              *)
(* or Blank.  Texts are not spelled out: a printed cell is such a record.       *)
(***************************************************************************)
EXTENDS Integers, Sequences, SequencesExt, Functions, TLC

Byte == 0..255

\* keti_type.h, MySQL_DataType.
MySQL_BYTE == 1
MySQL_INT16 == 2
MySQL_INT32 == 3
MySQL_FLOAT32 == 4
MySQL_DOUBLE == 5
MySQL_TIMESTAMP == 7
MySQL_INT64 == 8
MySQL_DATE == 14
MySQL_VARSTRING == 15
MySQL_NEWDECIMAL == 246
MySQL_STRING == 254

Width == [t \in {MySQL_BYTE, MySQL_INT16, MySQL_INT32, MySQL_INT64, MySQL_TIMESTAMP} |->
            CASE t = MySQL_BYTE -> 1 [] t = MySQL_INT16 -> 2 [] t = MySQL_INT64 -> 8 [] OTHER -> 4]
Blank == [is |-> "blank"]
Undefined == [is |-> "undefined"]
Zeros(n) == [k \in 1..n |-> 0]

\* The value of up to four bytes, the lowest first; the same as a signed number; and back.
Unit == <<1, 256, 65536, 16777216>>
Part(bytes, k) == IF k \in DOMAIN bytes THEN bytes[k] * Unit[k] ELSE 0
Value(bytes) == Part(bytes, 1) + Part(bytes, 2) + Part(bytes, 3) + Part(bytes, 4)
Signed(bytes) ==
  LET v == Value(bytes)
  IN  IF Last(bytes) < 128 THEN v ELSE v - 256 * Unit[Len(bytes)]
Bytes(v, n) == [k \in 1..n |-> IF k \in DOMAIN Unit THEN (v \div Unit[k]) % 256 ELSE 0]

\* A shorter integer as one of 8 bytes, with its sign.
Extended(bytes) ==
  bytes \o [k \in 1..(8 - Len(bytes)) |-> IF Last(bytes) < 128 THEN 0 ELSE 255]

Complement(bytes) == [k \in DOMAIN bytes |-> 255 - bytes[k]]
------------------------------------------------------------------------------
(* The CSD's side, from what the decoding expects of it (it is not in this      *)
(* repository): MySQL's encodings; a negative decimal is the complement of all  *)
(* the bytes of its absolute value, and what has no type is not filled in.      *)

Encoded(column, cell) ==
  LET n == column.length
      t == column.type
  IN  CASE t \in DOMAIN Width      -> SubSeq(cell.bytes, 1, Width[t])
        [] t \in {MySQL_FLOAT32, MySQL_DOUBLE} -> <<cell.tenths>> \o Zeros(n - 1)
        [] t = MySQL_NEWDECIMAL ->
             LET absolute == <<cell.whole[1] + 128>> \o Tail(cell.whole)
                             \o Bytes(cell.fraction, n - 6)
             IN  IF cell.negative THEN Complement(absolute) ELSE absolute
        [] t = MySQL_DATE      -> Bytes(cell.day[1] * 512 + cell.day[2] * 32 + cell.day[3], 3)
        [] t = MySQL_STRING    -> cell.chars \o [k \in 1..(n - Len(cell.chars)) |-> 32]
        [] t = MySQL_VARSTRING -> Bytes(Len(cell.chars), IF n < 256 THEN 1 ELSE 2) \o cell.chars
        [] OTHER         -> Zeros(n)

EncodedRow(columns, row) == FlattenSeq([j \in DOMAIN columns |-> Encoded(columns[j], row[j])])
------------------------------------------------------------------------------
(* getColOffset: `offset' adds up the declared lengths, `tune' what the strings *)
(* before are longer or shorter than that.                                     *)

\* Faulty variant: the prefix of a long string is taken to be one byte.
PrefixOne(length) == 1

Prefix(length) == IF length < 256 THEN 1 ELSE 2

ColumnOffsets(bytes, columns) ==
  LET step[k \in 0..Len(columns)] ==
        IF k = 0 THEN [offset |-> 0, tune |-> 0]
        ELSE LET s == step[k - 1]
                 at == s.offset + s.tune
                 n == columns[k].length
                 grown == IF columns[k].type # MySQL_VARSTRING THEN 0
                          ELSE Value(SubSeq(bytes, at + 1, at + Prefix(n))) + Prefix(n) - n
             IN  [offset |-> s.offset + n, tune |-> s.tune + grown]
  IN  [k \in 1..Len(columns) |-> step[k - 1].offset + step[k - 1].tune]

\* A C string ends at its first zero byte.
Cut(chars) == LET n == {k \in DOMAIN chars : chars[k] = 0}
              IN  IF n = {} THEN chars
                  ELSE SubSeq(chars, 1, (CHOOSE k \in n : \A j \in n : k <= j) - 1)

\* A decimal: six bytes before the point, one to three after it.  Only the first
\* seven are complemented back, and of another length the fraction has no value.
DecodedDecimal(bytes) ==
  LET n == Len(bytes)
      negative == bytes[1] < 128
      b == IF negative THEN Complement(SubSeq(bytes, 1, 7)) \o SubSeq(bytes, 8, n) ELSE bytes
      after == SubSeq(b, 7, n)
  IN  IF n \notin {7, 8, 9} THEN Undefined
      ELSE [is |-> "decimal", negative |-> negative,
            whole |-> <<(b[1] + 128) % 256>> \o SubSeq(b, 2, 6),
            fraction |-> IF n = 9 THEN Value(after) ELSE Signed(after)]

\* The switch of mergeResult: the value it appends to the column, if any.
Decoded(type, bytes) ==
  LET n == Len(bytes)
  IN  CASE type \in DOMAIN Width      -> <<[is |-> "int", bytes |-> Extended(SubSeq(bytes, 1, Width[type]))]>>
        [] type \in {MySQL_FLOAT32, MySQL_DOUBLE} -> <<[is |-> "float", tenths |-> bytes[1]]>>
        [] type = MySQL_NEWDECIMAL          -> <<DecodedDecimal(bytes)>>
        [] type = MySQL_DATE                -> <<[is |-> "int", bytes |-> Extended(bytes \o <<0>>)]>>
        [] type = MySQL_STRING              -> <<[is |-> "string", chars |-> Cut(bytes)]>>
        [] type = MySQL_VARSTRING           -> <<[is |-> "string",
                                            chars |-> Cut(SubSeq(bytes, IF n < 258 THEN 2 ELSE 3, n))]>>
        [] OTHER                      -> <<>>

\* The cells of a row.
DecodedRow(bytes, columns) ==
  LET at == Append(ColumnOffsets(bytes, columns), Len(bytes))
  IN  [j \in DOMAIN columns |-> Decoded(columns[j].type, SubSeq(bytes, at[j] + 1, at[j + 1]))]

\* A column of the table: the values appended, row by row.
DecodedColumn(rows, columns, j) ==
  FlattenSeq([i \in DOMAIN rows |-> DecodedRow(rows[i], columns)[j]])
------------------------------------------------------------------------------
(* save_table_column_type, GetQueryResult and formatTable.                      *)

ColumnKind(type) ==
  CASE type \in DOMAIN Width                  -> "TYPE_INT"
    [] type \in {MySQL_FLOAT32, MySQL_DOUBLE, MySQL_NEWDECIMAL} -> "TYPE_FLOAT"
    [] type = MySQL_DATE                            -> "TYPE_DATE"
    [] type \in {MySQL_STRING, MySQL_VARSTRING}           -> "TYPE_STRING"
    [] OTHER                                  -> "TYPE_EMPTY"

\* How many digits are printed after the point.
RealSize(column) == IF column.type = MySQL_NEWDECIMAL THEN (column.length - 6) * 2 ELSE 0

\* int_col holds int32.
Narrowed(bytes) == Extended(SubSeq(bytes, 1, 4))

\* A cell as it is printed.
Printed(column, cell) ==
  LET kind == ColumnKind(column.type)
      number == Signed(SubSeq(cell.bytes, 1, 4))
  IN  CASE kind = "TYPE_INT"   -> [cell EXCEPT !.bytes = Narrowed(@)]
        [] kind = "TYPE_DATE"  -> [is |-> "date", day |-> <<number \div 512, (number % 512) \div 32, (number % 512) % 32>>]
        [] kind = "TYPE_FLOAT" -> IF cell.is = "float" /\ RealSize(column) = 0
                                  THEN [cell EXCEPT !.tenths = 10 * ((@ + 5) \div 10)] ELSE cell
        [] OTHER               -> cell

\* The table: row_count rows, where a column that is too short leaves blanks.
Answered(rows, columns) ==
  LET values == [j \in DOMAIN columns |-> DecodedColumn(rows, columns, j)]
  IN  [i \in DOMAIN rows |->
         [j \in DOMAIN columns |->
            IF i \in DOMAIN values[j] THEN Printed(columns[j], values[j][i]) ELSE Blank]]
------------------------------------------------------------------------------
(* Where the text printed is not the cell that was stored: no type declared; a  *)
(* decimal declared longer than 9, or negative and longer than 7; an integer     *)
(* beyond int32; a fraction in a float; a long string column with a short value, *)
(* whose second prefix byte, a zero, ends the text.                             *)
CellDeparts(column, cell) ==
  LET t == column.type
      n == column.length
  IN  \/ ColumnKind(t) = "TYPE_EMPTY"
      \/ t = MySQL_NEWDECIMAL /\ (n \notin {7, 8, 9} \/ (n # 7 /\ cell.negative))
      \/ t = MySQL_INT64 /\ cell.bytes # Narrowed(cell.bytes)
      \/ t \in {MySQL_FLOAT32, MySQL_DOUBLE} /\ cell.tenths % 10 # 0
      \/ t = MySQL_VARSTRING /\ n >= 256 /\ cell.chars # <<>> /\ Len(cell.chars) < 256

\* What may be stored in a column so declared: an integer in the width of its type; a decimal
\* with two digits for each byte after the point; a date; a text without zero bytes.
IntegerFits(column, cell) ==
  /\ column.length = Width[column.type]
  /\ cell \in [is : {"int"}, bytes : [1..8 -> Byte]]
  /\ cell.bytes = Extended(SubSeq(cell.bytes, 1, column.length))

FloatFits(column, cell) == column.length > 0 /\ cell \in [is : {"float"}, tenths : Int]

DecimalFits(column, cell) ==
  /\ column.length > 6
  /\ cell \in [is : {"decimal"}, negative : BOOLEAN, whole : [1..6 -> Byte], fraction : Nat]
  /\ cell.whole[1] < 128
  /\ \A n \in 1..3 : column.length = 6 + n => cell.fraction < 100 ^ n

Year == 0..9999
Month == 0..12
Day == 0..31
DateFits(column, cell) == column.length = 3 /\ cell \in [is : {"date"}, day : Year \X Month \X Day]

TextFits(column, cell) ==
  /\ cell \in [is : {"string"}, chars : Seq(1..255)]
  /\ IF column.type = MySQL_STRING THEN Len(cell.chars) <= column.length
     ELSE Len(cell.chars) < 256 ^ (IF column.length < 256 THEN 1 ELSE 2)

CellFits(column, cell) ==
  /\ column.length \in Nat
  /\ column.type \in DOMAIN Width => IntegerFits(column, cell)
  /\ column.type \in {MySQL_FLOAT32, MySQL_DOUBLE} => FloatFits(column, cell)
  /\ column.type = MySQL_NEWDECIMAL => DecimalFits(column, cell)
  /\ column.type = MySQL_DATE => DateFits(column, cell)
  /\ column.type \in {MySQL_STRING, MySQL_VARSTRING} => TextFits(column, cell)

\* The padding of a MySQL_STRING is printed with it.
Stored(column, cell) ==
  IF column.type = MySQL_STRING THEN [cell EXCEPT !.chars = Encoded(column, cell)] ELSE cell

RowShown(columns, stored, shown) ==
  \A j \in DOMAIN columns :
    CellDeparts(columns[j], stored[j]) \/ shown[j] = Stored(columns[j], stored[j])
==============================================================================
