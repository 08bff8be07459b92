----------------------------- MODULE Conditions -----------------------------
(***************************************************************************)
(* What src/manager.c keeps of a WHERE clause: one comparison per column   *)
(* (struct SelectField), and the test of a row against them.  The three    *)
(* copies of that test (SELECT, UPDATE, DELETE, each once for the scan and *)
(* once for the index path) are one operator here.                         *)
(*                                                                         *)
(* Columns hold integers; the code compares FLOAT and STRING columns the   *)
(* same way with atof and strcmp.                                          *)
(***************************************************************************)
EXTENDS Integers, Sequences

CONSTANTS Fields,    \* the columns of a table
          None       \* no operand of that kind

(* The elements of a sequence that are in a set, in their order: what a    *)
(* loop gathers that tests one after the other.                            *)
Among(seq, set) ==
  LET found[n \in 0..Len(seq)] ==
        IF n = 0 THEN <<>>
        ELSE IF seq[n] \in set THEN Append(found[n - 1], seq[n]) ELSE found[n - 1]
  IN  found[Len(seq)]

Comparisons == {"TK_LT", "TK_LE", "TK_GT", "TK_GE", "TK_EQ", "TK_NE"}

(* The op of a column no condition mentions. *)
TK_SEMICOLON == "TK_SEMICOLON"

(* struct Condition: on each side a column or a value, the other is None. *)
Condition(values) ==
  [leftField  : Fields \cup {None}, leftValue  : values \cup {None},
   op : Comparisons,
   rightField : Fields \cup {None}, rightValue : values \cup {None}]

SelectField(values) == [op : Comparisons \cup {TK_SEMICOLON}, value : values \cup {None}]

NewSelectField == [op |-> TK_SEMICOLON, value |-> None]

Compare(a, op, b) ==
  \/ op = "TK_EQ" /\ a = b
  \/ op = "TK_NE" /\ a # b
  \/ op = "TK_LT" /\ a < b
  \/ op = "TK_LE" /\ a <= b
  \/ op = "TK_GT" /\ a > b
  \/ op = "TK_GE" /\ a >= b

(* Slip: the operator is stored as it is written. *)
MirroredSlip(op) == op

(* The operator stored for "value op column". *)
Mirrored(op) ==
  [o \in Comparisons |-> CASE o = "TK_LE" -> "TK_GT"
                           [] o = "TK_LT" -> "TK_GE"
                           [] o = "TK_GT" -> "TK_LE"
                           [] o = "TK_GE" -> "TK_LT"
                           [] OTHER       -> o][op]

(* A condition without a value is refused. *)
Supported(c) == c.leftValue # None \/ c.rightValue # None

(* The column a condition is stored in, if it is one of those at hand. *)
Target(c) == IF c.leftValue # None THEN c.rightField ELSE c.leftField

(* One round of the loop over the conditions: the last one on a column wins. *)
Store(sField, c) ==
  [f \in DOMAIN sField |->
     IF f # Target(c) THEN sField[f]
     ELSE IF c.leftValue # None
          THEN [op |-> Mirrored(c.op), value |-> c.leftValue]
          ELSE [op |-> c.op, value |-> c.rightValue]]

(* CheckConditionList as a whole, starting from columns without conditions. *)
Filter(columns, list) ==
  LET stored[n \in 0..Len(list)] ==
        IF n = 0 THEN [f \in columns |-> NewSelectField]
        ELSE Store(stored[n - 1], list[n])
  IN  stored[Len(list)]

(* Slip: a row stays if some column is fine. *)
PassesSlip(row, sField) ==
  \E f \in DOMAIN sField :
    \/ sField[f].op = TK_SEMICOLON
    \/ Compare(row[f], sField[f].op, sField[f].value)

(* A row stays if no stored comparison rejects it. *)
Passes(row, sField) ==
  \A f \in DOMAIN sField :
    \/ sField[f].op = TK_SEMICOLON
    \/ Compare(row[f], sField[f].op, sField[f].value)

(* What a condition says, whichever side the column is on. *)
Operand(row, field, value) == IF value # None THEN value ELSE row[field]

Holds(row, c) ==
  Compare(Operand(row, c.leftField, c.leftValue), c.op,
          Operand(row, c.rightField, c.rightValue))

=============================================================================
