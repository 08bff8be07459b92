------------------------------ MODULE Grammar -------------------------------
(***************************************************************************)
(* What the twelve Parse... functions of src/parser.c accept, token by     *)
(* token.  A statement is a sequence of slots; a slot is the set of token  *)
(* types the code goes on with, or names the function that reads a part of *)
(* the statement.  Such a part is a small automaton, a set of edges.       *)
(***************************************************************************)
EXTENDS Conditions

Name    == {"TK_ID", "VAL_STRING"}
Literal == {"VAL_STRING", "VAL_INT", "VAL_FLOAT"}
Types   == {"TK_STRING", "TK_INT", "TK_FLOAT"}

Kept    == {"kept"}     \* a slot whose token is taken without a look
Skipped == {"skipped"}  \* a slot whose token is read and thrown away

(* functionTable *)
Statements ==
  <<"ParseCreateTable", "ParseCreateIndex", "ParseCreateDatabase",
    "ParseDropIndex", "ParseDropDataBase", "ParseDropTable",
    "ParseUseDatabase", "ParseUpdate", "ParseInsert", "ParseDelete",
    "ParseSelect", "ParseShow">>

ParseCreateTable ==
  <<{"TK_CREATE"}, {"TK_TABLE"}, Name, {"TK_LPAREN"}, {"ParseAttrTypeList"},
    {"TK_SEMICOLON"}>>

ParseCreateIndex ==
  <<{"TK_CREATE"}, {"TK_INDEX"}, {"TK_ON"}, Kept, {"TK_LPAREN"}, Name,
    {"TK_RPAREN"}, {"TK_SEMICOLON"}>>

ParseCreateDatabase ==
  <<{"TK_CREATE"}, {"TK_DATABASE"}, Name, {"TK_SEMICOLON"}>>

ParseDropIndex ==
  <<{"TK_DROP"}, {"TK_INDEX"}, {"TK_ID"}, {"TK_LPAREN"}, {"TK_ID"},
    {"TK_RPAREN"}, {"TK_SEMICOLON"}>>

ParseDropDataBase ==
  <<{"TK_DROP"}, {"TK_DATABASE"}, {"TK_ID"}, {"TK_SEMICOLON"}>>

(* Slip: the second keyword is not looked at. *)
ParseDropTableSlip ==
  <<{"TK_DROP"}, Skipped, {"TK_ID"}, {"TK_SEMICOLON"}>>

ParseDropTable ==
  <<{"TK_DROP"}, {"TK_TABLE"}, {"TK_ID"}, {"TK_SEMICOLON"}>>

ParseUseDatabase == <<{"TK_USE"}, Name, {"TK_SEMICOLON"}>>

ParseShow == <<{"TK_SHOW"}, {"TK_ID"}, {"TK_SEMICOLON"}>>

ParseUpdate ==
  <<{"TK_UPDATE"}, {"TK_ID"}, {"TK_SET"}, {"TK_ID"}, {"TK_EQ"}, Literal,
    Skipped, {"GetExpr"}>>

ParseDelete ==
  <<{"TK_DELETE"}, {"TK_FROM"}, {"TK_ID"}, Skipped, {"GetExpr"}>>

ParseSelect ==
  <<{"TK_SELECT"}, {"GetColList"}, {"GetTableList"}, {"GetExpr"}, {"GetOrderBy"}>>

ParseInsert ==
  <<{"TK_INSERT"}, {"TK_INTO"}, {"TK_ID", "TK_STRING"},
    {"TK_VALUES", "TK_LPAREN"}, {"ParseAttrList"}, Skipped, {"TK_LPAREN"},
    {"ParseValueList"}, {"TK_SEMICOLON"}>>

Slots ==
  [ParseCreateTable |-> ParseCreateTable, ParseCreateIndex |-> ParseCreateIndex,
   ParseCreateDatabase |-> ParseCreateDatabase, ParseDropIndex |-> ParseDropIndex,
   ParseDropDataBase |-> ParseDropDataBase, ParseDropTable |-> ParseDropTable,
   ParseUseDatabase |-> ParseUseDatabase, ParseUpdate |-> ParseUpdate,
   ParseInsert |-> ParseInsert, ParseDelete |-> ParseDelete,
   ParseSelect |-> ParseSelect, ParseShow |-> ParseShow]

(* The slot after slot i.  INSERT has two optional parts: without a list of *)
(* columns VALUES comes at once, and what is not VALUES goes to the end.    *)
After(statement, i, type) ==
  IF statement = "ParseInsert" /\ i = 4 /\ type = "TK_VALUES" THEN 7
  ELSE IF statement = "ParseInsert" /\ i = 6 /\ type # "TK_VALUES" THEN 9
  ELSE i + 1

-----------------------------------------------------------------------------
(* The recursive lists: what one item consists of. *)
Item ==
  [ParseAttrTypeList |-> <<Name, Types>>,
   ParseAttrList     |-> <<Name>>,
   ParseValueList    |-> <<Name \cup Literal>>]

(* The other parts.  A token of one of these types, met in one of these    *)
(* states, plays a role in what is built and leads to the next state.      *)
Edge(at, types, role, next) == [at |-> at, types |-> types, role |-> role, next |-> next]

GetColListEdges ==
  {Edge({"start"}, {"TK_STAR"}, "none", "star"),
   Edge({"star"}, {"TK_FROM"}, "none", "leave"),
   Edge({"start", "more"}, Name, "column", "name"),
   Edge({"name"}, {"TK_DOT"}, "none", "dot"),
   Edge({"dot"}, {"TK_ID"}, "ofTable", "qualified"),
   Edge({"name", "qualified"}, {"TK_AS"}, "none", "as"),
   Edge({"name", "qualified", "as"}, Name, "nickName", "nicknamed"),
   Edge({"name", "qualified", "nicknamed"}, {"TK_COMMA"}, "none", "more"),
   Edge({"name", "qualified", "nicknamed"}, {"TK_FROM"}, "none", "leave")}

(* Slip: the loop looks for a name and forgets that the text may have ended. *)
GetTableListEdgesSlip ==
  {Edge({"start", "more"}, Name, "table", "name"),
   Edge({"start", "more"}, {"TK_MINUS", "end"}, "none", "more"),
   Edge({"name"}, {"TK_COMMA"}, "none", "more"),
   Edge({"name"}, {"TK_SEMICOLON", "TK_WHERE"}, "none", "leave")}

GetTableListEdges ==
  {Edge({"start", "more"}, Name, "table", "name"),
   Edge({"name"}, {"TK_COMMA"}, "none", "more"),
   Edge({"name"}, {"TK_SEMICOLON", "TK_WHERE"}, "none", "leave")}

(* Slip: what stands in front of the dot is forgotten. *)
GetExprEdgesSlip ==
  {Edge({"start", "left"}, Literal, "leftValue", "op"),
   Edge({"start", "left"}, {"TK_ID"}, "leftField", "leftId"),
   Edge({"leftId"}, {"TK_DOT"}, "none", "leftDot"),
   Edge({"leftDot"}, {"TK_ID"}, "leftField", "op"),
   Edge({"leftId", "op"}, Comparisons, "op", "right"),
   Edge({"right"}, Literal, "rightValue", "and"),
   Edge({"right"}, {"TK_ID"}, "rightField", "rightId"),
   Edge({"rightId"}, {"TK_DOT"}, "reopen", "rightDot"),
   Edge({"rightDot"}, {"TK_ID"}, "rightTable", "and"),
   Edge({"rightId", "and"}, {"TK_AND"}, "none", "left")}

GetExprEdges ==
  {Edge({"start", "left"}, Literal, "leftValue", "op"),
   Edge({"start", "left"}, {"TK_ID"}, "leftField", "leftId"),
   Edge({"leftId"}, {"TK_DOT"}, "none", "leftDot"),
   Edge({"leftDot"}, {"TK_ID"}, "leftTable", "op"),
   Edge({"leftId", "op"}, Comparisons, "op", "right"),
   Edge({"right"}, Literal, "rightValue", "and"),
   Edge({"right"}, {"TK_ID"}, "rightField", "rightId"),
   Edge({"rightId"}, {"TK_DOT"}, "reopen", "rightDot"),
   Edge({"rightDot"}, {"TK_ID"}, "rightTable", "and"),
   Edge({"rightId", "and"}, {"TK_AND"}, "none", "left")}

GetOrderByEdges ==
  {Edge({"start"}, {"TK_BY"}, "none", "by"),
   Edge({"by"}, Name, "orderBy", "order"),
   Edge({"order"}, {"TK_DOT"}, "orderDot", "dot"),
   Edge({"dot"}, Name, "orderField", "qualified"),
   Edge({"order", "dot", "qualified"}, {"TK_ASC", "TK_DESC"}, "asc", "last")}

(* A token that no edge takes ends the part, in these states without an    *)
(* error: GetExpr and GetOrderBy know none.                                *)
Lenient ==
  [GetColList   |-> {"start", "more"},
   GetTableList |-> {"start", "more"},
   GetExpr      |-> UNION {e.at : e \in GetExprEdges},
   GetOrderBy   |-> (UNION {e.at : e \in GetOrderByEdges}) \cup {"last"}]

=============================================================================
