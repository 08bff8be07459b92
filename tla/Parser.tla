------------------------------- MODULE Parser --------------------------------
(***************************************************************************)
(* ParseSQL of src/parser.c: the text of one statement is offered to the   *)
(* twelve Parse... functions one after the other, each of which reads it   *)
(* from the start, until one calls the manager and the call succeeds.      *)
(*                                                                         *)
(* A client types any text.  Its tokens are chosen when they are first     *)
(* read: after a token that is not expected nothing more is asked for, so  *)
(* one unexpected token stands for all.                                    *)
(***************************************************************************)
EXTENDS Grammar, Query

CONSTANTS Values,     \* the integers in statements
          Quoted,     \* the names a client types in quotes
          MaxTokens,  \* bound: the length of a text
          MaxOptions  \* bound: how many tokens of a text are optional

ASSUME ValuesAssumption == Values \subseteq Int /\ None \notin Values

ASSUME BoundsAssumption == MaxTokens \in Nat

VARIABLES
  text,   \* the tokens read so far
  pos,    \* lastSql: the token GetToken hands over next
  fn,     \* the element of functionTable that is running
  slot,   \* how far its statement is read
  at,     \* how far the part in this slot is read
  cond,   \* the condition GetExpr is reading
  tree,   \* what has been read
  calls,  \* the calls of the manager for this text
  pc      \* "parsing", "answered", or "crashed"

vars == <<text, pos, fn, slot, at, cond, tree, calls, pc>>

Keyword(type) == [type |-> type, at |-> None]
Id(name)      == [type |-> "TK_ID", at |-> name]

(* The end of the text, or a character no token starts with: n is 0. *)
End == Keyword("end")

NoCondition ==
  [leftTable |-> None, leftField |-> None, leftValue |-> None, op |-> "TK_EQ",
   rightTable |-> None, rightField |-> None, rightValue |-> None]

NoOrder == [table |-> None, field |-> None, asc |-> TRUE]

Nothing ==
  [words |-> <<>>, attrs |-> <<>>, values |-> <<>>, cols |-> <<>>, tables |-> <<>>,
   list |-> <<>>, orderBy |-> NoOrder]

Init ==
  /\ text = <<>>
  /\ pos = 1
  /\ fn = 1
  /\ slot = 1
  /\ at = "start"
  /\ cond = NoCondition
  /\ tree = Nothing
  /\ calls = <<>>
  /\ pc = "parsing"

-----------------------------------------------------------------------------
Statement == Statements[fn]
Slot      == Slots[Statement][slot]
Reading   == pc = "parsing" /\ slot <= Len(Slots[Statement])

(* The tokens a client may type where one of these types is expected, and  *)
(* one that is expected nowhere.                                           *)
Optional == {"TK_DOT", "TK_AS", "TK_COMMA", "TK_AND", "TK_ORDER", "VAL_STRING", "TK_MINUS"}

Options == Cardinality({n \in DOMAIN text : text[n].type \in Optional})

Typed(types, names) ==
  LET word(type, words) == {[type |-> type, at |-> w] : w \in IF type \in types THEN words ELSE {}}
      tokens == word("TK_ID", names) \cup word("VAL_INT", Values)
                  \cup (IF "VAL_INT" \in types THEN {} ELSE word("VAL_STRING", Quoted))
                  \cup {Keyword(type) : type \in types \ (Name \cup Literal)}
                  \cup {Keyword("TK_MINUS"), End}
  IN  {k \in tokens : k.type \in Optional => Options < MaxOptions}

(* GetToken: a token that was read before comes again.  Bounds: the length *)
(* of a text, and that it has nothing behind its semicolon.                *)
GetToken(types, names) ==
  IF pos <= Len(text) THEN {text[pos]}
  ELSE IF Len(text) = MaxTokens \/ Keyword("TK_SEMICOLON") \in ToSet(text) THEN {End}
  ELSE Typed(types, names)

Read(token) == text' = IF pos <= Len(text) THEN text ELSE Append(text, token)

(* Slip: the end of the text is passed like any other token. *)
AdvanceSlip(token) == pos' = pos + 1

Advance(token) == pos' = IF token = End THEN pos ELSE pos + 1

(* The function returns an error, or does not know the statement. *)
NextFunction ==
  /\ pos' = 1
  /\ slot' = 1
  /\ at' = "start"
  /\ cond' = NoCondition
  /\ tree' = Nothing
  /\ IF fn = Len(Statements) THEN pc' = "answered" /\ fn' = fn
                             ELSE pc' = pc /\ fn' = fn + 1

Fail == NextFunction /\ UNCHANGED calls

(* On to the next slot, or to another state in this one. *)
NextSlot(token) ==
  /\ slot' = After(Statement, slot, token.type)
  /\ at' = "start"
  /\ UNCHANGED <<fn, calls, pc>>

Stay(state) ==
  /\ at' = state
  /\ UNCHANGED <<fn, slot, calls, pc>>

-----------------------------------------------------------------------------
(* A token of the statement itself. *)
Expected(token) == Slot \in {Kept, Skipped} \/ token.type \in Slot

Keep(token) ==
  IF Slot = Kept \/ (Slot # Skipped /\ token.type \in Name \cup Literal \cup Types)
  THEN [tree EXCEPT !.words = Append(@, token)]
  ELSE tree

(* Bound: of the words of a statement the first is a table, the others columns. *)
SlotNames == IF tree.words = <<>> THEN Tables ELSE Fields

SlotTypes ==
  CASE slot = 1       -> UNION {Slots[s][1] : s \in DOMAIN Slots}
    [] slot = 2       -> UNION {Slots[s][2] : s \in {r \in DOMAIN Slots : Slots[r][1] = Slots[Statement][1]}}
    [] Slot = Kept    -> Name
    [] Slot = Skipped -> IF Statement = "ParseInsert" THEN {"TK_VALUES"} ELSE {"TK_WHERE"}
    [] OTHER          -> Slot

ReadToken ==
  /\ Reading
  /\ Slot \in {Kept, Skipped} \/ Slot \cap (DOMAIN Item \cup DOMAIN Lenient) = {}
  /\ \E token \in GetToken(SlotTypes, SlotNames) :
       /\ Read(token)
       /\ \/ /\ Expected(token)
             /\ Advance(token)
             /\ tree' = Keep(token)
             /\ NextSlot(token)
             /\ UNCHANGED cond
          \/ ~Expected(token) /\ Fail

(* Prepend reads the number of childs of the list it gets, which is NULL    *)
(* when a list breaks off behind a comma; ParseAttrList looks first.       *)
PrependCrashes(reader, n) == n >= Len(Item[reader]) /\ reader # "ParseAttrList"

(* ParseAttrTypeList, ParseAttrList, ParseValueList: a list without a      *)
(* first item is an error.                                                 *)
ReadList(reader, part) ==
  LET item   == Item[reader]
      n      == Len(tree[part])
      types  == item[1 + (n % Len(item))]
      isDue  == at = "start"
      breaks == PrependCrashes(reader, n)
  IN  /\ Reading
      /\ Slot = {reader}
      /\ \E token \in GetToken(IF isDue THEN types ELSE {"TK_COMMA", "TK_RPAREN"}, Fields) :
           /\ Read(token)
           /\ \/ /\ isDue /\ token.type \in types
                 /\ Advance(token)
                 /\ tree' = [tree EXCEPT ![part] = Append(@, token)]
                 /\ Stay(IF (n + 1) % Len(item) = 0 THEN "separator" ELSE "start")
                 /\ UNCHANGED cond
              \/ isDue /\ token.type \notin types /\ ~breaks /\ Fail
              \/ /\ isDue /\ token.type \notin types /\ breaks
                 /\ pc' = "crashed"
                 /\ UNCHANGED <<pos, fn, slot, at, cond, tree, calls>>
              \/ /\ ~isDue
                 /\ Advance(token)
                 /\ IF token.type = "TK_COMMA" THEN Stay("start") ELSE NextSlot(token)
                 /\ UNCHANGED <<cond, tree>>

ParseAttrTypeList == ReadList("ParseAttrTypeList", "attrs")
ParseAttrList     == ReadList("ParseAttrList", "attrs")
ParseValueList    == ReadList("ParseValueList", "values")

-----------------------------------------------------------------------------
(* What a token changes in the condition or in the tree, by its role. *)
NewCond(role, token) ==
  CASE role = "leftValue"  -> [NoCondition EXCEPT !.leftValue = token.at]
    [] role = "leftField"  -> [NoCondition EXCEPT !.leftField = token.at]
    [] role = "leftTable"  -> [cond EXCEPT !.leftTable = cond.leftField, !.leftField = token.at]
    [] role = "op"         -> [cond EXCEPT !.op = token.type]
    [] role = "rightValue" -> [cond EXCEPT !.rightValue = token.at]
    [] role = "rightField" -> [cond EXCEPT !.rightField = token.at]
    [] role = "rightTable" -> [cond EXCEPT !.rightTable = cond.rightField, !.rightField = token.at]
    [] OTHER               -> cond

SetLast(cols, f(_)) == Append(Front(cols), f(Last(cols)))

NewTree(role, token) ==
  CASE role = "column" ->
         [tree EXCEPT !.cols = Append(@, [table |-> None, field |-> token.at, nickName |-> token.at])]
    [] role = "ofTable" ->
         [tree EXCEPT !.cols = SetLast(@, LAMBDA c : [table |-> c.field, field |-> token.at, nickName |-> token.at])]
    [] role = "nickName" ->
         [tree EXCEPT !.cols = SetLast(@, LAMBDA c : [c EXCEPT !.nickName = token.at])]
    [] role = "table" -> [tree EXCEPT !.tables = Append(@, token.at)]
    [] role \in {"rightValue", "rightField", "rightTable"} ->
         [tree EXCEPT !.list = Append(@, NewCond(role, token))]
    [] role = "reopen"     -> [tree EXCEPT !.list = Front(@)]
    [] role = "orderBy"    -> [tree EXCEPT !.orderBy.field = token.at]
    [] role = "orderDot"   -> [tree EXCEPT !.orderBy.table = tree.orderBy.field]
    [] role = "orderField" -> [tree EXCEPT !.orderBy.field = token.at]
    [] role = "asc"        -> [tree EXCEPT !.orderBy.asc = token.type = "TK_ASC"]
    [] OTHER               -> tree

(* The types a client may go on with.  Bounds: a dot follows the name of a *)
(* table and nothing else does; all comparisons are tried in the first     *)
(* condition of a DELETE, two of them elsewhere.                           *)
Operators ==
  IF Statement = "ParseDelete" /\ tree.list = <<>> THEN Comparisons ELSE {"TK_EQ", "TK_GT"}

Awaited(edges) == UNION {e.types : e \in {f \in edges : at \in f.at}}

Behind(edges) ==
  CASE at \in {"name", "leftId", "rightId", "order"} /\ text[Len(text)].at \in Tables ->
         IF Slot = {"GetTableList"} THEN {"TK_COMMA", "TK_WHERE", "TK_SEMICOLON"} ELSE {"TK_DOT"}
    [] at \in {"leftId", "op"}   -> Operators
    [] at \in {"rightId", "and"} -> {"TK_AND", "TK_SEMICOLON", "TK_ORDER"}
    [] at \in {"order", "last"}  -> {"TK_ASC", "TK_DESC", "TK_SEMICOLON"}
    [] OTHER                     -> Awaited(edges) \ {"TK_DOT"}

ReadPart(reader, edges, names) ==
  /\ Reading
  /\ Slot = {reader}
  /\ LET here   == {e \in edges : at \in e.at}
         takes(token) == {e \in here : token.type \in e.types}
     IN  \E token \in GetToken(Behind(edges), names) :
           /\ Read(token)
           /\ \/ \E e \in takes(token) :
                   /\ Advance(token)
                   /\ cond' = NewCond(e.role, token)
                   /\ tree' = NewTree(e.role, token)
                   /\ IF e.next = "leave" THEN NextSlot(token) ELSE Stay(e.next)
              \/ /\ takes(token) = {} /\ at \in Lenient[reader]
                 /\ Advance(token)
                 /\ NextSlot(token)
                 /\ UNCHANGED <<cond, tree>>
              \/ takes(token) = {} /\ at \notin Lenient[reader] /\ Fail

(* Bound: a table's name in place of a column's only where a dot may follow, *)
(* and nicknames in quotes only.                                             *)
ColumnNames ==
  CASE at \in {"start", "more", "left", "right", "by"} -> Fields \cup Tables
    [] at \in {"name", "qualified", "as"}              -> {}
    [] OTHER                                           -> Fields

GetColList   == ReadPart("GetColList", GetColListEdges, ColumnNames)
GetTableList == ReadPart("GetTableList", GetTableListEdges, Tables)
GetExpr      == ReadPart("GetExpr", GetExprEdges, ColumnNames)
GetOrderBy   == ReadPart("GetOrderBy", GetOrderByEdges, ColumnNames)

-----------------------------------------------------------------------------
(* The manager is called.  It refuses what it does not find or support,    *)
(* and may refuse anything else; then the next function has its turn.      *)
Refuses(statement, t) ==
  \/ \E n \in DOMAIN t.list : ~Supported(t.list[n])
  \/ statement = "ParseSelect" /\ ~Accepts(t)

CallManager ==
  /\ pc = "parsing"
  /\ slot > Len(Slots[Statement])
  /\ calls' = Append(calls, [statement |-> Statement, tree |-> tree])
  /\ UNCHANGED text
  /\ \/ /\ ~Refuses(Statement, tree)
        /\ pc' = "answered"
        /\ UNCHANGED <<pos, fn, slot, at, cond, tree>>
     \/ NextFunction

Next ==
  \/ ReadToken
  \/ ParseAttrTypeList \/ ParseAttrList \/ ParseValueList
  \/ GetColList \/ GetTableList \/ GetExpr \/ GetOrderBy
  \/ CallManager

Spec == Init /\ [][Next]_vars /\ WF_vars(Next)

-----------------------------------------------------------------------------
TokenTypes ==
  {"TK_CREATE", "TK_DROP", "TK_USE", "TK_UPDATE", "TK_INSERT", "TK_DELETE", "TK_SELECT",
   "TK_SHOW", "TK_TABLE", "TK_INDEX", "TK_DATABASE", "TK_ON", "TK_SET", "TK_INTO",
   "TK_VALUES", "TK_FROM", "TK_WHERE", "TK_AND", "TK_AS", "TK_ORDER", "TK_BY", "TK_ASC",
   "TK_DESC", "TK_LPAREN", "TK_RPAREN", "TK_COMMA", "TK_DOT", "TK_STAR", "TK_MINUS",
   "TK_SEMICOLON", "end"}
    \cup Name \cup Literal \cup Types \cup Comparisons

(* Types; and no function goes on behind the end of a text or of itself.    *)
TypeOK ==
  /\ \A n \in DOMAIN text : text[n].type \in TokenTypes
  /\ Len(text) <= MaxTokens + 1
  /\ pos \in 1..Len(text) + 1
  /\ fn \in DOMAIN Statements
  /\ slot \in 1..Len(Slots[Statement]) + 1
  /\ at \in {"start", "separator"} \cup (UNION {Lenient[r] : r \in DOMAIN Lenient})
            \cup (UNION {e.at : e \in GetColListEdges \cup GetTableListEdges})
  /\ cond.op \in Comparisons
  /\ \A n \in DOMAIN tree.list : None \in {tree.list[n].leftField, tree.list[n].leftValue}
  /\ pc \in {"parsing", "answered", "crashed"}

(***************************************************************************)
(* Twelve functions read the text and the loop of ParseSQL goes on after a *)
(* failed call of the manager as it does after a statement of another      *)
(* kind: still no text is executed twice, or as two statements.            *)
(***************************************************************************)
OneCall == Len(calls) <= 1

(***************************************************************************)
(* Every text ends, however it breaks off: GetToken does not advance at    *)
(* the end of the text nor at a character no token starts with, so each of *)
(* the loops has to stop there by itself.                                  *)
(***************************************************************************)
EveryTextEnds == <>(pc # "parsing")

-----------------------------------------------------------------------------
(* The grammar in the comments of parser.c, lists of one or two items.     *)
Class(type) ==
  IF type \in Comparisons \ {"TK_EQ"} THEN "op"
  ELSE IF type \in Literal THEN "value"
  ELSE IF type \in Types THEN "type" ELSE type

Listed(items) == items \cup {a \o <<"TK_COMMA">> \o b : a, b \in items}

Column  == {<<"TK_ID">>, <<"TK_ID", "TK_DOT", "TK_ID">>}
Value   == Column \cup {<<"value">>}
Compared == {a \o <<o>> \o b : a, b \in Value, o \in {"op", "TK_EQ"}}
Expr    == Compared \cup {a \o <<"TK_AND">> \o b : a, b \in Compared}
Ordered == {<<>>} \cup {<<"TK_ORDER", "TK_BY">> \o c \o d :
                          c \in Column, d \in {<<>>, <<"TK_ASC">>, <<"TK_DESC">>}}

Documented ==
  [ParseCreateTable    |-> {<<"TK_CREATE", "TK_TABLE", "TK_ID", "TK_LPAREN">> \o l \o <<"TK_RPAREN">> :
                              l \in Listed({<<"TK_ID", "type">>})},
   ParseCreateDatabase |-> {<<"TK_CREATE", "TK_DATABASE", "TK_ID">>},
   ParseUseDatabase    |-> {<<"TK_USE", "TK_ID">>},
   ParseCreateIndex    |-> {<<"TK_CREATE", "TK_INDEX", "TK_ON", "TK_ID", "TK_LPAREN", "TK_ID", "TK_RPAREN">>},
   ParseDropIndex      |-> {<<"TK_DROP", "TK_INDEX", "TK_ID", "TK_LPAREN", "TK_ID", "TK_RPAREN">>},
   ParseDropDataBase   |-> {<<"TK_DROP", "TK_DATABASE", "TK_ID">>},
   ParseDropTable      |-> {<<"TK_DROP", "TK_TABLE", "TK_ID">>},
   ParseShow           |-> {<<"TK_SHOW", "TK_ID">>},
   ParseUpdate         |-> {<<"TK_UPDATE", "TK_ID", "TK_SET", "TK_ID", "TK_EQ", "value", "TK_WHERE">> \o e : e \in Compared},
   ParseInsert         |-> {<<"TK_INSERT", "TK_INTO", "TK_ID", "TK_LPAREN">> \o f \o <<"TK_RPAREN", "TK_VALUES", "TK_LPAREN">>
                              \o v \o <<"TK_RPAREN">> : f \in Listed({<<"TK_ID">>}), v \in Listed({<<"value">>})},
   ParseDelete         |-> {<<"TK_DELETE", "TK_FROM", "TK_ID", "TK_WHERE">> \o e : e \in Expr},
   ParseSelect         |-> {<<"TK_SELECT">> \o c \o <<"TK_FROM">> \o t \o <<"TK_WHERE">> \o e \o o :
                              c \in {<<"TK_STAR">>} \cup Listed(Column), t \in Listed({<<"TK_ID">>}),
                              e \in Compared, o \in Ordered}]

Sentences == UNION {Documented[s] : s \in DOMAIN Documented}

(* The text before its first semicolon. *)
Ends     == {n \in DOMAIN text : text[n].type = "TK_SEMICOLON"}
Sentence == SubSeq(text, 1, (CHOOSE n \in Ends : \A m \in Ends : n <= m) - 1)
Form     == [n \in DOMAIN Sentence |-> Class(Sentence[n].type)]

(* The words of a text, and those a call of the manager hands over. *)
Present(words) == SelectSeq(words, LAMBDA w : w # None)
Said(tokens)   == Present([n \in DOMAIN tokens |-> tokens[n].at])

Spoken(t) ==
  Said(t.words) \o Said(t.attrs) \o Said(t.values)
    \o Present(FlattenSeq([n \in DOMAIN t.cols |-> <<t.cols[n].table, t.cols[n].field>>]))
    \o t.tables
    \o Present(FlattenSeq([n \in DOMAIN t.list |->
         <<t.list[n].leftTable, t.list[n].leftField, t.list[n].leftValue,
           t.list[n].rightTable, t.list[n].rightField, t.list[n].rightValue>>]))
    \o Present(<<t.orderBy.table, t.orderBy.field>>)

(***************************************************************************)
(* A text that follows the grammar in the comments of parser.c is handed   *)
(* to the function of the manager it is meant for, with all its words in   *)
(* their places, and to no other.                                          *)
(***************************************************************************)
SentencesCalled ==
  pc # "parsing" /\ Ends # {} /\ Form \in Sentences =>
    /\ Len(calls) = 1
    /\ Form \in Documented[calls[1].statement]
    /\ Spoken(calls[1].tree) = Said(Sentence)

-----------------------------------------------------------------------------
Clauses == {"ParseUpdate", "ParseDelete", "ParseSelect"}

(* The tables a statement goes through, and what it can filter them by. *)
Touched(c) ==
  IF c.statement = "ParseSelect" THEN ToSet(c.tree.tables) ELSE {c.tree.words[1].at}

Filterable(c, t) ==
  IF c.statement = "ParseSelect" THEN ColumnsOf(t, c.tree) ELSE ToSet(Catalog[t])

(* The conditions of the clause that speak of a table. *)
About(c, t) ==
  Among(c.tree.list, {d \in ToSet(c.tree.list) :
                       Concerns(d, t) /\ Contains(Catalog[t], Target(d))})

Rows(t) == [ToSet(Catalog[t]) -> 1..3]

AllHold(row, list) == \A n \in DOMAIN list : Holds(row, list[n])

(* "value <= column" and "value >= column", stored without the equality. *)
LosesEquality(d) == d.leftValue # None /\ d.op \in {"TK_LE", "TK_GE"}

Executed == {c \in ToSet(calls) : c.statement \in Clauses /\ ~Refuses(c.statement, c.tree)}

(***************************************************************************)
(* The filter of an executed SELECT, UPDATE or DELETE is never stricter    *)
(* than the conditions that were read: a row that meets them is not        *)
(* dropped, mirrored <= and >= aside.                                      *)
(***************************************************************************)
NoRowDropped ==
  pc = "answered" =>
    \A c \in Executed : \A t \in Touched(c) :
      (\A n \in DOMAIN About(c, t) : ~LosesEquality(About(c, t)[n])) =>
        \A row \in Rows(t) :
          AllHold(row, About(c, t)) => Passes(row, TableFilter(t, Filterable(c, t), c.tree.list))

(* A clause about columns at hand, each once, with values on the right. *)
Plain(list, columns) ==
  /\ \A n \in DOMAIN list : list[n].leftValue = None /\ list[n].leftField \in columns
  /\ \A m, n \in DOMAIN list : list[m].leftField = list[n].leftField => m = n

(***************************************************************************)
(* And a plain clause is the filter: no row more is shown, changed or      *)
(* deleted.                                                                *)
(***************************************************************************)
PlainClausesExact ==
  pc = "answered" =>
    \A c \in Executed : \A t \in Touched(c) :
      Plain(About(c, t), Filterable(c, t)) =>
        \A row \in Rows(t) :
          AllHold(row, About(c, t)) <=> Passes(row, TableFilter(t, Filterable(c, t), c.tree.list))

(* The combinations of rows a SELECT asks for, each a row number per table. *)
Owner(col, q) == CHOOSE t \in Owners(col, q.tables) : TRUE

LeftColumn(d) == [table |-> d.leftTable, field |-> d.leftField]

Asked(q) ==
  {m \in [ToSet(q.tables) -> UNION {DOMAIN Stored[t] : t \in ToSet(q.tables)}] :
    /\ \A t \in ToSet(q.tables) : m[t] \in DOMAIN Stored[t]
    /\ \A n \in DOMAIN q.list :
         LET t == Owner(LeftColumn(q.list[n]), q)
         IN  Holds(Stored[t][m[t]], q.list[n])}

Line(m, q) ==
  LET cols == GetSelectField(q)
  IN  [n \in DOMAIN cols |-> Stored[cols[n].table][m[cols[n].table]][cols[n].field]]

PlainSelect(q) ==
  /\ \A n \in DOMAIN q.list :
       /\ q.list[n].leftValue = None
       /\ Cardinality(Owners(LeftColumn(q.list[n]), q.tables)) = 1
       /\ q.list[n].leftField \in ColumnsOf(Owner(LeftColumn(q.list[n]), q), q)
  /\ \A m, n \in DOMAIN q.list : q.list[m].leftField = q.list[n].leftField => m = n

(***************************************************************************)
(* A SELECT with a plain clause prints one line for each combination of    *)
(* rows of its tables that meets the clause, no line twice for the same    *)
(* rows and none that nobody asked for.                                    *)
(***************************************************************************)
SelectsExact ==
  pc = "answered" =>
    \A c \in {d \in Executed : d.statement = "ParseSelect"} :
      LET q      == c.tree
          answer == ManagerSelect(q)
      IN  PlainSelect(q) =>
            \A line \in ToSet(answer) \cup {Line(m, q) : m \in Asked(q)} :
              Cardinality({n \in DOMAIN answer : answer[n] = line})
                = Cardinality({m \in Asked(q) : Line(m, q) = line})

=============================================================================
