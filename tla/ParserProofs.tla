---------------------------- MODULE ParserProofs -----------------------------
(***************************************************************************)
(* No text is executed twice: after a failed call of the manager ParseSQL  *)
(* offers the text to the functions that are left, and none of them takes  *)
(* it, for every catalog and every bound on the texts.                     *)
(*                                                                         *)
(* The argument: a function calls the manager only behind its second slot, *)
(* so the first two tokens have the types it wants, and no two functions   *)
(* want the same ones.                                                     *)
(*                                                                         *)
(* Then what is built from a text (Built), the rows that pass a clause     *)
(* (RowsKept, PlainExact), and the lines that a SELECT prints for them     *)
(* (PlainSelectsExact).                                                    *)
(***************************************************************************)
EXTENDS Parser, ConditionsProofs, FiniteSetTheorems, TLAPS

(* The statements whose second word is looked at before anything else. *)
TwoWords ==
  {"ParseCreateTable", "ParseCreateIndex", "ParseCreateDatabase",
   "ParseDropIndex", "ParseDropDataBase", "ParseDropTable"}

(* A text begins as statement s does. *)
BeginsIn(s, t) ==
  /\ Len(t) > 0
  /\ t[1].type \in Slots[s][1]
  /\ s \in TwoWords => Len(t) > 1 /\ t[2].type \in Slots[s][2]

Begins(s) == BeginsIn(s, text)

IsText == \E S : text \in Seq(S)

Place ==
  /\ fn \in 1..12
  /\ slot \in Nat \ {0}

(* The function that runs has found the words it has passed. *)
Passed ==
  pc = "parsing" =>
    /\ slot = 1 => pos = 1
    /\ slot = 2 => /\ Len(text) > 0
                   /\ text[1].type \in Slots[Statement][1]
                   /\ Statement \in TwoWords => pos = 2
    /\ slot > 2 => Begins(Statement)

(* The one call there may have been came from a function before this one. *)
Called ==
  \/ calls = <<>>
  \/ /\ Len(calls) = 1
     /\ \E i \in 1..fn : Begins(Statements[i]) /\ (pc = "parsing" => i < fn)

IInv == IsText /\ Place /\ Passed /\ Called

-----------------------------------------------------------------------------
(* The words each function looks for first; none has fewer than three slots. *)
Words(s, first, second) ==
  /\ Slots[s][1] = {first}
  /\ s \in TwoWords => Slots[s][2] = {second}
  /\ Len(Slots[s]) > 2

(* The words each function looks for first. *)
LEMMA FirstWords ==
  /\ Words("ParseCreateTable", "TK_CREATE", "TK_TABLE")
  /\ Words("ParseCreateIndex", "TK_CREATE", "TK_INDEX")
  /\ Words("ParseCreateDatabase", "TK_CREATE", "TK_DATABASE")
  /\ Words("ParseDropIndex", "TK_DROP", "TK_INDEX")
  /\ Words("ParseDropDataBase", "TK_DROP", "TK_DATABASE")
  /\ Words("ParseDropTable", "TK_DROP", "TK_TABLE")
  /\ Words("ParseUseDatabase", "TK_USE", "")
  /\ Words("ParseUpdate", "TK_UPDATE", "")
  /\ Words("ParseInsert", "TK_INSERT", "")
  /\ Words("ParseDelete", "TK_DELETE", "")
  /\ Words("ParseSelect", "TK_SELECT", "")
  /\ Words("ParseShow", "TK_SHOW", "")
<1>1. Words("ParseCreateTable", "TK_CREATE", "TK_TABLE")
  BY DEF Words, Slots, TwoWords, ParseCreateTable
<1>2. Words("ParseCreateIndex", "TK_CREATE", "TK_INDEX")
  BY DEF Words, Slots, TwoWords, ParseCreateIndex
<1>3. Words("ParseCreateDatabase", "TK_CREATE", "TK_DATABASE")
  BY DEF Words, Slots, TwoWords, ParseCreateDatabase
<1>4. Words("ParseDropIndex", "TK_DROP", "TK_INDEX")
  BY DEF Words, Slots, TwoWords, ParseDropIndex
<1>5. Words("ParseDropDataBase", "TK_DROP", "TK_DATABASE")
  BY DEF Words, Slots, TwoWords, ParseDropDataBase
<1>6. Words("ParseDropTable", "TK_DROP", "TK_TABLE")
  BY DEF Words, Slots, TwoWords, ParseDropTable
<1>7. Words("ParseUseDatabase", "TK_USE", "")
  BY DEF Words, Slots, TwoWords, ParseUseDatabase
<1>8. Words("ParseUpdate", "TK_UPDATE", "")
  BY DEF Words, Slots, TwoWords, ParseUpdate
<1>9. Words("ParseInsert", "TK_INSERT", "")
  BY DEF Words, Slots, TwoWords, ParseInsert
<1>10. Words("ParseDelete", "TK_DELETE", "")
  BY DEF Words, Slots, TwoWords, ParseDelete
<1>11. Words("ParseSelect", "TK_SELECT", "")
  BY DEF Words, Slots, TwoWords, ParseSelect
<1>12. Words("ParseShow", "TK_SHOW", "")
  BY DEF Words, Slots, TwoWords, ParseShow
<1> QED  BY <1>1, <1>2, <1>3, <1>4, <1>5, <1>6, <1>7, <1>8, <1>9, <1>10, <1>11, <1>12

(* functionTable has twelve different functions. *)
Names ==
  {"ParseCreateTable", "ParseCreateIndex", "ParseCreateDatabase",
   "ParseDropIndex", "ParseDropDataBase", "ParseDropTable",
   "ParseUseDatabase", "ParseUpdate", "ParseInsert", "ParseDelete",
   "ParseSelect", "ParseShow"}

(* The twelve statement functions, each once in the table. *)
LEMMA FunctionTable ==
  /\ Len(Statements) = 12
  /\ \A i \in 1..12 : Statements[i] \in Names
  /\ \A i, j \in 1..12 : Statements[i] = Statements[j] => i = j
<1>1. Len(Statements) = 12
  BY DEF Statements
<1>2. ASSUME NEW i \in 1..12  PROVE  Statements[i] \in Names
  BY DEF Statements, Names
<1>3. ASSUME NEW i \in 1..12, NEW j \in 1..12, Statements[i] = Statements[j]
      PROVE  i = j
  BY <1>3 DEF Statements
<1> QED  BY <1>1, <1>2, <1>3

(* The first words of the text, for each statement.                         *)
Opening(s, a, b) ==
  \/ s = "ParseCreateTable" /\ a = "TK_CREATE" /\ b = "TK_TABLE"
  \/ s = "ParseCreateIndex" /\ a = "TK_CREATE" /\ b = "TK_INDEX"
  \/ s = "ParseCreateDatabase" /\ a = "TK_CREATE" /\ b = "TK_DATABASE"
  \/ s = "ParseDropIndex" /\ a = "TK_DROP" /\ b = "TK_INDEX"
  \/ s = "ParseDropDataBase" /\ a = "TK_DROP" /\ b = "TK_DATABASE"
  \/ s = "ParseDropTable" /\ a = "TK_DROP" /\ b = "TK_TABLE"
  \/ s = "ParseUseDatabase" /\ a = "TK_USE"
  \/ s = "ParseUpdate" /\ a = "TK_UPDATE"
  \/ s = "ParseInsert" /\ a = "TK_INSERT"
  \/ s = "ParseDelete" /\ a = "TK_DELETE"
  \/ s = "ParseSelect" /\ a = "TK_SELECT"
  \/ s = "ParseShow" /\ a = "TK_SHOW"

(* The first two token types tell which statement a text may be. *)
LEMMA Openings ==
  ASSUME NEW t, NEW s \in Names, BeginsIn(s, t)
  PROVE  Opening(s, t[1].type, t[2].type)
<1>1. CASE s = "ParseCreateTable"
  BY <1>1, FirstWords DEF BeginsIn, Words, TwoWords, Opening
<1>2. CASE s = "ParseCreateIndex"
  BY <1>2, FirstWords DEF BeginsIn, Words, TwoWords, Opening
<1>3. CASE s = "ParseCreateDatabase"
  BY <1>3, FirstWords DEF BeginsIn, Words, TwoWords, Opening
<1>4. CASE s = "ParseDropIndex"
  BY <1>4, FirstWords DEF BeginsIn, Words, TwoWords, Opening
<1>5. CASE s = "ParseDropDataBase"
  BY <1>5, FirstWords DEF BeginsIn, Words, TwoWords, Opening
<1>6. CASE s = "ParseDropTable"
  BY <1>6, FirstWords DEF BeginsIn, Words, TwoWords, Opening
<1>7. CASE s = "ParseUseDatabase"
  BY <1>7, FirstWords DEF BeginsIn, Words, TwoWords, Opening
<1>8. CASE s = "ParseUpdate"
  BY <1>8, FirstWords DEF BeginsIn, Words, TwoWords, Opening
<1>9. CASE s = "ParseInsert"
  BY <1>9, FirstWords DEF BeginsIn, Words, TwoWords, Opening
<1>10. CASE s = "ParseDelete"
  BY <1>10, FirstWords DEF BeginsIn, Words, TwoWords, Opening
<1>11. CASE s = "ParseSelect"
  BY <1>11, FirstWords DEF BeginsIn, Words, TwoWords, Opening
<1>12. CASE s = "ParseShow"
  BY <1>12, FirstWords DEF BeginsIn, Words, TwoWords, Opening
<1> QED  BY <1>1, <1>2, <1>3, <1>4, <1>5, <1>6, <1>7, <1>8, <1>9, <1>10, <1>11, <1>12 DEF Names

(* A text begins as one statement at most. *)
LEMMA OneBeginning ==
  ASSUME NEW t, NEW s \in Names, NEW z \in Names, BeginsIn(s, t), BeginsIn(z, t)
  PROVE  s = z
<1>1. Opening(s, t[1].type, t[2].type)
  BY Openings
<1>2. Opening(z, t[1].type, t[2].type)
  BY Openings
<1> QED  BY <1>1, <1>2 DEF Opening

-----------------------------------------------------------------------------
(* A text only grows. *)
LEMMA TextGrows ==
  ASSUME IsText, NEW token, Read(token)
  PROVE  /\ IsText'
         /\ Len(text') >= Len(text)
         /\ \A i \in 1..Len(text) : text'[i] = text[i]
<1>1. PICK S : text \in Seq(S)
  BY DEF IsText
<1>2. text \in Seq(S \cup {token})
  BY <1>1
<1>3. text' \in Seq(S \cup {token})
  BY <1>2 DEF Read
<1>4. IsText'
  BY <1>3 DEF IsText
<1>5. Len(text') >= Len(text) /\ \A i \in 1..Len(text) : text'[i] = text[i]
  BY <1>2 DEF Read
<1> QED  BY <1>4, <1>5

(* What GetToken hands over is the token of the text in this place. *)
LEMMA TokenInText ==
  ASSUME IsText, NEW types, NEW names, NEW token \in GetToken(types, names),
         Read(token), pos \in Nat \ {0}, Len(text) >= pos - 1
  PROVE  Len(text') >= pos /\ text'[pos] = token
<1>1. PICK S : text \in Seq(S)
  BY DEF IsText
<1>2. text \in Seq(S \cup {token})
  BY <1>1
<1>3. CASE pos <= Len(text)
  BY <1>2, <1>3 DEF GetToken, Read
<1>4. CASE pos = Len(text) + 1
  BY <1>2, <1>4 DEF Read
<1> QED  BY <1>1, <1>3, <1>4

(* So a beginning stays. *)
LEMMA BeginningStays ==
  ASSUME IsText, NEW token, Read(token), NEW s, Begins(s)
  PROVE  Begins(s)'
<1>1. /\ Len(text') >= Len(text)
      /\ \A i \in 1..Len(text) : text'[i] = text[i]
  BY TextGrows
<1>2. Len(text) \in Nat /\ Len(text') \in Nat
  BY TextGrows DEF IsText
<1> QED  BY <1>1, <1>2 DEF Begins, BeginsIn

(* A call that was made stays the call of an earlier function. *)
LEMMA CalledStays ==
  ASSUME IsText, Place, Called, pc = "parsing", NEW token, Read(token),
         UNCHANGED calls, fn' \in 1..12, fn' >= fn
  PROVE  Called'
<1>1. CASE calls = <<>>
  BY <1>1 DEF Called
<1>2. CASE calls # <<>>
  <2>1. PICK i \in 1..fn : Begins(Statements[i]) /\ i < fn
    BY <1>2 DEF Called
  <2>2. Begins(Statements[i])'
    BY <2>1, BeginningStays
  <2>3. Len(calls) = 1
    BY <1>2 DEF Called
  <2>4. i \in 1..fn' /\ i < fn'
    BY <2>1 DEF Place
  <2> QED  BY <2>2, <2>3, <2>4 DEF Called
<1> QED  BY <1>1, <1>2

-----------------------------------------------------------------------------
(* The next function starts from the first slot. *)
LEMMA FailKeeps ==
  ASSUME IInv, pc = "parsing", NEW token, Read(token), Fail
  PROVE  IInv'
<1>1. IsText'
  BY TextGrows DEF IInv
<1>2. Place' /\ fn' >= fn
  BY FunctionTable DEF IInv, Place, Fail, NextFunction
<1>3. Passed'
  BY DEF Fail, NextFunction, Passed
<1>4. Called'
  BY <1>2, CalledStays DEF IInv, Place, Fail
<1> QED  BY <1>1, <1>2, <1>3, <1>4 DEF IInv

(* A step behind the words that tell statements apart. *)
LEMMA LaterKeeps ==
  ASSUME IInv, pc = "parsing", NEW token, Read(token),
         slot > 1, slot = 2 => Statement \notin TwoWords,
         UNCHANGED <<fn, calls, pc>>,
         slot' \in {slot, After(Statement, slot, token.type)}
  PROVE  IInv'
<1>1. IsText'
  BY TextGrows DEF IInv
<1>2. slot' \in Nat /\ slot' > 1
  BY DEF IInv, Place, After
<1>3. Place'
  BY <1>2 DEF IInv, Place
<1>4. Begins(Statement)
  BY DEF IInv, Place, Passed, Begins, BeginsIn
<1>5. Begins(Statement)'
  <2>1. Begins(Statements[fn])'
    BY <1>4, BeginningStays DEF IInv, Statement
  <2> QED  BY <2>1 DEF Begins, BeginsIn, Statement
<1>6. Passed'
  <2>1. slot' = 2 => slot = 2
    BY DEF IInv, Place, After
  <2> QED  BY <1>2, <1>5, <2>1 DEF Passed, Begins, BeginsIn, Statement
<1>7. Called'
  BY CalledStays DEF IInv, Place
<1> QED  BY <1>1, <1>3, <1>6, <1>7 DEF IInv

-----------------------------------------------------------------------------
(* One of the twelve statements is being read, of three slots or more. *)
LEMMA StatementNamed ==
  ASSUME Place
  PROVE  Statement \in Names /\ Len(Slots[Statement]) > 2
<1>1. Statement \in Names
  BY FunctionTable DEF Place, Statement
<1>2. \A s \in Names : Len(Slots[s]) > 2
  BY FirstWords DEF Names, Words
<1> QED  BY <1>1, <1>2

(* The words in front are read by ReadToken and by nothing else. *)
LEMMA FrontSlots ==
  ASSUME Place, slot = 1 \/ (slot = 2 /\ Statement \in TwoWords)
  PROVE  /\ Slot \notin {Kept, Skipped}
         /\ \A reader \in DOMAIN Item \cup DOMAIN Lenient : Slot # {reader}
         /\ "end" \notin Slot
         /\ Slot \cap (Name \cup Literal \cup Types) = {}
<1>1. PICK w \in {"TK_CREATE", "TK_DROP", "TK_USE", "TK_UPDATE", "TK_INSERT",
                  "TK_DELETE", "TK_SELECT", "TK_SHOW",
                  "TK_TABLE", "TK_INDEX", "TK_DATABASE"} : Slot = {w}
  <2>1. CASE slot = 1
    BY <2>1, StatementNamed, FirstWords DEF Names, Words, Slot
  <2>2. CASE slot = 2 /\ Statement \in TwoWords
    BY <2>2, StatementNamed, FirstWords DEF TwoWords, Words, Slot
  <2> QED  BY <2>1, <2>2
<1>2. Slot # {"kept"} /\ Slot # {"skipped"} /\ "end" \notin Slot
  BY <1>1
<1>3. DOMAIN Item = {"ParseAttrTypeList", "ParseAttrList", "ParseValueList"}
  BY DEF Item
<1>4. DOMAIN Lenient = {"GetColList", "GetTableList", "GetExpr", "GetOrderBy"}
  BY DEF Lenient
<1>5. Slot \cap (Name \cup Literal \cup Types) = {}
  BY <1>1 DEF Name, Literal, Types
<1> QED  BY <1>1, <1>2, <1>3, <1>4, <1>5 DEF Kept, Skipped

(* A token of the statement itself: the only step that passes the words in front. *)
LEMMA ReadTokenKeeps ==
  ASSUME IInv, ReadToken
  PROVE  IInv'
<1>0. pc = "parsing" /\ Place /\ IsText /\ Passed
  BY DEF ReadToken, Reading, IInv
<1>1. PICK token \in GetToken(SlotTypes, SlotNames) :
        /\ Read(token)
        /\ \/ Expected(token) /\ Advance(token) /\ NextSlot(token)
           \/ Fail
  BY DEF ReadToken
<1>2. CASE Fail
  BY <1>0, <1>1, <1>2, FailKeeps
<1>3. ASSUME Expected(token), Advance(token), NextSlot(token)
      PROVE  IInv'
  <2>0. UNCHANGED <<fn, calls, pc>> /\ slot' = After(Statement, slot, token.type)
    BY <1>3 DEF NextSlot
  <2>1. CASE slot = 1 \/ (slot = 2 /\ Statement \in TwoWords)
    <3>1. token.type \in Slot /\ token.type # "end"
      BY <1>0, <1>3, <2>1, FrontSlots DEF Expected
    <3>2. token # End
      BY <3>1 DEF End, Keyword
    <3>3. pos = slot /\ pos' = pos + 1
      BY <1>0, <1>3, <2>1, <3>2 DEF Passed, Advance
    <3>4. slot' = slot + 1
      BY <2>0, <2>1 DEF After
    <3>5. Len(text) \in Nat
      BY <1>0 DEF IsText
    <3>6. slot = 2 => Len(text) > 0 /\ text[1].type \in Slots[Statement][1]
      BY <1>0 DEF Passed
    <3>7. Len(text') >= slot /\ text'[slot] = token
      BY <1>0, <1>1, <2>1, <3>3, <3>5, <3>6, TokenInText
    <3>8. slot = 2 => text'[1] = text[1]
      BY <1>0, <1>1, <3>5, <3>6, TextGrows
    <3>9. IsText'
      BY <1>0, <1>1, TextGrows
    <3>10. Place'
      BY <1>0, <2>0, <2>1, <3>4 DEF Place
    <3>11. Called'
      BY <1>0, <1>1, <2>0, CalledStays DEF IInv, Place
    <3>12. Passed'
      <4>1. CASE slot = 1
        BY <4>1, <2>0, <3>1, <3>3, <3>4, <3>7 DEF Passed, Slot, Statement
      <4>2. CASE slot = 2 /\ Statement \in TwoWords
        BY <4>2, <2>0, <3>1, <3>4, <3>6, <3>7, <3>8 DEF Passed, Begins, BeginsIn, Slot, Statement
      <4> QED  BY <2>1, <4>1, <4>2
    <3> QED  BY <3>9, <3>10, <3>11, <3>12 DEF IInv
  <2>2. CASE slot > 1 /\ (slot = 2 => Statement \notin TwoWords)
    BY <1>0, <1>1, <2>0, <2>2, LaterKeeps
  <2> QED  BY <1>0, <2>1, <2>2 DEF Place
<1> QED  BY <1>1, <1>2, <1>3

(* A reader is at work behind the words in front. *)
LEMMA ReaderLater ==
  ASSUME Place, NEW reader \in DOMAIN Item \cup DOMAIN Lenient, Slot = {reader}
  PROVE  slot > 1 /\ (slot = 2 => Statement \notin TwoWords)
BY FrontSlots DEF Place

(* The lists of CREATE TABLE and INSERT. *)
LEMMA ReadListKeeps ==
  ASSUME IInv, NEW reader \in DOMAIN Item, NEW part, ReadList(reader, part)
  PROVE  IInv'
<1>0. pc = "parsing" /\ Place /\ IsText /\ Slot = {reader}
  BY DEF ReadList, Reading, IInv
<1>1. slot > 1 /\ (slot = 2 => Statement \notin TwoWords)
  BY <1>0, ReaderLater
<1>2. PICK token :
        /\ Read(token)
        /\ \/ UNCHANGED <<fn, calls, pc>> /\ slot' \in {slot, After(Statement, slot, token.type)}
           \/ Fail
           \/ pc' = "crashed" /\ UNCHANGED <<fn, slot, calls>>
  BY DEF ReadList, Stay, NextSlot
<1>3. CASE UNCHANGED <<fn, calls, pc>> /\ slot' \in {slot, After(Statement, slot, token.type)}
  BY <1>0, <1>1, <1>2, <1>3, LaterKeeps
<1>4. CASE Fail
  BY <1>0, <1>2, <1>4, FailKeeps
<1>5. CASE pc' = "crashed" /\ UNCHANGED <<fn, slot, calls>>
  <2>1. IsText'
    BY <1>0, <1>2, TextGrows
  <2>2. Place' /\ Passed'
    BY <1>0, <1>5 DEF Place, Passed
  <2>3. Called'
    BY <1>0, <1>2, <1>5, CalledStays DEF IInv, Place
  <2> QED  BY <2>1, <2>2, <2>3 DEF IInv
<1> QED  BY <1>2, <1>3, <1>4, <1>5

(* The lists of SELECT, and the clauses. *)
LEMMA ReadPartKeeps ==
  ASSUME IInv, NEW reader \in DOMAIN Lenient, NEW edges, NEW names,
         ReadPart(reader, edges, names)
  PROVE  IInv'
<1>0. pc = "parsing" /\ Place /\ IsText /\ Slot = {reader}
  BY DEF ReadPart, Reading, IInv
<1>1. slot > 1 /\ (slot = 2 => Statement \notin TwoWords)
  BY <1>0, ReaderLater
<1>2. PICK token :
        /\ Read(token)
        /\ \/ UNCHANGED <<fn, calls, pc>> /\ slot' \in {slot, After(Statement, slot, token.type)}
           \/ Fail
  BY DEF ReadPart, Stay, NextSlot
<1>3. CASE UNCHANGED <<fn, calls, pc>> /\ slot' \in {slot, After(Statement, slot, token.type)}
  BY <1>0, <1>1, <1>2, <1>3, LaterKeeps
<1>4. CASE Fail
  BY <1>0, <1>2, <1>4, FailKeeps
<1> QED  BY <1>2, <1>3, <1>4

-----------------------------------------------------------------------------
(* A function that calls the manager is the only one that can. *)
LEMMA CallManagerKeeps ==
  ASSUME IInv, CallManager
  PROVE  IInv'
<1>0. pc = "parsing" /\ Place /\ IsText /\ Called /\ UNCHANGED text
  BY DEF CallManager, IInv
<1>1. Begins(Statement) /\ Statement \in Names
  BY <1>0, StatementNamed DEF IInv, Passed, CallManager, Place
<1>2. calls = <<>>
  <2>1. SUFFICES ASSUME calls # <<>>  PROVE FALSE
    OBVIOUS
  <2>2. PICK i \in 1..fn : Begins(Statements[i]) /\ i < fn
    BY <1>0, <2>1 DEF Called
  <2>3. i \in 1..12 /\ fn \in 1..12
    BY <1>0, <2>2 DEF Place
  <2>4. Statements[i] = Statements[fn]
    BY <1>1, <2>2, <2>3, FunctionTable, OneBeginning DEF Statement, Begins
  <2> QED  BY <2>2, <2>3, <2>4, FunctionTable
<1>3. Len(calls') = 1
  BY <1>2 DEF CallManager
<1>4. IsText'
  BY <1>0 DEF IsText
<1>5. /\ fn' \in fn..12
      /\ pc' = "parsing" => fn < fn' /\ slot' = 1 /\ pos' = 1
      /\ slot' \in Nat \ {0}
  BY <1>0, FunctionTable DEF CallManager, NextFunction, Place
<1>6. Place'
  BY <1>0, <1>5 DEF Place
<1>7. Passed'
  BY <1>5 DEF Passed
<1>8. PICK i \in 1..12 : i = fn /\ Begins(Statements[i])
  BY <1>0, <1>1 DEF Place, Statement
<1>9. Begins(Statements[i])'
  BY <1>0, <1>8 DEF Begins, BeginsIn
<1>10. i \in 1..fn' /\ (pc' = "parsing" => i < fn')
  BY <1>5, <1>8
<1>11. Called'
  BY <1>3, <1>9, <1>10 DEF Called
<1> QED  BY <1>4, <1>6, <1>7, <1>11 DEF IInv

(* Nothing is read and nothing called before the first step. *)
LEMMA InitIInv == Init => IInv
<1> SUFFICES ASSUME Init  PROVE IInv
  OBVIOUS
<1>1. text \in Seq({})
  BY DEF Init
<1>2. IsText
  BY <1>1 DEF IsText
<1> QED  BY <1>2 DEF Init, IInv, Place, Passed, Called

(* Every step of the parser, and a step of somebody else. *)
LEMMA NextIInv == IInv /\ [Next]_vars => IInv'
<1> SUFFICES ASSUME IInv, [Next]_vars  PROVE IInv'
  OBVIOUS
<1>1. CASE ReadToken
  BY <1>1, ReadTokenKeeps
<1>2. CASE ParseAttrTypeList \/ ParseAttrList \/ ParseValueList
  <2>1. {"ParseAttrTypeList", "ParseAttrList", "ParseValueList"} \subseteq DOMAIN Item
    BY DEF Item
  <2>2. CASE ParseAttrTypeList
    BY <2>1, <2>2, ReadListKeeps DEF ParseAttrTypeList
  <2>3. CASE ParseAttrList
    BY <2>1, <2>3, ReadListKeeps DEF ParseAttrList
  <2>4. CASE ParseValueList
    BY <2>1, <2>4, ReadListKeeps DEF ParseValueList
  <2> QED  BY <1>2, <2>2, <2>3, <2>4
<1>3. CASE GetColList \/ GetTableList \/ GetExpr \/ GetOrderBy
  <2>1. {"GetColList", "GetTableList", "GetExpr", "GetOrderBy"} \subseteq DOMAIN Lenient
    BY DEF Lenient
  <2>2. CASE GetColList
    BY <2>1, <2>2, ReadPartKeeps DEF GetColList
  <2>3. CASE GetTableList
    BY <2>1, <2>3, ReadPartKeeps DEF GetTableList
  <2>4. CASE GetExpr
    BY <2>1, <2>4, ReadPartKeeps DEF GetExpr
  <2>5. CASE GetOrderBy
    BY <2>1, <2>5, ReadPartKeeps DEF GetOrderBy
  <2> QED  BY <1>3, <2>2, <2>3, <2>4, <2>5
<1>4. CASE CallManager
  BY <1>4, CallManagerKeeps
<1>5. CASE UNCHANGED vars
  <2>1. IsText' /\ Place' /\ Passed'
    BY <1>5 DEF vars, IInv, IsText, Place, Passed, Begins, BeginsIn, Statement
  <2>2. Called'
    <3>1. CASE calls = <<>>
      BY <1>5, <3>1 DEF vars, Called
    <3>2. CASE calls # <<>>
      <4>1. PICK i \in 1..fn : Begins(Statements[i]) /\ (pc = "parsing" => i < fn)
        BY <3>2 DEF IInv, Called
      <4>2. Begins(Statements[i])'
        BY <1>5, <4>1 DEF vars, Begins, BeginsIn
      <4>3. Len(calls) = 1
        BY <3>2 DEF IInv, Called
      <4> QED  BY <1>5, <4>1, <4>2, <4>3 DEF vars, Called
    <3> QED  BY <3>1, <3>2
  <2> QED  BY <2>1, <2>2 DEF IInv
<1> QED  BY <1>1, <1>2, <1>3, <1>4, <1>5 DEF Next

(* Whatever is typed, only functions that find their words in the text get *)
(* as far as a call, and there is only one of those.                       *)
THEOREM Invariance == Spec => []IInv
<1>1. Init => IInv
  BY InitIInv
<1>2. IInv /\ [Next]_vars => IInv'
  BY NextIInv
<1> QED  BY <1>1, <1>2, PTL DEF Spec

(* No text is executed twice or as two statements (ParseSQL, parser.c). *)
THEOREM CalledOnce == Spec => []OneCall
<1>1. ASSUME IInv  PROVE OneCall
  <2>1. CASE calls = <<>>
    BY <2>1 DEF OneCall
  <2>2. CASE Len(calls) = 1
    BY <2>2 DEF OneCall
  <2> QED  BY <1>1, <2>1, <2>2 DEF IInv, Called
<1> QED  BY <1>1, Invariance, PTL

-----------------------------------------------------------------------------
(***************************************************************************)
(* What the functions have built of a text, and so what the manager is     *)
(* called with.                                                            *)
(***************************************************************************)
Spelled == Fields \cup Tables \cup Values \cup Quoted \cup {None}

Tokens == [type : TokenTypes, at : Spelled]

CondType ==
  [leftTable : Spelled, leftField : Spelled, leftValue : Values \cup {None}, op : Comparisons,
   rightTable : Spelled, rightField : Spelled, rightValue : Values \cup {None}]

(* A condition whose left side is read, and one that is read as a whole: a *)
(* side is a column or a value.                                            *)
Half  == {c \in CondType : None \in {c.leftField, c.leftValue}}
Whole == {c \in Half : None \in {c.rightField, c.rightValue}}

Trees ==
  [words : Seq(Tokens), attrs : Seq(Tokens), values : Seq(Tokens),
   cols : Seq([table : Spelled, field : Spelled, nickName : Spelled]),
   tables : Seq(Spelled), list : Seq(Whole),
   orderBy : [table : Spelled, field : Spelled, asc : BOOLEAN]]

WellTyped ==
  /\ text \in Seq(Tokens)
  /\ slot \in 1..(Len(Slots[Statement]) + 1)
  /\ cond \in Half
  /\ tree \in Trees
  /\ calls \in Seq([statement : Names, tree : Trees])

(* The function that runs has found its words, so it is the only one that  *)
(* ever will.                                                              *)
Past == slot > 2 \/ (slot = 2 /\ Statement \notin TwoWords)

Opened == \E i \in 1..fn : Begins(Statements[i]) /\ (i = fn => Past)

(* Behind its words a function reads what nobody has read before.          *)
Ahead ==
  pc = "parsing" =>
    /\ pos \in 1..(Len(text) + 1)
    /\ Past => pos = Len(text) + 1 \/ text[pos] = End
    /\ ~Opened => /\ Len(text) <= 2
                  /\ Len(text) = 2 => text[1].type \in {"TK_CREATE", "TK_DROP"}

(* How much of the condition and of the columns is there in each state. *)
Partial ==
  /\ at \in {"leftId", "leftDot"} => cond.leftValue = None
  /\ at \in {"leftId", "leftDot", "op", "right"} => cond.rightField = None
  /\ at \in {"leftId", "leftDot", "op", "right", "rightId", "rightDot"} => cond.rightValue = None
  /\ at \in {"name", "dot", "qualified", "as"} /\ Slot = {"GetColList"} => tree.cols # <<>>

(* The first word of an UPDATE or a DELETE is the name of a table.         *)
TableFirst(s, read, words) ==
  /\ s \in {"ParseUpdate", "ParseDelete"} /\ read => words # <<>> /\ words[1].at \in Tables
  /\ s \in {"ParseUpdate", "ParseDelete"} /\ ~read => words = <<>>

TableRead == slot > (IF Statement = "ParseUpdate" THEN 2 ELSE 3)

Handed ==
  \A n \in DOMAIN calls :
    calls[n].statement \in {"ParseUpdate", "ParseDelete"} =>
      calls[n].tree.words # <<>> /\ calls[n].tree.words[1].at \in Tables

Built == WellTyped /\ Ahead /\ Partial /\ TableFirst(Statement, TableRead, tree.words) /\ Handed

-----------------------------------------------------------------------------
Readers ==
  {"ParseAttrTypeList", "ParseAttrList", "ParseValueList",
   "GetColList", "GetTableList", "GetExpr", "GetOrderBy"}

(* A slot expects tokens, or one of the readers, or looks at nothing. *)
Vocabulary(types) ==
  \/ types \in {Kept, Skipped}
  \/ \E r \in Readers : types = {r}
  \/ types \subseteq TokenTypes

(* The slots of every statement are of these kinds. *)
LEMMA SlotsKnown ==
  ASSUME NEW s \in Names, NEW i \in 1..Len(Slots[s])
  PROVE  Vocabulary(Slots[s][i])
<1> USE DEF Slots, Vocabulary, TokenTypes, Readers, Kept, Skipped, Name, Literal
<1>1. CASE s = "ParseCreateTable"
  BY <1>1 DEF ParseCreateTable
<1>2. CASE s = "ParseCreateIndex"
  BY <1>2 DEF ParseCreateIndex
<1>3. CASE s = "ParseCreateDatabase"
  BY <1>3 DEF ParseCreateDatabase
<1>4. CASE s = "ParseDropIndex"
  BY <1>4 DEF ParseDropIndex
<1>5. CASE s = "ParseDropDataBase"
  BY <1>5 DEF ParseDropDataBase
<1>6. CASE s = "ParseDropTable"
  BY <1>6 DEF ParseDropTable
<1>7. CASE s = "ParseUseDatabase"
  BY <1>7 DEF ParseUseDatabase
<1>8. CASE s = "ParseUpdate"
  <2>1. Slots[s] = ParseUpdate /\ i \in 1..8
    BY <1>8 DEF ParseUpdate
  <2>2. \A w \in {"TK_UPDATE", "TK_ID", "TK_SET", "TK_EQ"} : {w} \subseteq TokenTypes
    BY DEF Comparisons
  <2>3. /\ \A w \in {"TK_UPDATE", "TK_ID", "TK_SET", "TK_EQ"} : Vocabulary({w})
        /\ Vocabulary(Literal) /\ Vocabulary(Skipped) /\ Vocabulary({"GetExpr"})
    BY <2>2
  <2> HIDE DEF Vocabulary, Literal, Skipped
  <2>4. /\ ParseUpdate[1] = {"TK_UPDATE"} /\ ParseUpdate[2] = {"TK_ID"}
        /\ ParseUpdate[3] = {"TK_SET"} /\ ParseUpdate[4] = {"TK_ID"}
        /\ ParseUpdate[5] = {"TK_EQ"} /\ ParseUpdate[6] = Literal
        /\ ParseUpdate[7] = Skipped /\ ParseUpdate[8] = {"GetExpr"}
    BY DEF ParseUpdate
  <2>5. i = 1 \/ i = 2 \/ i = 3 \/ i = 4 \/ i = 5 \/ i = 6 \/ i = 7 \/ i = 8
    BY <2>1
  <2> QED  BY <2>1, <2>3, <2>4, <2>5
<1>9. CASE s = "ParseInsert"
  <2>1. Slots[s] = ParseInsert /\ i \in 1..9
    BY <1>9 DEF ParseInsert
  <2>2. \A w \in {"TK_INSERT", "TK_INTO", "TK_LPAREN", "TK_SEMICOLON"} : {w} \subseteq TokenTypes
    OBVIOUS
  <2>3. {"TK_ID", "TK_STRING"} \subseteq TokenTypes /\ {"TK_VALUES", "TK_LPAREN"} \subseteq TokenTypes
    BY DEF Types
  <2>4. /\ \A w \in {"TK_INSERT", "TK_INTO", "TK_LPAREN", "TK_SEMICOLON"} : Vocabulary({w})
        /\ Vocabulary({"TK_ID", "TK_STRING"}) /\ Vocabulary({"TK_VALUES", "TK_LPAREN"})
        /\ Vocabulary(Skipped) /\ Vocabulary({"ParseAttrList"}) /\ Vocabulary({"ParseValueList"})
    BY <2>2, <2>3
  <2> HIDE DEF Vocabulary, Skipped
  <2>5. /\ ParseInsert[1] = {"TK_INSERT"} /\ ParseInsert[2] = {"TK_INTO"}
        /\ ParseInsert[3] = {"TK_ID", "TK_STRING"} /\ ParseInsert[4] = {"TK_VALUES", "TK_LPAREN"}
        /\ ParseInsert[5] = {"ParseAttrList"} /\ ParseInsert[6] = Skipped
        /\ ParseInsert[7] = {"TK_LPAREN"} /\ ParseInsert[8] = {"ParseValueList"}
        /\ ParseInsert[9] = {"TK_SEMICOLON"}
    BY DEF ParseInsert
  <2>6. i = 1 \/ i = 2 \/ i = 3 \/ i = 4 \/ i = 5 \/ i = 6 \/ i = 7 \/ i = 8 \/ i = 9
    BY <2>1
  <2> QED  BY <2>1, <2>4, <2>5, <2>6
<1>10. CASE s = "ParseDelete"
  BY <1>10 DEF ParseDelete
<1>11. CASE s = "ParseSelect"
  BY <1>11 DEF ParseSelect
<1>12. CASE s = "ParseShow"
  BY <1>12 DEF ParseShow
<1> QED
  BY <1>1, <1>2, <1>3, <1>4, <1>5, <1>6, <1>7, <1>8, <1>9, <1>10, <1>11, <1>12 DEF Names

(* The first words, and the second ones but for that of SELECT, are tokens. *)
LEMMA FrontTypes ==
  /\ DOMAIN Slots = Names
  /\ \A s \in Names : Slots[s][1] \subseteq TokenTypes
  /\ \A s \in Names \ {"ParseSelect"} :
       Slots[s][2] \subseteq TokenTypes /\ Slots[s][1] # Slots["ParseSelect"][1]
<1>1. DOMAIN Slots = Names
  BY DEF Slots, Names
<1>2. \A s \in Names \ {"ParseSelect"} :
        \E w \in {"TK_CREATE", "TK_DROP", "TK_USE", "TK_UPDATE", "TK_INSERT", "TK_DELETE",
                  "TK_SHOW"} : Slots[s][1] = {w}
  BY FirstWords DEF Names, Words
<1>3. Slots["ParseSelect"][1] = {"TK_SELECT"}
  BY FirstWords DEF Words
<1>4. ASSUME NEW s \in TwoWords  PROVE Slots[s][2] \subseteq TokenTypes
  <2>1. \E w \in {"TK_TABLE", "TK_INDEX", "TK_DATABASE"} : Slots[s][2] = {w}
    BY FirstWords DEF TwoWords, Words
  <2> QED  BY <2>1 DEF TokenTypes
<1>5. ASSUME NEW s \in {"ParseUseDatabase", "ParseUpdate", "ParseInsert", "ParseDelete", "ParseShow"}
      PROVE  Slots[s][2] \subseteq TokenTypes
  BY DEF Slots, ParseUseDatabase, ParseUpdate, ParseInsert, ParseDelete, ParseShow,
         TokenTypes, Name
<1>6. ASSUME NEW s \in Names \ {"ParseSelect"}  PROVE Slots[s][2] \subseteq TokenTypes
  BY <1>4, <1>5 DEF Names, TwoWords
<1>7. \A s \in Names \ {"ParseSelect"} : Slots[s][1] \subseteq TokenTypes
  BY <1>2 DEF TokenTypes
<1>8. Slots["ParseSelect"][1] \subseteq TokenTypes
  BY <1>3 DEF TokenTypes
<1>9. \A s \in Names : Slots[s][1] \subseteq TokenTypes
  BY <1>7, <1>8
<1>10. \A s \in Names \ {"ParseSelect"} : Slots[s][1] # Slots["ParseSelect"][1]
  BY <1>2, <1>3
<1> QED  BY <1>1, <1>6, <1>9, <1>10

(* Where a statement expects tokens of its own, tokens may be typed. *)
LEMMA SlotTypesKnown ==
  ASSUME Place, slot <= Len(Slots[Statement]),
         Slot \in {Kept, Skipped} \/ Slot \cap (DOMAIN Item \cup DOMAIN Lenient) = {}
  PROVE  SlotTypes \subseteq TokenTypes
<1>1. Statement \in Names /\ slot \in 1..Len(Slots[Statement])
  BY StatementNamed DEF Place
<1>2. Vocabulary(Slot)
  BY <1>1, SlotsKnown DEF Slot
<1>3. DOMAIN Item \cup DOMAIN Lenient = Readers
  BY DEF Item, Lenient, Readers
<1>4. Slot \notin {Kept, Skipped} => Slot \subseteq TokenTypes
  BY <1>2, <1>3 DEF Vocabulary
<1>5. CASE slot = 1
  <2>1. Slot \notin {Kept, Skipped}
    BY <1>5, FrontSlots
  <2>2. SlotTypes = UNION {Slots[s][1] : s \in DOMAIN Slots}
    BY <1>5, <2>1 DEF SlotTypes
  <2> QED  BY <2>2, FrontTypes
<1>6. CASE slot = 2
  <2>1. Statement # "ParseSelect"
    <3>1. Slots["ParseSelect"][2] = {"GetColList"}
      BY DEF Slots, ParseSelect
    <3> QED  BY <1>3, <1>6, <3>1 DEF Slot, Readers, Kept, Skipped
  <2>2. Slot \subseteq TokenTypes
    BY <1>1, <1>6, <2>1, FrontTypes DEF Slot
  <2>3. Slot \notin {Kept, Skipped}
    BY <2>2 DEF Kept, Skipped, TokenTypes, Name, Literal, Types, Comparisons
  <2>4. SlotTypes = UNION {Slots[s][2] : s \in {r \in DOMAIN Slots : Slots[r][1] = Slots[Statement][1]}}
    BY <1>6, <2>3 DEF SlotTypes
  <2>5. \A r \in DOMAIN Slots : Slots[r][1] = Slots[Statement][1] => r # "ParseSelect"
    BY <1>1, <2>1, FrontTypes
  <2> QED  BY <2>4, <2>5, FrontTypes
<1>7. CASE slot # 1 /\ slot # 2
  <2>1. CASE Slot = Kept
    BY <1>7, <2>1 DEF SlotTypes, Name, TokenTypes
  <2>2. CASE Slot = Skipped
    <3>1. Slot # Kept
      BY <2>2 DEF Kept, Skipped
    <3> QED  BY <1>7, <2>2, <3>1 DEF SlotTypes, TokenTypes
  <2>3. CASE Slot \notin {Kept, Skipped}
    BY <1>4, <1>7, <2>3 DEF SlotTypes
  <2> QED  BY <2>1, <2>2, <2>3
<1> QED  BY <1>5, <1>6, <1>7

-----------------------------------------------------------------------------
(* What a client may type, and the end of the text. *)
LEMMA TypedTokens ==
  ASSUME NEW types, types \ (Name \cup Literal) \subseteq TokenTypes,
         NEW names \in SUBSET Spelled,
         NEW token \in Typed(types, names) \cup {End}
  PROVE  /\ token \in Tokens
         /\ token.type = "TK_ID" => token.at \in names
         /\ "VAL_INT" \in types /\ token.type \in Literal => token.at \in Values
<1>1. \/ token.type = "TK_ID" /\ token.at \in names /\ token = [type |-> "TK_ID", at |-> token.at]
      \/ token.type = "VAL_INT" /\ token.at \in Values /\ token = [type |-> "VAL_INT", at |-> token.at]
      \/ /\ token.type = "VAL_STRING" /\ token.at \in Quoted /\ "VAL_INT" \notin types
         /\ token = [type |-> "VAL_STRING", at |-> token.at]
      \/ \E t \in (types \ (Name \cup Literal)) \cup {"TK_MINUS", "end"} : token = Keyword(t)
  BY DEF Typed, End, Keyword
<1>2. {"TK_ID", "VAL_INT", "VAL_STRING", "TK_MINUS", "end"} \subseteq TokenTypes
  BY DEF TokenTypes, Name, Literal
<1>3. names \cup Values \cup Quoted \cup {None} \subseteq Spelled
  BY DEF Spelled
<1>4. CASE token.type = "TK_ID" /\ token.at \in names /\ token = [type |-> "TK_ID", at |-> token.at]
  BY <1>2, <1>3, <1>4 DEF Tokens, Literal
<1>5. CASE token.type = "VAL_INT" /\ token.at \in Values /\ token = [type |-> "VAL_INT", at |-> token.at]
  BY <1>2, <1>3, <1>5 DEF Tokens
<1>6. CASE /\ token.type = "VAL_STRING" /\ token.at \in Quoted /\ "VAL_INT" \notin types
           /\ token = [type |-> "VAL_STRING", at |-> token.at]
  BY <1>2, <1>3, <1>6 DEF Tokens
<1>7. CASE \E t \in (types \ (Name \cup Literal)) \cup {"TK_MINUS", "end"} : token = Keyword(t)
  <2>1. PICK t \in (types \ (Name \cup Literal)) \cup {"TK_MINUS", "end"} : token = Keyword(t)
    BY <1>7
  <2>2. t \in TokenTypes /\ t \notin Name \cup Literal
    BY <1>2, <2>1 DEF Name, Literal
  <2>3. token = [type |-> t, at |-> None]
    BY <2>1 DEF Keyword
  <2> QED  BY <1>3, <2>2, <2>3 DEF Tokens, Name
<1> QED  BY <1>1, <1>4, <1>5, <1>6, <1>7

(* GetToken hands over tokens. *)
LEMMA TokensRead ==
  ASSUME text \in Seq(Tokens), pos \in Nat \ {0},
         NEW types, types \ (Name \cup Literal) \subseteq TokenTypes,
         NEW names \in SUBSET Spelled,
         NEW token \in GetToken(types, names), Read(token)
  PROVE  token \in Tokens /\ text' \in Seq(Tokens)
<1>1. token \in Tokens
  <2>1. CASE pos <= Len(text)
    <3>1. token = text[pos] /\ pos \in 1..Len(text)
      BY <2>1 DEF GetToken
    <3> QED  BY <3>1
  <2>2. CASE ~(pos <= Len(text))
    <3>1. token \in Typed(types, names) \cup {End}
      BY <2>2 DEF GetToken
    <3> QED  BY <3>1, TypedTokens
  <2> QED  BY <2>1, <2>2
<1> QED  BY <1>1 DEF Read

(* Behind its words a function reads what has just been typed. *)
LEMMA ReadsAhead ==
  ASSUME IsText, Ahead, pc = "parsing", Past,
         NEW types, NEW names, NEW token \in GetToken(types, names)
  PROVE  token \in Typed(types, names) \cup {End}
<1>1. Len(text) \in Nat
  BY DEF IsText
<1>2. CASE pos <= Len(text)
  <2>1. token = text[pos]
    BY <1>2 DEF GetToken
  <2>2. text[pos] = End
    BY <1>1, <1>2 DEF Ahead
  <2> QED  BY <2>1, <2>2
<1>3. CASE ~(pos <= Len(text))
  BY <1>3 DEF GetToken
<1> QED  BY <1>2, <1>3

(* And goes on behind it. *)
LEMMA StaysAhead ==
  ASSUME IInv, Ahead, pc = "parsing", Past, NEW token, Read(token), Advance(token),
         NEW types, NEW names, token \in GetToken(types, names),
         UNCHANGED fn, slot' \in Nat, slot' >= slot
  PROVE  Ahead'
<1>1. PICK S : text \in Seq(S)
  BY DEF IInv, IsText
<1>2. text \in Seq(S \cup {token}) /\ Len(text) \in Nat /\ pos \in 1..(Len(text) + 1)
  BY <1>1 DEF Ahead
<1>3. pos' \in 1..(Len(text') + 1) /\ (pos' = Len(text') + 1 \/ text'[pos'] = End)
  <2>1. CASE pos <= Len(text)
    <3>1. text' = text /\ token = text[pos] /\ text[pos] = End
      BY <1>2, <2>1 DEF Read, GetToken, Ahead
    <3>2. pos' = pos
      BY <3>1 DEF Advance
    <3> QED  BY <1>2, <3>1, <3>2
  <2>2. CASE pos = Len(text) + 1
    <3>1. text' = Append(text, token)
      BY <1>2, <2>2 DEF Read
    <3>2. Len(text') = Len(text) + 1 /\ text'[Len(text) + 1] = token
      BY <1>2, <3>1
    <3>3. CASE token = End
      <4>1. pos' = pos
        BY <3>3 DEF Advance
      <4> QED  BY <1>2, <2>2, <3>2, <3>3, <4>1
    <3>4. CASE token # End
      <4>1. pos' = pos + 1
        BY <3>4 DEF Advance
      <4> QED  BY <1>2, <2>2, <3>2, <4>1
    <3> QED  BY <3>3, <3>4
  <2> QED  BY <1>2, <2>1, <2>2
<1>4. Place
  BY DEF IInv
<1>5. Begins(Statements[fn])'
  <2>1. Begins(Statements[fn])
    BY <1>4 DEF IInv, Passed, Past, Begins, BeginsIn, Statement, Place
  <2> QED  BY <2>1, BeginningStays DEF IInv
<1>6. Past'
  BY <1>4 DEF Past, Place, Statement
<1>7. Opened'
  <2>1. fn \in 1..fn
    BY <1>4 DEF Place
  <2> QED  BY <1>5, <1>6, <2>1 DEF Opened
<1> QED  BY <1>3, <1>7 DEF Ahead

(* The first word of a statement of two words is CREATE or DROP, and of no *)
(* other one.                                                              *)
LEMMA FirstOfTwo ==
  ASSUME NEW s \in Names, NEW k, k.type \in Slots[s][1]
  PROVE  s \in TwoWords <=> k.type \in {"TK_CREATE", "TK_DROP"}
<1>1. CASE s \in TwoWords
  <2>1. Slots[s][1] = {"TK_CREATE"} \/ Slots[s][1] = {"TK_DROP"}
    BY <1>1, FirstWords DEF TwoWords, Words
  <2> QED  BY <1>1, <2>1
<1>2. CASE s \notin TwoWords
  <2>1. \E w \in {"TK_USE", "TK_UPDATE", "TK_INSERT", "TK_DELETE", "TK_SELECT", "TK_SHOW"} :
          Slots[s][1] = {w}
    BY <1>2, FirstWords DEF Names, TwoWords, Words
  <2> QED  BY <1>2, <2>1
<1> QED  BY <1>1, <1>2

(* Until some function has found its words no more than two tokens were    *)
(* asked for.                                                              *)
LEMMA FrontShort ==
  ASSUME IInv, Ahead, pc = "parsing", ~Past, ~Opened, NEW token, Read(token)
  PROVE  /\ Len(text') <= 2
         /\ Len(text') = 2 => text'[1].type \in {"TK_CREATE", "TK_DROP"}
<1>1. PICK S : text \in Seq(S)
  BY DEF IInv, IsText
<1>2. /\ text \in Seq(S \cup {token}) /\ Len(text) \in Nat /\ Len(text) <= 2
      /\ Len(text) = 2 => text[1].type \in {"TK_CREATE", "TK_DROP"}
  BY <1>1 DEF Ahead
<1>3. Place /\ Passed
  BY DEF IInv
<1>4. CASE slot = 1
  <2>1. pos = 1
    BY <1>3, <1>4 DEF Passed
  <2>2. CASE Len(text) = 0
    BY <1>2, <2>1, <2>2 DEF Read
  <2>3. CASE Len(text) # 0
    BY <1>2, <2>1, <2>3 DEF Read
  <2> QED  BY <2>2, <2>3
<1>5. CASE slot # 1
  <2>1. slot = 2 /\ Statement \in TwoWords
    BY <1>3, <1>5 DEF Past, Place
  <2>2. Len(text) > 0 /\ text[1].type \in Slots[Statement][1] /\ pos = 2
    BY <1>3, <2>1 DEF Passed
  <2>3. text[1].type \in {"TK_CREATE", "TK_DROP"}
    BY <1>3, <2>1, <2>2, StatementNamed, FirstOfTwo
  <2>4. CASE Len(text) = 1
    <3>1. text' = Append(text, token)
      BY <1>2, <2>2, <2>4 DEF Read
    <3>2. Len(text') = Len(text) + 1 /\ \A n \in 1..Len(text) : text'[n] = text[n]
      BY <1>2, <3>1
    <3> QED  BY <2>3, <2>4, <3>2
  <2>5. CASE Len(text) = 2
    BY <1>2, <2>2, <2>5 DEF Read
  <2>6. \A n \in Nat : n > 0 /\ n <= 2 => n = 1 \/ n = 2
    OBVIOUS
  <2>7. Len(text) \in Nat /\ Len(text) > 0 /\ Len(text) <= 2
    BY <1>2, <2>2
  <2> QED  BY <2>4, <2>5, <2>6, <2>7
<1> QED  BY <1>4, <1>5

(* What was opened stays so. *)
LEMMA StaysOpened ==
  ASSUME IInv, pc = "parsing", Opened, NEW token, Read(token) \/ UNCHANGED text,
         fn' \in fn..12, fn' = fn => Past'
  PROVE  Opened'
<1>1. PICK i \in 1..fn : Begins(Statements[i])
  BY DEF Opened
<1>2. Begins(Statements[i])'
  <2>1. CASE Read(token)
    BY <1>1, <2>1, BeginningStays DEF IInv
  <2>2. CASE UNCHANGED text
    BY <1>1, <2>2 DEF Begins, BeginsIn
  <2> QED  BY <2>1, <2>2
<1>3. i \in 1..fn' /\ (i = fn' => fn' = fn)
  BY DEF IInv, Place
<1> QED  BY <1>2, <1>3 DEF Opened

(* The next function starts over. *)
LEMMA NextAhead ==
  ASSUME IInv, Ahead, pc = "parsing", NEW token, NextFunction,
         Read(token) \/ (UNCHANGED text /\ Past)
  PROVE  Ahead'
<1> SUFFICES ASSUME pc' = "parsing"  PROVE Ahead'
  BY DEF Ahead
<1>1. pos' = 1 /\ slot' = 1 /\ fn' = fn + 1 /\ fn' \in fn..12 /\ Place
  BY FunctionTable DEF IInv, Place, NextFunction
<1>2. ~Past'
  BY <1>1 DEF Past
<1>3. Len(text') \in Nat /\ pos' \in 1..(Len(text') + 1)
  <2>1. CASE Read(token)
    BY <1>1, <2>1, TextGrows DEF IInv, IsText
  <2>2. CASE UNCHANGED text
    BY <1>1, <2>2 DEF IInv, IsText
  <2> QED  BY <2>1, <2>2
<1>4. ASSUME ~Opened'
      PROVE  Len(text') <= 2 /\ (Len(text') = 2 => text'[1].type \in {"TK_CREATE", "TK_DROP"})
  <2>1. ~Opened
    <3>1. fn' # fn
      BY <1>1 DEF Place
    <3> QED  BY <1>1, <1>4, <3>1, StaysOpened
  <2>2. ~Past
    <3>1. Past => Begins(Statements[fn]) /\ fn \in 1..fn
      BY <1>1 DEF IInv, Passed, Past, Begins, BeginsIn, Statement, Place
    <3> QED  BY <2>1, <3>1 DEF Opened
  <2> QED  BY <2>1, <2>2, FrontShort
<1> QED  BY <1>2, <1>3, <1>4 DEF Ahead

(* The step that finds a function's words, and the one before it. *)
LEMMA FrontAhead ==
  ASSUME IInv, Ahead, pc = "parsing", ~Past, NEW token, token \in GetToken(SlotTypes, SlotNames),
         Read(token), token.type \in Slot, Advance(token), UNCHANGED fn, slot' = slot + 1
  PROVE  Ahead'
<1>1. Place /\ Passed /\ IsText /\ Statement \in Names
  BY StatementNamed DEF IInv
<1>2. slot = 1 \/ (slot = 2 /\ Statement \in TwoWords)
  BY <1>1 DEF Past, Place
<1>3. pos = slot /\ Len(text) \in Nat /\ Len(text) >= slot - 1
  BY <1>1, <1>2 DEF Passed, IsText
<1>4. token # End /\ pos' = slot + 1
  <2>1. token.type # "end"
    BY <1>1, <1>2, FrontSlots
  <2> QED  BY <1>3, <2>1 DEF Advance, End, Keyword
<1>5. Len(text') >= slot /\ text'[slot] = token
  BY <1>1, <1>2, <1>3, TokenInText
<1>6. Len(text') \in Nat /\ IsText' /\ Len(text') >= Len(text)
      /\ \A n \in 1..Len(text) : text'[n] = text[n]
  BY <1>1, TextGrows DEF IsText
<1>7. ASSUME Opened  PROVE Begins(Statements[fn])' => FALSE
  <2> SUFFICES ASSUME Begins(Statements[fn])'  PROVE FALSE
    OBVIOUS
  <2>1. PICK i \in 1..fn : Begins(Statements[i]) /\ i # fn
    BY <1>7 DEF Opened
  <2>2. i \in 1..12 /\ fn \in 1..12 /\ Statements[i] \in Names /\ Statements[fn] \in Names
    BY <1>1, <2>1, FunctionTable DEF Place
  <2>3. BeginsIn(Statements[i], text') /\ BeginsIn(Statements[fn], text')
    <3>1. Begins(Statements[i])'
      BY <1>1, <2>1, BeginningStays
    <3> QED  BY <3>1 DEF Begins
  <2>4. Statements[i] = Statements[fn]
    BY <2>2, <2>3, OneBeginning
  <2> QED  BY <2>1, <2>2, <2>4, FunctionTable
<1>8. CASE slot = 1 /\ Statement \notin TwoWords
  <2>1. Begins(Statements[fn])'
    BY <1>5, <1>6, <1>8 DEF Begins, BeginsIn, Slot, Statement
  <2>2. ~Opened
    BY <1>7, <2>1
  <2>3. text'[1].type \in Slots[Statement][1]
    BY <1>5, <1>8 DEF Slot
  <2>4. text'[1].type \notin {"TK_CREATE", "TK_DROP"}
    BY <1>1, <1>8, <2>3, FirstOfTwo
  <2>5. Len(text') <= 2 /\ Len(text') # 2
    BY <1>1, <2>2, <2>4, FrontShort DEF IInv
  <2>6. Len(text') = 1
    <3>1. \A n \in Nat : n >= 1 /\ n <= 2 /\ n # 2 => n = 1
      OBVIOUS
    <3>2. Len(text') \in Nat /\ Len(text') >= 1
      BY <1>5, <1>6, <1>8
    <3> QED  BY <2>5, <3>1, <3>2
  <2>7. pos' = Len(text') + 1 /\ pos' \in 1..(Len(text') + 1)
    BY <1>4, <1>8, <2>6
  <2>8. Past' /\ Opened'
    <3>1. Past'
      BY <1>8 DEF Past, Statement
    <3>2. fn \in 1..fn
      BY <1>1 DEF Place
    <3> QED  BY <2>1, <3>1, <3>2 DEF Opened
  <2> QED  BY <2>7, <2>8 DEF Ahead
<1>9. CASE slot = 1 /\ Statement \in TwoWords
  <2>1. ~Past'
    BY <1>9 DEF Past, Statement
  <2>2. pos' \in 1..(Len(text') + 1)
    BY <1>4, <1>5, <1>6, <1>9
  <2>3. Opened => Opened'
    <3> SUFFICES ASSUME Opened  PROVE Opened'
      OBVIOUS
    <3>1. PICK i \in 1..fn : Begins(Statements[i]) /\ i # fn
      BY DEF Opened
    <3>2. Begins(Statements[i])'
      BY <1>1, <3>1, BeginningStays
    <3> QED  BY <3>1, <3>2 DEF Opened
  <2> QED  BY <2>1, <2>2, <2>3, FrontShort DEF Ahead
<1>10. CASE slot = 2 /\ Statement \in TwoWords
  <2>1. text[1].type \in Slots[Statement][1] /\ Len(text) > 0
    BY <1>1, <1>10 DEF Passed
  <2>2. text'[1] = text[1]
    BY <1>6, <2>1
  <2>3. Begins(Statements[fn])'
    BY <1>5, <1>6, <1>10, <2>1, <2>2 DEF Begins, BeginsIn, Slot, Statement
  <2>4. ~Opened
    BY <1>7, <2>3
  <2>5. Len(text') <= 2
    BY <2>4, FrontShort
  <2>6. Len(text') = 2
    <3>1. \A n \in Nat : n >= 2 /\ n <= 2 => n = 2
      OBVIOUS
    <3>2. Len(text') \in Nat /\ Len(text') >= 2
      BY <1>5, <1>6, <1>10
    <3> QED  BY <2>5, <3>1, <3>2
  <2>7. pos' = Len(text') + 1 /\ pos' \in 1..(Len(text') + 1)
    BY <1>4, <1>10, <2>6
  <2>8. Past' /\ Opened'
    <3>1. Past'
      BY <1>10 DEF Past
    <3>2. fn \in 1..fn
      BY <1>1 DEF Place
    <3> QED  BY <2>3, <3>1, <3>2 DEF Opened
  <2> QED  BY <2>7, <2>8 DEF Ahead
<1> QED  BY <1>2, <1>8, <1>9, <1>10

-----------------------------------------------------------------------------
(* No statement is left before its end. *)
LEMMA SlotMoves ==
  ASSUME Place, slot <= Len(Slots[Statement]), NEW type
  PROVE  /\ After(Statement, slot, type) \in 1..(Len(Slots[Statement]) + 1)
         /\ After(Statement, slot, type) > slot
         /\ Len(Slots[Statement]) \in Nat
<1>1. ASSUME NEW s \in Names  PROVE Len(Slots[s]) \in 1..9
  BY DEF Names, Slots, ParseCreateTable, ParseCreateIndex, ParseCreateDatabase, ParseDropIndex,
         ParseDropDataBase, ParseDropTable, ParseUseDatabase, ParseShow, ParseUpdate,
         ParseDelete, ParseSelect, ParseInsert
<1>2. Len(Slots["ParseInsert"]) = 9
  BY DEF Slots, ParseInsert
<1>3. Statement \in Names /\ slot \in Nat \ {0}
  BY StatementNamed DEF Place
<1>4. Len(Slots[Statement]) \in Nat
  BY <1>1, <1>3
<1>5. CASE Statement = "ParseInsert" /\ slot = 4 /\ type = "TK_VALUES"
  <2>1. After(Statement, slot, type) = 7
    BY <1>5 DEF After
  <2>2. Len(Slots[Statement]) = 9
    BY <1>2, <1>5
  <2>3. slot \in Nat /\ slot < After(Statement, slot, type)
    BY <1>5, <2>1
  <2> QED  BY <2>1, <2>2, <2>3
<1>6. CASE Statement = "ParseInsert" /\ slot = 6 /\ type # "TK_VALUES"
  <2>1. After(Statement, slot, type) = 9
    BY <1>6 DEF After
  <2>2. Len(Slots[Statement]) = 9
    BY <1>2, <1>6
  <2>3. slot \in Nat /\ slot < After(Statement, slot, type)
    BY <1>6, <2>1
  <2> QED  BY <2>1, <2>2, <2>3
<1>7. CASE After(Statement, slot, type) = slot + 1
  BY <1>3, <1>4, <1>7
<1> QED  BY <1>4, <1>5, <1>6, <1>7 DEF After

(* The tree and the condition a function starts with are of the right kind. *)
LEMMA StartTyped ==
  /\ NoCondition \in Whole
  /\ Nothing \in Trees /\ Nothing.words = <<>>
<1>1. None \in Spelled
  BY DEF Spelled
<1>2. NoCondition \in Whole
  BY <1>1 DEF NoCondition, Whole, Half, CondType, Comparisons
<1>3. Nothing \in Trees /\ Nothing.words = <<>>
  BY <1>1 DEF Nothing, NoOrder, Trees
<1> QED  BY <1>2, <1>3

(* The next function starts with nothing. *)
LEMMA NextStarts ==
  ASSUME IInv, NextFunction
  PROVE  /\ slot' \in 1..(Len(Slots[Statement']) + 1)
         /\ cond' \in Half /\ tree' \in Trees /\ Partial'
         /\ TableFirst(Statement, TableRead, tree.words)'
<1>1. fn' \in 1..12 /\ slot' = 1 /\ at' = "start" /\ cond' = NoCondition /\ tree' = Nothing
  BY FunctionTable DEF IInv, Place, NextFunction
<1>2. Statements[fn'] \in Names
  BY <1>1, FunctionTable
<1>3. Len(Slots[Statements[fn']]) \in 1..9
  BY <1>2 DEF Names, Slots, ParseCreateTable, ParseCreateIndex, ParseCreateDatabase, ParseDropIndex,
         ParseDropDataBase, ParseDropTable, ParseUseDatabase, ParseShow, ParseUpdate,
         ParseDelete, ParseSelect, ParseInsert
<1>4. slot' \in 1..(Len(Slots[Statement']) + 1)
  BY <1>1, <1>3 DEF Statement
<1>5. Partial'
  BY <1>1 DEF Partial
<1>6. TableFirst(Statement, TableRead, tree.words)'
  BY <1>1, StartTyped DEF TableFirst, TableRead
<1> QED  BY <1>1, <1>4, <1>5, <1>6, StartTyped DEF Whole

(* A function returns an error. *)
LEMMA FailBuilt ==
  ASSUME IInv, Built, pc = "parsing", NEW token, Read(token), text' \in Seq(Tokens), Fail
  PROVE  Built'
<1>1. Ahead'
  BY NextAhead DEF Built, Fail
<1>2. WellTyped'
  BY NextStarts DEF Built, WellTyped, Fail
<1>3. Handed'
  BY DEF Built, Handed, Fail
<1> QED  BY <1>1, <1>2, <1>3, NextStarts DEF Built, Fail

(* A function goes on with what it has built. *)
LEMMA GoesOn ==
  ASSUME IInv, Built, pc = "parsing", slot <= Len(Slots[Statement]), Past,
         NEW types, NEW names, NEW token, token \in GetToken(types, names),
         Read(token), Advance(token), text' \in Seq(Tokens),
         UNCHANGED <<fn, calls, pc>>,
         slot' \in {slot, After(Statement, slot, token.type)},
         cond' \in Half, tree' \in Trees, Partial',
         TableFirst(Statement, TableRead, tree.words)'
  PROVE  Built'
<1>1. Place
  BY DEF IInv
<1>2. slot' \in 1..(Len(Slots[Statement]) + 1) /\ slot' >= slot /\ slot' \in Nat
  BY <1>1, SlotMoves DEF Place
<1>3. Ahead'
  BY <1>2, StaysAhead DEF Built
<1>4. WellTyped'
  BY <1>2 DEF Built, WellTyped, Statement
<1>5. Handed'
  BY DEF Built, Handed
<1> QED  BY <1>3, <1>4, <1>5 DEF Built

-----------------------------------------------------------------------------
(* A word of the statement is kept with its kind. *)
LEMMA KeepTyped ==
  ASSUME tree \in Trees, NEW token \in Tokens
  PROVE  /\ Keep(token) \in Trees
         /\ Keep(token).words = tree.words \/ Keep(token).words = Append(tree.words, token)
         /\ token.type \notin Name \cup Literal \cup Types /\ Slot # Kept => Keep(token) = tree
         /\ Keep(token).cols = tree.cols
<1>1. /\ tree.words \in Seq(Tokens) /\ Append(tree.words, token) \in Seq(Tokens)
  BY DEF Trees
<1>2. /\ [tree EXCEPT !.words = Append(@, token)] \in Trees
      /\ [tree EXCEPT !.words = Append(@, token)].words = Append(tree.words, token)
      /\ [tree EXCEPT !.words = Append(@, token)].cols = tree.cols
  BY <1>1 DEF Trees
<1> QED  BY <1>2 DEF Keep

(* The name of the table is the first word of an UPDATE or a DELETE that   *)
(* is kept.                                                                *)
LEMMA KeepTable ==
  ASSUME IInv, Built, pc = "parsing", slot <= Len(Slots[Statement]), Past,
         NEW token \in Tokens, Expected(token),
         token.type = "TK_ID" => token.at \in SlotNames,
         tree' = Keep(token), UNCHANGED fn, slot' = After(Statement, slot, token.type)
  PROVE  TableFirst(Statement, TableRead, tree.words)'
<1> SUFFICES ASSUME Statement \in {"ParseUpdate", "ParseDelete"}
             PROVE  TableFirst(Statement, TableRead, tree.words)'
  BY DEF TableFirst, Statement
<1>1. Place /\ tree \in Trees /\ slot' = slot + 1 /\ Statement' = Statement
  BY DEF IInv, Built, WellTyped, After, Statement
<1>2. tree'.words = tree.words \/ tree'.words = Append(tree.words, token)
  BY <1>1, KeepTyped
<1>3. tree.words \in Seq(Tokens)
  BY <1>1 DEF Trees
<1>4. CASE TableRead
  <2>1. tree.words # <<>> /\ tree.words[1].at \in Tables
    BY <1>4 DEF Built, TableFirst
  <2>2. Len(tree.words) \in Nat /\ Len(tree.words) > 0
    BY <1>3, <2>1
  <2>3. Append(tree.words, token)[1] = tree.words[1] /\ Append(tree.words, token) # <<>>
    BY <1>3, <2>2
  <2>4. tree'.words # <<>> /\ tree'.words[1].at \in Tables
    BY <1>2, <2>1, <2>3
  <2>5. TableRead'
    BY <1>1, <1>4 DEF TableRead, Place
  <2> QED  BY <2>4, <2>5 DEF TableFirst
<1>5. CASE ~TableRead /\ slot = (IF Statement = "ParseUpdate" THEN 2 ELSE 3)
  <2>1. tree.words = <<>>
    BY <1>5 DEF Built, TableFirst
  <2>2. Slot = {"TK_ID"}
    BY <1>5 DEF Slot, Slots, ParseUpdate, ParseDelete
  <2>3. Slot \notin {Kept, Skipped}
    BY <2>2 DEF Kept, Skipped
  <2>4. token.type = "TK_ID"
    BY <2>2, <2>3 DEF Expected
  <2>5. token.at \in Tables
    BY <2>1, <2>4 DEF SlotNames
  <2>6. tree'.words = Append(tree.words, token)
    <3>1. token.type \in Name
      BY <2>4 DEF Name
    <3> QED  BY <1>1, <2>3, <2>4, <3>1 DEF Keep, Trees
  <2>7. tree'.words # <<>> /\ tree'.words[1] = token
    BY <2>1, <2>6
  <2>8. TableRead'
    BY <1>1, <1>5 DEF TableRead
  <2> QED  BY <2>5, <2>7, <2>8 DEF TableFirst
<1>6. CASE ~TableRead /\ slot # (IF Statement = "ParseUpdate" THEN 2 ELSE 3)
  <2>1. tree.words = <<>>
    BY <1>6 DEF Built, TableFirst
  <2>2. Statement = "ParseDelete" /\ slot = 2
    BY <1>1, <1>6 DEF TableRead, Past, Place, TwoWords
  <2>3. Slot = {"TK_FROM"}
    BY <2>2 DEF Slot, Slots, ParseDelete
  <2>4. token.type = "TK_FROM" /\ Slot # Kept
    BY <2>3 DEF Expected, Kept, Skipped
  <2>5. token.type \notin Name \cup Literal \cup Types
    BY <2>4 DEF Name, Literal, Types
  <2>6. tree' = tree
    BY <1>1, <2>4, <2>5, KeepTyped
  <2>7. ~TableRead'
    BY <1>1, <2>2 DEF TableRead
  <2> QED  BY <2>1, <2>6, <2>7 DEF TableFirst
<1> QED  BY <1>4, <1>5, <1>6

(* A token of the statement itself. *)
LEMMA ReadTokenBuilt ==
  ASSUME IInv, Built, ReadToken
  PROVE  Built'
<1>1. /\ pc = "parsing" /\ slot <= Len(Slots[Statement]) /\ Place /\ IsText
      /\ Slot \in {Kept, Skipped} \/ Slot \cap (DOMAIN Item \cup DOMAIN Lenient) = {}
  BY DEF ReadToken, Reading, IInv
<1>2. SlotTypes \subseteq TokenTypes /\ SlotNames \in SUBSET Spelled
  BY <1>1, SlotTypesKnown DEF SlotNames, Spelled
<1>3. PICK token \in GetToken(SlotTypes, SlotNames) :
        /\ Read(token)
        /\ \/ /\ Expected(token) /\ Advance(token) /\ tree' = Keep(token)
              /\ NextSlot(token) /\ UNCHANGED cond
           \/ Fail
  BY DEF ReadToken
<1>4. text \in Seq(Tokens) /\ tree \in Trees /\ cond \in Half /\ pos \in Nat \ {0}
  BY <1>1 DEF Built, WellTyped, Ahead
<1>5. token \in Tokens /\ text' \in Seq(Tokens)
  BY <1>2, <1>3, <1>4, TokensRead
<1>6. CASE Fail
  BY <1>1, <1>3, <1>5, <1>6, FailBuilt
<1>7. CASE /\ Expected(token) /\ Advance(token) /\ tree' = Keep(token)
           /\ NextSlot(token) /\ UNCHANGED cond
  <2>1. /\ UNCHANGED <<fn, calls, pc>> /\ at' = "start"
        /\ slot' = After(Statement, slot, token.type)
    BY <1>7 DEF NextSlot
  <2>2. tree' \in Trees
    BY <1>4, <1>5, <1>7, KeepTyped
  <2>3. Partial'
    BY <2>1 DEF Partial
  <2>4. CASE Past
    <3>1. token \in Typed(SlotTypes, SlotNames) \cup {End}
      BY <1>1, <1>3, <2>4, ReadsAhead DEF Built
    <3>2. token.type = "TK_ID" => token.at \in SlotNames
      BY <1>2, <3>1, TypedTokens
    <3>3. TableFirst(Statement, TableRead, tree.words)'
      BY <1>1, <1>5, <1>7, <2>1, <2>4, <3>2, KeepTable
    <3> QED  BY <1>1, <1>3, <1>4, <1>5, <1>7, <2>1, <2>2, <2>3, <2>4, <3>3, GoesOn
  <2>5. CASE ~Past
    <3>1. slot = 1 \/ (slot = 2 /\ Statement \in TwoWords)
      BY <1>1, <2>5 DEF Past, Place
    <3>2. token.type \in Slot /\ token.type \notin Name \cup Literal \cup Types /\ Slot # Kept
      BY <1>1, <1>7, <3>1, FrontSlots DEF Expected
    <3>3. tree' = tree
      BY <1>4, <1>5, <1>7, <3>2, KeepTyped
    <3>4. slot' = slot + 1
      BY <2>1, <3>1 DEF After
    <3>5. Ahead'
      BY <1>1, <1>3, <1>7, <2>1, <2>5, <3>2, <3>4, FrontAhead DEF Built
    <3>6. slot' \in 1..(Len(Slots[Statement]) + 1)
      BY <1>1, <2>1, SlotMoves
    <3>7. WellTyped'
      BY <1>4, <1>5, <1>7, <2>1, <2>2, <3>6 DEF Built, WellTyped, Statement
    <3>8. TableFirst(Statement, TableRead, tree.words)'
      <4>1. ~TableRead /\ (Statement \in {"ParseUpdate", "ParseDelete"} => slot = 1)
        BY <3>1 DEF TableRead, TwoWords
      <4>2. Statement \in {"ParseUpdate", "ParseDelete"} => tree.words = <<>>
        BY <4>1 DEF Built, TableFirst
      <4>3. Statement \in {"ParseUpdate", "ParseDelete"} => ~TableRead'
        BY <2>1, <3>4, <4>1 DEF TableRead, Statement
      <4> QED  BY <2>1, <3>3, <4>2, <4>3 DEF TableFirst, Statement
    <3>9. Handed'
      BY <2>1 DEF Built, Handed
    <3> QED  BY <2>3, <3>5, <3>7, <3>8, <3>9 DEF Built
  <2> QED  BY <2>4, <2>5
<1> QED  BY <1>3, <1>6, <1>7

-----------------------------------------------------------------------------
(* A reader comes behind the name of the table. *)
LEMMA ReaderBehindTable ==
  ASSUME Place, NEW reader \in DOMAIN Item \cup DOMAIN Lenient, Slot = {reader}
  PROVE  /\ Past
         /\ Statement \in {"ParseUpdate", "ParseDelete"} => TableRead
<1>1. Past
  BY ReaderLater DEF Past, Place
<1>2. ASSUME Statement = "ParseUpdate", slot \in 1..2  PROVE FALSE
  <2>1. Slot \in {{"TK_UPDATE"}, {"TK_ID"}}
    BY <1>2 DEF Slot, Slots, ParseUpdate
  <2> QED  BY <2>1 DEF Item, Lenient
<1>3. ASSUME Statement = "ParseDelete", slot \in 1..3  PROVE FALSE
  <2>1. Slot \in {{"TK_DELETE"}, {"TK_FROM"}, {"TK_ID"}}
    BY <1>3 DEF Slot, Slots, ParseDelete
  <2> QED  BY <2>1 DEF Item, Lenient
<1> QED  BY <1>1, <1>2, <1>3 DEF TableRead, Place

(* And leaves that name alone. *)
LEMMA ReaderKeepsTable ==
  ASSUME IInv, Built, NEW reader \in DOMAIN Item \cup DOMAIN Lenient, Slot = {reader},
         slot <= Len(Slots[Statement]), NEW type,
         UNCHANGED fn, slot' \in {slot, After(Statement, slot, type)},
         tree'.words = tree.words
  PROVE  TableFirst(Statement, TableRead, tree.words)'
<1>1. Place /\ slot' >= slot /\ slot \in Nat /\ slot' \in Nat
  BY SlotMoves DEF IInv, Place
<1>2. Statement' = Statement
  BY DEF Statement
<1>3. Statement \in {"ParseUpdate", "ParseDelete"} => TableRead /\ TableRead'
  BY <1>1, <1>2, ReaderBehindTable DEF TableRead
<1> QED  BY <1>2, <1>3 DEF Built, TableFirst

(* What an item of a list consists of. *)
LEMMA ItemTypes ==
  ASSUME NEW reader \in DOMAIN Item, NEW n \in Nat
  PROVE  Item[reader][1 + (n % Len(Item[reader]))] \subseteq Name \cup Literal \cup Types
<1>1. CASE reader = "ParseAttrTypeList"
  <2>1. Item[reader] = <<Name, Types>> /\ n % 2 \in 0..1
    BY <1>1 DEF Item
  <2>2. 1 + (n % 2) = 1 \/ 1 + (n % 2) = 2
    BY <2>1
  <2> QED  BY <2>1, <2>2
<1>2. CASE reader = "ParseAttrList"
  <2>1. Item[reader] = <<Name>> /\ n % 1 = 0
    BY <1>2 DEF Item
  <2> QED  BY <2>1
<1>3. CASE reader = "ParseValueList"
  <2>1. Item[reader] = <<Name \cup Literal>> /\ n % 1 = 0
    BY <1>3 DEF Item
  <2> QED  BY <2>1
<1> QED  BY <1>1, <1>2, <1>3 DEF Item

(* The lists of CREATE TABLE and INSERT. *)
LEMMA ReadListBuilt ==
  ASSUME IInv, Built, NEW reader \in DOMAIN Item, NEW part \in {"attrs", "values"},
         ReadList(reader, part)
  PROVE  Built'
<1> DEFINE item == Item[reader]
           n == Len(tree[part])
           types == item[1 + (n % Len(item))]
           isDue == at = "start"
           wanted == IF isDue THEN types ELSE {"TK_COMMA", "TK_RPAREN"}
<1>1. /\ pc = "parsing" /\ slot <= Len(Slots[Statement]) /\ Place /\ IsText
      /\ Slot = {reader} /\ Past
  BY ReaderBehindTable DEF ReadList, Reading, IInv
<1>2. text \in Seq(Tokens) /\ tree \in Trees /\ cond \in Half /\ pos \in Nat \ {0}
  BY <1>1 DEF Built, WellTyped, Ahead
<1>3. tree[part] \in Seq(Tokens) /\ n \in Nat
  <2>1. tree.attrs \in Seq(Tokens) /\ tree.values \in Seq(Tokens)
    BY <1>2 DEF Trees
  <2>2. tree[part] \in Seq(Tokens)
    BY <2>1
  <2> QED  BY <2>2
<1>4. wanted \ (Name \cup Literal) \subseteq TokenTypes /\ Fields \in SUBSET Spelled
  <2>1. types \subseteq Name \cup Literal \cup Types
    BY <1>3, ItemTypes
  <2>2. Types \cup {"TK_COMMA", "TK_RPAREN"} \subseteq TokenTypes
    BY DEF TokenTypes
  <2> HIDE DEF types
  <2> QED  BY <2>1, <2>2 DEF Spelled
<1>5. PICK token \in GetToken(wanted, Fields) :
        /\ Read(token)
        /\ \/ /\ Advance(token) /\ tree' = [tree EXCEPT ![part] = Append(@, token)]
              /\ Stay("separator") \/ Stay("start")
              /\ UNCHANGED cond
           \/ Fail
           \/ pc' = "crashed" /\ UNCHANGED <<pos, fn, slot, at, cond, tree, calls>>
           \/ /\ Advance(token)
              /\ Stay("start") \/ NextSlot(token)
              /\ UNCHANGED <<cond, tree>>
  BY DEF ReadList
<1> HIDE DEF wanted
<1>6. token \in Tokens /\ text' \in Seq(Tokens)
  BY <1>2, <1>4, <1>5, TokensRead
<1>7. CASE Fail
  BY <1>1, <1>5, <1>6, <1>7, FailBuilt
<1>8. CASE pc' = "crashed" /\ UNCHANGED <<pos, fn, slot, at, cond, tree, calls>>
  <2>1. WellTyped' /\ Ahead' /\ Handed'
    BY <1>6, <1>8 DEF Built, WellTyped, Ahead, Handed, Statement
  <2>2. Partial' /\ TableFirst(Statement, TableRead, tree.words)'
    BY <1>8 DEF Built, Partial, TableFirst, TableRead, Statement, Slot
  <2> QED  BY <2>1, <2>2 DEF Built
<1>9. ASSUME Advance(token), Stay("separator") \/ Stay("start") \/ NextSlot(token),
             UNCHANGED cond, tree' \in Trees, tree'.words = tree.words
      PROVE  Built'
  <2>1. /\ UNCHANGED <<fn, calls, pc>> /\ slot' \in {slot, After(Statement, slot, token.type)}
        /\ at' \in {"separator", "start"}
    BY <1>9 DEF Stay, NextSlot
  <2>2. Partial'
    BY <2>1 DEF Partial
  <2>3. TableFirst(Statement, TableRead, tree.words)'
    BY <1>1, <1>9, <2>1, ReaderKeepsTable
  <2> QED  BY <1>1, <1>2, <1>5, <1>6, <1>9, <2>1, <2>2, <2>3, GoesOn
<1>10. CASE /\ Advance(token) /\ tree' = [tree EXCEPT ![part] = Append(@, token)]
            /\ Stay("separator") \/ Stay("start")
            /\ UNCHANGED cond
  <2>1. Append(tree[part], token) \in Seq(Tokens)
    BY <1>3, <1>6
  <2>2. tree' \in Trees /\ tree'.words = tree.words
    <3>1. CASE part = "attrs"
      BY <1>2, <1>10, <2>1, <3>1 DEF Trees
    <3>2. CASE part = "values"
      BY <1>2, <1>10, <2>1, <3>2 DEF Trees
    <3> QED  BY <3>1, <3>2
  <2> QED  BY <1>9, <1>10, <2>2
<1>11. CASE /\ Advance(token)
            /\ Stay("start") \/ NextSlot(token)
            /\ UNCHANGED <<cond, tree>>
  <2>1. tree' \in Trees /\ tree'.words = tree.words /\ UNCHANGED cond
    BY <1>2, <1>11
  <2>2. Stay("start") \/ NextSlot(token)
    BY <1>11
  <2> QED  BY <1>9, <1>11, <2>1, <2>2
<1> QED  BY <1>5, <1>7, <1>8, <1>10, <1>11

-----------------------------------------------------------------------------
(* The edges of the four automata know tokens only. *)
LEMMA EdgeTypes ==
  \A e \in GetColListEdges \cup GetTableListEdges \cup GetExprEdges \cup GetOrderByEdges :
    e.types \subseteq TokenTypes
<1>1. Name \cup Literal \cup Comparisons \cup
        {"TK_STAR", "TK_FROM", "TK_DOT", "TK_ID", "TK_AS", "TK_COMMA", "TK_SEMICOLON",
         "TK_WHERE", "TK_AND", "TK_BY", "TK_ASC", "TK_DESC"} \subseteq TokenTypes
  BY DEF TokenTypes, Name
<1> HIDE DEF Name, Literal, Comparisons, TokenTypes
<1>2. \A e \in GetColListEdges : e.types \subseteq TokenTypes
  BY <1>1 DEF GetColListEdges, Edge
<1>3. \A e \in GetTableListEdges : e.types \subseteq TokenTypes
  BY <1>1 DEF GetTableListEdges, Edge
<1>4. \A e \in GetExprEdges : e.types \subseteq TokenTypes
  BY <1>1 DEF GetExprEdges, Edge
<1>5. \A e \in GetOrderByEdges : e.types \subseteq TokenTypes
  BY <1>1 DEF GetOrderByEdges, Edge
<1> QED  BY <1>2, <1>3, <1>4, <1>5

(* What a client may go on with. *)
LEMMA BehindTypes ==
  ASSUME NEW edges, \A e \in edges : e.types \subseteq TokenTypes
  PROVE  Behind(edges) \subseteq TokenTypes
<1>1. Operators \cup {"TK_COMMA", "TK_WHERE", "TK_SEMICOLON", "TK_DOT", "TK_AND", "TK_ORDER",
                      "TK_ASC", "TK_DESC"} \subseteq TokenTypes
  BY DEF Operators, TokenTypes, Comparisons
<1>2. Awaited(edges) \subseteq TokenTypes
  BY DEF Awaited
<1> HIDE DEF Operators, TokenTypes
<1> QED  BY <1>1, <1>2 DEF Behind

(* Where a value may stand, numbers are typed. *)
LEMMA NumbersTyped ==
  ASSUME at \in {"start", "left", "right"}
  PROVE  "VAL_INT" \in Behind(GetExprEdges)
<1>1. Behind(GetExprEdges) = Awaited(GetExprEdges) \ {"TK_DOT"}
  BY DEF Behind
<1>2. \E e \in GetExprEdges : at \in e.at /\ "VAL_INT" \in e.types
  <2>1. CASE at \in {"start", "left"}
    <3>1. Edge({"start", "left"}, Literal, "leftValue", "op") \in GetExprEdges
      BY DEF GetExprEdges
    <3> QED  BY <2>1, <3>1 DEF Edge, Literal
  <2>2. CASE at = "right"
    <3>1. Edge({"right"}, Literal, "rightValue", "and") \in GetExprEdges
      BY DEF GetExprEdges
    <3> QED  BY <2>2, <3>1 DEF Edge, Literal
  <2> QED  BY <2>1, <2>2
<1>3. "VAL_INT" \in Awaited(GetExprEdges)
  BY <1>2 DEF Awaited
<1> QED  BY <1>1, <1>3

-----------------------------------------------------------------------------
(* What each edge of GetExpr makes of the condition and of the tree. *)
LEMMA ExprBuilds ==
  ASSUME cond \in Half, tree \in Trees, Partial, NEW e \in GetExprEdges, at \in e.at,
         NEW token \in Tokens, token.type \in e.types,
         at \in {"start", "left", "right"} /\ token.type \in Literal => token.at \in Values
  PROVE  /\ NewCond(e.role, token) \in Half
         /\ NewTree(e.role, token) \in Trees
         /\ NewTree(e.role, token).words = tree.words
         /\ e.next # "leave"
         /\ e.next \notin {"name", "dot", "qualified", "as"}
         /\ e.next \in {"leftId", "leftDot"} => NewCond(e.role, token).leftValue = None
         /\ e.next \in {"leftId", "leftDot", "op", "right"}
              => NewCond(e.role, token).rightField = None
         /\ e.next \in {"leftId", "leftDot", "op", "right", "rightId", "rightDot"}
              => NewCond(e.role, token).rightValue = None
<1>1. token.at \in Spelled /\ None \in Spelled
  BY DEF Tokens, Spelled
<1>2. NoCondition \in Half /\ NoCondition.leftValue = None /\ NoCondition.leftField = None
      /\ NoCondition.rightValue = None /\ NoCondition.rightField = None
  BY StartTyped DEF Whole, NoCondition
<1>3. /\ cond \in CondType /\ None \in {cond.leftField, cond.leftValue}
      /\ NoCondition \in CondType
  BY <1>2 DEF Half
<1>4. tree.list \in Seq(Whole)
  BY DEF Trees
<1>5. ASSUME NEW c \in Whole
      PROVE  /\ [tree EXCEPT !.list = Append(@, c)] \in Trees
             /\ [tree EXCEPT !.list = Append(@, c)].words = tree.words
  <2>1. Append(tree.list, c) \in Seq(Whole)
    BY <1>4
  <2> QED  BY <2>1 DEF Trees
<1> HIDE DEF Literal
<1>6. CASE e.role = "leftValue"
  <2>1. e = Edge({"start", "left"}, Literal, "leftValue", "op")
    BY <1>6 DEF GetExprEdges, Edge
  <2>2. token.at \in Values /\ e.next = "op"
    BY <2>1 DEF Edge
  <2>3. NewCond(e.role, token) = [NoCondition EXCEPT !.leftValue = token.at]
    BY <1>6 DEF NewCond
  <2>4. NewTree(e.role, token) = tree
    BY <1>6 DEF NewTree
  <2>5. NewCond(e.role, token) \in Half
    BY <1>2, <1>3, <2>2, <2>3 DEF Half, CondType
  <2>6. NewCond(e.role, token).rightValue = None /\ NewCond(e.role, token).rightField = None
    BY <1>2, <1>3, <2>3 DEF CondType
  <2> QED  BY <2>2, <2>4, <2>5, <2>6
<1>7. CASE e.role = "leftField"
  <2>1. e = Edge({"start", "left"}, {"TK_ID"}, "leftField", "leftId")
    BY <1>7 DEF GetExprEdges, Edge
  <2>2. e.next = "leftId"
    BY <2>1 DEF Edge
  <2>3. NewCond(e.role, token) = [NoCondition EXCEPT !.leftField = token.at]
    BY <1>7 DEF NewCond
  <2>4. NewTree(e.role, token) = tree
    BY <1>7 DEF NewTree
  <2>5. NewCond(e.role, token) \in Half
    BY <1>1, <1>2, <1>3, <2>3 DEF Half, CondType
  <2>6. NewCond(e.role, token).rightValue = None /\ NewCond(e.role, token).rightField = None
        /\ NewCond(e.role, token).leftValue = None
    BY <1>2, <1>3, <2>3 DEF CondType
  <2> QED  BY <2>2, <2>4, <2>5, <2>6
<1>8. CASE e.role = "leftTable"
  <2>1. e = Edge({"leftDot"}, {"TK_ID"}, "leftTable", "op")
    BY <1>8 DEF GetExprEdges, Edge
  <2>2. e.next = "op" /\ at = "leftDot"
    BY <2>1 DEF Edge
  <2>3. NewCond(e.role, token) = [cond EXCEPT !.leftTable = cond.leftField, !.leftField = token.at]
    BY <1>8 DEF NewCond
  <2>4. NewTree(e.role, token) = tree
    BY <1>8 DEF NewTree
  <2>5. cond.leftValue = None /\ cond.rightField = None /\ cond.rightValue = None
    BY <2>2 DEF Partial
  <2>6. NewCond(e.role, token) \in Half
    BY <1>1, <1>3, <2>3, <2>5 DEF Half, CondType
  <2>7. NewCond(e.role, token).rightValue = None /\ NewCond(e.role, token).rightField = None
    BY <1>3, <2>3, <2>5 DEF CondType
  <2> QED  BY <2>2, <2>4, <2>6, <2>7
<1>9. CASE e.role = "op"
  <2>1. e = Edge({"leftId", "op"}, Comparisons, "op", "right")
    BY <1>9 DEF GetExprEdges, Edge
  <2>2. e.next = "right" /\ at \in {"leftId", "op"} /\ token.type \in Comparisons
    BY <2>1 DEF Edge
  <2>3. NewCond(e.role, token) = [cond EXCEPT !.op = token.type]
    BY <1>9 DEF NewCond
  <2>4. NewTree(e.role, token) = tree
    BY <1>9 DEF NewTree
  <2>5. cond.rightField = None /\ cond.rightValue = None
    BY <2>2 DEF Partial
  <2>6. NewCond(e.role, token) \in Half
    BY <1>3, <2>2, <2>3 DEF Half, CondType
  <2>7. NewCond(e.role, token).rightValue = None /\ NewCond(e.role, token).rightField = None
    BY <1>3, <2>3, <2>5 DEF CondType
  <2> QED  BY <2>2, <2>4, <2>6, <2>7
<1>10. CASE e.role = "rightValue"
  <2>1. e = Edge({"right"}, Literal, "rightValue", "and")
    BY <1>10 DEF GetExprEdges, Edge
  <2>2. e.next = "and" /\ at = "right" /\ token.at \in Values
    BY <2>1 DEF Edge
  <2>3. NewCond(e.role, token) = [cond EXCEPT !.rightValue = token.at]
    BY <1>10 DEF NewCond
  <2>4. NewTree(e.role, token) = [tree EXCEPT !.list = Append(@, NewCond(e.role, token))]
    BY <1>10 DEF NewTree
  <2>5. cond.rightField = None
    BY <2>2 DEF Partial
  <2>6. NewCond(e.role, token) \in Whole
    BY <1>3, <2>2, <2>3, <2>5 DEF Whole, Half, CondType
  <2> QED  BY <1>5, <2>2, <2>4, <2>6 DEF Whole
<1>11. CASE e.role = "rightField"
  <2>1. e = Edge({"right"}, {"TK_ID"}, "rightField", "rightId")
    BY <1>11 DEF GetExprEdges, Edge
  <2>2. e.next = "rightId" /\ at = "right"
    BY <2>1 DEF Edge
  <2>3. NewCond(e.role, token) = [cond EXCEPT !.rightField = token.at]
    BY <1>11 DEF NewCond
  <2>4. NewTree(e.role, token) = [tree EXCEPT !.list = Append(@, NewCond(e.role, token))]
    BY <1>11 DEF NewTree
  <2>5. cond.rightValue = None
    BY <2>2 DEF Partial
  <2>6. NewCond(e.role, token) \in Whole /\ NewCond(e.role, token).rightValue = None
    BY <1>1, <1>3, <2>3, <2>5 DEF Whole, Half, CondType
  <2> QED  BY <1>5, <2>2, <2>4, <2>6 DEF Whole
<1>12. CASE e.role = "rightTable"
  <2>1. e = Edge({"rightDot"}, {"TK_ID"}, "rightTable", "and")
    BY <1>12 DEF GetExprEdges, Edge
  <2>2. e.next = "and" /\ at = "rightDot"
    BY <2>1 DEF Edge
  <2>3. NewCond(e.role, token) = [cond EXCEPT !.rightTable = cond.rightField, !.rightField = token.at]
    BY <1>12 DEF NewCond
  <2>4. NewTree(e.role, token) = [tree EXCEPT !.list = Append(@, NewCond(e.role, token))]
    BY <1>12 DEF NewTree
  <2>5. cond.rightValue = None
    BY <2>2 DEF Partial
  <2>6. NewCond(e.role, token) \in Whole
    BY <1>1, <1>3, <2>3, <2>5 DEF Whole, Half, CondType
  <2> QED  BY <1>5, <2>2, <2>4, <2>6 DEF Whole
<1>13. CASE e.role = "reopen"
  <2>1. e = Edge({"rightId"}, {"TK_DOT"}, "reopen", "rightDot")
    BY <1>13 DEF GetExprEdges, Edge
  <2>2. e.next = "rightDot" /\ at = "rightId"
    BY <2>1 DEF Edge
  <2>3. NewCond(e.role, token) = cond
    BY <1>13 DEF NewCond
  <2>4. NewTree(e.role, token) = [tree EXCEPT !.list = Front(@)]
    BY <1>13 DEF NewTree
  <2>5. Front(tree.list) \in Seq(Whole)
    BY <1>4 DEF Front
  <2>6. [tree EXCEPT !.list = Front(@)] \in Trees /\ [tree EXCEPT !.list = Front(@)].words = tree.words
    BY <2>5 DEF Trees
  <2>7. cond.rightValue = None
    BY <2>2 DEF Partial
  <2> QED  BY <2>2, <2>3, <2>4, <2>6, <2>7
<1>14. CASE e.role = "none"
  <2>1. \/ e = Edge({"leftId"}, {"TK_DOT"}, "none", "leftDot")
        \/ e = Edge({"rightId", "and"}, {"TK_AND"}, "none", "left")
    BY <1>14 DEF GetExprEdges, Edge
  <2>2. \/ e.next = "leftDot" /\ at = "leftId"
        \/ e.next = "left"
    BY <2>1 DEF Edge
  <2>3. NewCond(e.role, token) = cond
    BY <1>14 DEF NewCond
  <2>4. NewTree(e.role, token) = tree
    BY <1>14 DEF NewTree
  <2> QED  BY <2>2, <2>3, <2>4 DEF Partial
<1>15. e.role \in {"leftValue", "leftField", "leftTable", "op", "rightValue", "rightField",
                   "rightTable", "reopen", "none"}
  BY DEF GetExprEdges, Edge
<1> QED
  BY <1>6, <1>7, <1>8, <1>9, <1>10, <1>11, <1>12, <1>13, <1>14, <1>15

(* What the edges of the other readers make of the tree; they leave the    *)
(* condition alone.                                                        *)
LEMMA ColumnsBuild ==
  ASSUME tree \in Trees, Partial, Slot = {"GetColList"}, NEW e \in GetColListEdges, at \in e.at,
         NEW token \in Tokens
  PROVE  /\ NewCond(e.role, token) = cond
         /\ NewTree(e.role, token) \in Trees
         /\ NewTree(e.role, token).words = tree.words
         /\ e.next \in {"name", "dot", "qualified", "as"} => NewTree(e.role, token).cols # <<>>
         /\ e.next \notin {"leftId", "leftDot", "op", "right", "rightId", "rightDot"}
<1> DEFINE Col == [table : Spelled, field : Spelled, nickName : Spelled]
<1>1. token.at \in Spelled /\ None \in Spelled
  BY DEF Tokens, Spelled
<1>2. tree.cols \in Seq(Col)
  BY DEF Trees
<1>3. ASSUME NEW c \in Col, NEW cols \in Seq(Col)
      PROVE  /\ [tree EXCEPT !.cols = Append(cols, c)] \in Trees
             /\ [tree EXCEPT !.cols = Append(cols, c)].words = tree.words
             /\ [tree EXCEPT !.cols = Append(cols, c)].cols # <<>>
  <2>1. Append(cols, c) \in Seq(Col) /\ Append(cols, c) # <<>>
    OBVIOUS
  <2> QED  BY <2>1 DEF Trees
<1>4. ASSUME tree.cols # <<>>
      PROVE  Front(tree.cols) \in Seq(Col) /\ Last(tree.cols) \in Col
  <2>1. Len(tree.cols) \in Nat /\ Len(tree.cols) > 0
    BY <1>2, <1>4
  <2>2. Len(tree.cols) \in 1..Len(tree.cols)
    BY <2>1
  <2>3. Last(tree.cols) \in Col
    <3> HIDE DEF Col
    <3> QED  BY <1>2, <2>2 DEF Last
  <2>4. Front(tree.cols) \in Seq(Col)
    <3> HIDE DEF Col
    <3> QED  BY <1>2 DEF Front
  <2> QED  BY <2>3, <2>4
<1>5. CASE e.role = "column"
  <2>1. NewTree(e.role, token) =
          [tree EXCEPT !.cols = Append(tree.cols, [table |-> None, field |-> token.at, nickName |-> token.at])]
    BY <1>5 DEF NewTree
  <2>2. [table |-> None, field |-> token.at, nickName |-> token.at] \in Col
    BY <1>1
  <2>3. e.next = "name"
    BY <1>5 DEF GetColListEdges, Edge
  <2> HIDE DEF Col
  <2> QED  BY <1>2, <1>3, <1>5, <2>1, <2>2, <2>3 DEF NewCond
<1>6. CASE e.role = "ofTable"
  <2>1. at = "dot" /\ e.next = "qualified"
    BY <1>6 DEF GetColListEdges, Edge
  <2>2. Front(tree.cols) \in Seq(Col) /\ Last(tree.cols) \in Col
    BY <1>4, <2>1 DEF Partial
  <2>3. NewTree(e.role, token) =
          [tree EXCEPT !.cols = Append(Front(tree.cols),
             [table |-> Last(tree.cols).field, field |-> token.at, nickName |-> token.at])]
    BY <1>6 DEF NewTree, SetLast
  <2>4. [table |-> Last(tree.cols).field, field |-> token.at, nickName |-> token.at] \in Col
    BY <1>1, <2>2
  <2> HIDE DEF Col
  <2> QED  BY <1>3, <1>6, <2>1, <2>2, <2>3, <2>4 DEF NewCond
<1>7. CASE e.role = "nickName"
  <2>1. at \in {"name", "qualified", "as"} /\ e.next = "nicknamed"
    BY <1>7 DEF GetColListEdges, Edge
  <2>2. Front(tree.cols) \in Seq(Col) /\ Last(tree.cols) \in Col
    BY <1>4, <2>1 DEF Partial
  <2>3. NewTree(e.role, token) =
          [tree EXCEPT !.cols = Append(Front(tree.cols), [Last(tree.cols) EXCEPT !.nickName = token.at])]
    BY <1>7 DEF NewTree, SetLast
  <2>4. [Last(tree.cols) EXCEPT !.nickName = token.at] \in Col
    BY <1>1, <2>2
  <2> HIDE DEF Col
  <2> QED  BY <1>3, <1>7, <2>1, <2>2, <2>3, <2>4 DEF NewCond
<1>8. CASE e.role = "none"
  <2>1. NewTree(e.role, token) = tree /\ NewCond(e.role, token) = cond
    BY <1>8 DEF NewTree, NewCond
  <2>2. \/ e.next \in {"star", "leave", "more"}
        \/ e.next = "dot" /\ at = "name"
        \/ e.next = "as" /\ at \in {"name", "qualified"}
    BY <1>8 DEF GetColListEdges, Edge
  <2> QED  BY <2>1, <2>2 DEF Partial
<1>9. e.role \in {"column", "ofTable", "nickName", "none"}
  BY DEF GetColListEdges, Edge
<1> QED  BY <1>5, <1>6, <1>7, <1>8, <1>9

(* The same for the table list: tables are added, columns stay. *)
LEMMA TablesBuild ==
  ASSUME tree \in Trees, NEW e \in GetTableListEdges, NEW token \in Tokens
  PROVE  /\ NewCond(e.role, token) = cond
         /\ NewTree(e.role, token) \in Trees
         /\ NewTree(e.role, token).words = tree.words
         /\ e.next \notin {"leftId", "leftDot", "op", "right", "rightId", "rightDot"}
<1>1. token.at \in Spelled
  BY DEF Tokens
<1>2. e.role \in {"table", "none"} /\ e.next \in {"name", "more", "leave"}
  BY DEF GetTableListEdges, Edge
<1>3. CASE e.role = "table"
  <2>1. NewTree(e.role, token) = [tree EXCEPT !.tables = Append(@, token.at)]
    BY <1>3 DEF NewTree
  <2>2. Append(tree.tables, token.at) \in Seq(Spelled)
    BY <1>1 DEF Trees
  <2>3. NewTree(e.role, token) \in Trees /\ NewTree(e.role, token).words = tree.words
    BY <2>1, <2>2 DEF Trees
  <2> QED  BY <1>2, <1>3, <2>3 DEF NewCond
<1>4. CASE e.role = "none"
  BY <1>2, <1>4 DEF NewCond, NewTree
<1> QED  BY <1>2, <1>3, <1>4

(* The same for ORDER BY: only the order columns grow. *)
LEMMA OrderBuilds ==
  ASSUME tree \in Trees, NEW e \in GetOrderByEdges, NEW token \in Tokens
  PROVE  /\ NewCond(e.role, token) = cond
         /\ NewTree(e.role, token) \in Trees
         /\ NewTree(e.role, token).words = tree.words
         /\ e.next \notin {"leftId", "leftDot", "op", "right", "rightId", "rightDot"}
<1> DEFINE Order == [table : Spelled, field : Spelled, asc : BOOLEAN]
<1>1. token.at \in Spelled /\ tree.orderBy \in Order
  BY DEF Tokens, Trees
<1>2. /\ e.role \in {"none", "orderBy", "orderDot", "orderField", "asc"}
      /\ e.next \in {"by", "order", "dot", "qualified", "last"}
  BY DEF GetOrderByEdges, Edge
<1>3. NewCond(e.role, token) = cond
  BY <1>2 DEF NewCond
<1>4. ASSUME NEW o \in Order, NewTree(e.role, token) = [tree EXCEPT !.orderBy = o]
      PROVE  NewTree(e.role, token) \in Trees /\ NewTree(e.role, token).words = tree.words
  BY <1>4 DEF Trees
<1>5. CASE e.role = "none"
  BY <1>2, <1>3, <1>5 DEF NewTree
<1>6. CASE e.role = "orderBy" \/ e.role = "orderField"
  <2>1. NewTree(e.role, token) = [tree EXCEPT !.orderBy = [tree.orderBy EXCEPT !.field = token.at]]
    BY <1>6 DEF NewTree
  <2>2. [tree.orderBy EXCEPT !.field = token.at] \in Order
    BY <1>1
  <2> QED  BY <1>2, <1>3, <1>4, <2>1, <2>2
<1>7. CASE e.role = "orderDot"
  <2>1. NewTree(e.role, token) =
          [tree EXCEPT !.orderBy = [tree.orderBy EXCEPT !.table = tree.orderBy.field]]
    BY <1>7 DEF NewTree
  <2>2. [tree.orderBy EXCEPT !.table = tree.orderBy.field] \in Order
    BY <1>1
  <2> QED  BY <1>2, <1>3, <1>4, <2>1, <2>2
<1>8. CASE e.role = "asc"
  <2>1. NewTree(e.role, token) =
          [tree EXCEPT !.orderBy = [tree.orderBy EXCEPT !.asc = (token.type = "TK_ASC")]]
    BY <1>8 DEF NewTree
  <2>2. [tree.orderBy EXCEPT !.asc = (token.type = "TK_ASC")] \in Order
    BY <1>1
  <2> QED  BY <1>2, <1>3, <1>4, <2>1, <2>2
<1> QED  BY <1>2, <1>5, <1>6, <1>7, <1>8

-----------------------------------------------------------------------------
(* A part of a statement is read, if each of its edges builds what it may. *)
Builds(edges, token) ==
  \A e \in edges :
    at \in e.at /\ token.type \in e.types =>
      /\ NewCond(e.role, token) \in Half
      /\ NewTree(e.role, token) \in Trees
      /\ NewTree(e.role, token).words = tree.words
      /\ e.next \in {"leftId", "leftDot"} => NewCond(e.role, token).leftValue = None
      /\ e.next \in {"leftId", "leftDot", "op", "right"}
           => NewCond(e.role, token).rightField = None
      /\ e.next \in {"leftId", "leftDot", "op", "right", "rightId", "rightDot"}
           => NewCond(e.role, token).rightValue = None
      /\ e.next \in {"name", "dot", "qualified", "as"} /\ Slot = {"GetColList"}
           => NewTree(e.role, token).cols # <<>>

(* A reader of one part keeps a tree built as its tokens say. *)
LEMMA ReadPartBuilt ==
  ASSUME IInv, Built, NEW reader \in DOMAIN Lenient, NEW edges, NEW names \in SUBSET Spelled,
         \A e \in edges : e.types \subseteq TokenTypes,
         \A token \in Tokens : token \in Typed(Behind(edges), names) \cup {End} => Builds(edges, token),
         ReadPart(reader, edges, names)
  PROVE  Built'
<1>1. /\ pc = "parsing" /\ slot <= Len(Slots[Statement]) /\ Place /\ IsText
      /\ Slot = {reader} /\ Past
  BY ReaderBehindTable DEF ReadPart, Reading, IInv
<1>2. text \in Seq(Tokens) /\ tree \in Trees /\ cond \in Half /\ pos \in Nat \ {0}
  BY <1>1 DEF Built, WellTyped, Ahead
<1>3. Behind(edges) \ (Name \cup Literal) \subseteq TokenTypes
  BY BehindTypes
<1>4. PICK token \in GetToken(Behind(edges), names) :
        /\ Read(token)
        /\ \/ \E e \in edges :
                /\ at \in e.at /\ token.type \in e.types
                /\ Advance(token)
                /\ cond' = NewCond(e.role, token)
                /\ tree' = NewTree(e.role, token)
                /\ IF e.next = "leave" THEN NextSlot(token) ELSE Stay(e.next)
           \/ Advance(token) /\ NextSlot(token) /\ UNCHANGED <<cond, tree>>
           \/ Fail
  BY DEF ReadPart
<1>5. token \in Tokens /\ text' \in Seq(Tokens)
  BY <1>2, <1>3, <1>4, TokensRead
<1>6. CASE Fail
  BY <1>1, <1>4, <1>5, <1>6, FailBuilt
<1>7. CASE Advance(token) /\ NextSlot(token) /\ UNCHANGED <<cond, tree>>
  <2>1. /\ UNCHANGED <<fn, calls, pc>> /\ slot' = After(Statement, slot, token.type)
        /\ at' = "start"
    BY <1>7 DEF NextSlot
  <2>2. Partial'
    BY <2>1 DEF Partial
  <2>3. TableFirst(Statement, TableRead, tree.words)'
    BY <1>1, <1>7, <2>1, ReaderKeepsTable
  <2> QED  BY <1>1, <1>2, <1>4, <1>5, <1>7, <2>1, <2>2, <2>3, GoesOn
<1>8. CASE \E e \in edges :
             /\ at \in e.at /\ token.type \in e.types
             /\ Advance(token)
             /\ cond' = NewCond(e.role, token)
             /\ tree' = NewTree(e.role, token)
             /\ IF e.next = "leave" THEN NextSlot(token) ELSE Stay(e.next)
  <2>1. PICK e \in edges :
          /\ at \in e.at /\ token.type \in e.types
          /\ Advance(token)
          /\ cond' = NewCond(e.role, token)
          /\ tree' = NewTree(e.role, token)
          /\ IF e.next = "leave" THEN NextSlot(token) ELSE Stay(e.next)
    BY <1>8
  <2>2. token \in Typed(Behind(edges), names) \cup {End}
    BY <1>1, ReadsAhead DEF Built
  <2>3. Builds(edges, token)
    BY <1>5, <2>2
  <2>4. cond' \in Half /\ tree' \in Trees /\ tree'.words = tree.words
    BY <2>1, <2>3 DEF Builds
  <2>5. /\ UNCHANGED <<fn, calls, pc>> /\ slot' \in {slot, After(Statement, slot, token.type)}
        /\ at' = "start" \/ (at' = e.next /\ UNCHANGED slot)
    BY <2>1 DEF Stay, NextSlot
  <2>6. Partial'
    <3>1. CASE at' = "start"
      BY <3>1 DEF Partial
    <3>2. CASE at' = e.next /\ UNCHANGED slot
      <4>1. Slot' = Slot
        BY <2>5, <3>2 DEF Slot, Statement
      <4> QED  BY <2>1, <2>3, <3>2, <4>1 DEF Partial, Builds
    <3> QED  BY <2>5, <3>1, <3>2
  <2>7. TableFirst(Statement, TableRead, tree.words)'
    BY <1>1, <2>4, <2>5, ReaderKeepsTable
  <2> QED  BY <1>1, <1>4, <1>5, <2>1, <2>4, <2>5, <2>6, <2>7, GoesOn
<1> QED  BY <1>4, <1>6, <1>7, <1>8

(* The condition and the columns stand still where no edge builds them.    *)
LEMMA ReadersBuilt ==
  ASSUME IInv, Built, GetColList \/ GetTableList \/ GetExpr \/ GetOrderBy
  PROVE  Built'
<1>1. {"GetColList", "GetTableList", "GetExpr", "GetOrderBy"} \subseteq DOMAIN Lenient
  BY DEF Lenient
<1>2. cond \in Half /\ tree \in Trees /\ Partial
  BY DEF Built, WellTyped
<1>3. ColumnNames \in SUBSET Spelled /\ Tables \in SUBSET Spelled
  BY DEF ColumnNames, Spelled
<1>4. CASE GetColList
  <2>1. Slot = {"GetColList"}
    BY <1>4 DEF GetColList, ReadPart
  <2>2. ASSUME NEW token \in Tokens  PROVE Builds(GetColListEdges, token)
    BY <1>2, <2>1, ColumnsBuild DEF Builds
  <2> QED  BY <1>1, <1>3, <1>4, <2>2, EdgeTypes, ReadPartBuilt DEF GetColList
<1>5. CASE GetTableList
  <2>1. Slot = {"GetTableList"}
    BY <1>5 DEF GetTableList, ReadPart
  <2>2. Slot # {"GetColList"}
    BY <2>1
  <2>3. ASSUME NEW token \in Tokens  PROVE Builds(GetTableListEdges, token)
    BY <1>2, <2>2, TablesBuild DEF Builds
  <2> QED  BY <1>1, <1>3, <1>5, <2>3, EdgeTypes, ReadPartBuilt DEF GetTableList
<1>6. CASE GetOrderBy
  <2>1. Slot = {"GetOrderBy"}
    BY <1>6 DEF GetOrderBy, ReadPart
  <2>2. Slot # {"GetColList"}
    BY <2>1
  <2>3. ASSUME NEW token \in Tokens  PROVE Builds(GetOrderByEdges, token)
    BY <1>2, <2>2, OrderBuilds DEF Builds
  <2> QED  BY <1>1, <1>3, <1>6, <2>3, EdgeTypes, ReadPartBuilt DEF GetOrderBy
<1>7. CASE GetExpr
  <2>1. Behind(GetExprEdges) \ (Name \cup Literal) \subseteq TokenTypes
    BY EdgeTypes, BehindTypes
  <2>2. ASSUME NEW token \in Tokens,
               token \in Typed(Behind(GetExprEdges), ColumnNames) \cup {End}
        PROVE  Builds(GetExprEdges, token)
    <3>1. at \in {"start", "left", "right"} /\ token.type \in Literal => token.at \in Values
      BY <1>3, <2>1, <2>2, NumbersTyped, TypedTokens
    <3> QED  BY <1>2, <3>1, ExprBuilds DEF Builds
  <2> QED  BY <1>1, <1>3, <1>7, <2>2, EdgeTypes, ReadPartBuilt DEF GetExpr
<1> QED  BY <1>4, <1>5, <1>6, <1>7

(* The manager is handed what was built. *)
LEMMA CallManagerBuilt ==
  ASSUME IInv, Built, CallManager
  PROVE  Built'
<1> DEFINE call == [statement |-> Statement, tree |-> tree]
<1>1. /\ pc = "parsing" /\ Place /\ UNCHANGED text /\ calls' = Append(calls, call)
      /\ slot > Len(Slots[Statement])
  BY DEF CallManager, IInv
<1>2. Statement \in Names /\ slot > 2 /\ Past
  <2>1. Statement \in Names /\ Len(Slots[Statement]) > 2
    BY <1>1, StatementNamed
  <2>2. Len(Slots[Statement]) \in 1..9
    BY <2>1 DEF Names, Slots, ParseCreateTable, ParseCreateIndex, ParseCreateDatabase,
       ParseDropIndex, ParseDropDataBase, ParseDropTable, ParseUseDatabase, ParseShow,
       ParseUpdate, ParseDelete, ParseSelect, ParseInsert
  <2>3. slot > 2
    BY <1>1, <2>1, <2>2 DEF Place
  <2> QED  BY <2>1, <2>3 DEF Past
<1>3. /\ text \in Seq(Tokens) /\ tree \in Trees /\ cond \in Half
      /\ calls \in Seq([statement : Names, tree : Trees])
      /\ slot \in 1..(Len(Slots[Statement]) + 1)
  BY DEF Built, WellTyped
<1>4. calls' \in Seq([statement : Names, tree : Trees])
  <2>1. call \in [statement : Names, tree : Trees]
    BY <1>2, <1>3
  <2> QED  BY <1>1, <1>3, <2>1
<1>5. Statement \in {"ParseUpdate", "ParseDelete"} => tree.words # <<>> /\ tree.words[1].at \in Tables
  <2>1. Statement \in {"ParseUpdate", "ParseDelete"} => TableRead
    <3>1. CASE Statement = "ParseUpdate"
      BY <1>2, <3>1 DEF TableRead
    <3>2. CASE Statement = "ParseDelete"
      <4>1. Len(Slots[Statement]) = 5
        BY <3>2 DEF Slots, ParseDelete
      <4>2. slot > 3
        BY <1>1, <1>3, <4>1
      <4> QED  BY <3>2, <4>2 DEF TableRead
    <3> QED  BY <3>1, <3>2
  <2> QED  BY <2>1 DEF Built, TableFirst
<1>6. Handed'
  <2> SUFFICES ASSUME NEW n \in DOMAIN calls',
                      calls'[n].statement \in {"ParseUpdate", "ParseDelete"}
               PROVE  calls'[n].tree.words # <<>> /\ calls'[n].tree.words[1].at \in Tables
    BY DEF Handed
  <2>1. DOMAIN calls = 1..Len(calls) /\ Len(calls) \in Nat /\ DOMAIN calls' = 1..(Len(calls) + 1)
    BY <1>1, <1>3
  <2>2. CASE n = Len(calls) + 1
    <3>1. calls'[n] = call
      BY <1>1, <1>3, <2>2
    <3> QED  BY <1>5, <3>1
  <2>3. CASE n # Len(calls) + 1
    <3>1. n \in DOMAIN calls
      BY <2>1, <2>3
    <3>2. calls'[n] = calls[n]
      BY <1>1, <1>3, <2>1, <3>1
    <3> QED  BY <3>1, <3>2 DEF Built, Handed
  <2> QED  BY <2>2, <2>3
<1>7. CASE pc' = "answered" /\ UNCHANGED <<pos, fn, slot, at, cond, tree>>
  <2>1. WellTyped' /\ Ahead'
    BY <1>1, <1>3, <1>4, <1>7 DEF WellTyped, Ahead, Statement
  <2>2. Partial' /\ TableFirst(Statement, TableRead, tree.words)'
    BY <1>7 DEF Built, Partial, TableFirst, TableRead, Statement, Slot
  <2> QED  BY <1>6, <2>1, <2>2 DEF Built
<1>8. CASE NextFunction
  <2>1. Ahead'
    BY <1>1, <1>2, <1>8, NextAhead DEF Built
  <2>2. WellTyped'
    BY <1>1, <1>3, <1>4, <1>8, NextStarts DEF WellTyped
  <2> QED  BY <1>6, <1>8, <2>1, <2>2, NextStarts DEF Built
<1> QED  BY <1>7, <1>8 DEF CallManager

(* Nothing is built before the first step. *)
LEMMA InitBuilt == Init => Built
<1> SUFFICES ASSUME Init  PROVE Built
  OBVIOUS
<1>1. /\ text = <<>> /\ pos = 1 /\ fn = 1 /\ slot = 1 /\ at = "start"
      /\ cond = NoCondition /\ tree = Nothing /\ calls = <<>>
  BY DEF Init
<1>2. Statement \in Names
  BY <1>1, FunctionTable DEF Statement
<1>3. Len(Slots[Statement]) \in 1..9
  BY <1>2 DEF Names, Slots, ParseCreateTable, ParseCreateIndex, ParseCreateDatabase,
     ParseDropIndex, ParseDropDataBase, ParseDropTable, ParseUseDatabase, ParseShow,
     ParseUpdate, ParseDelete, ParseSelect, ParseInsert
<1>4. WellTyped
  BY <1>1, <1>3, StartTyped DEF WellTyped, Whole
<1>5. Ahead
  BY <1>1 DEF Ahead, Past
<1>6. Partial /\ TableFirst(Statement, TableRead, tree.words)
  BY <1>1, StartTyped DEF Partial, TableFirst, TableRead
<1>7. Handed
  BY <1>1 DEF Handed
<1> QED  BY <1>4, <1>5, <1>6, <1>7 DEF Built

(* Every step of the parser, and a step of somebody else. *)
LEMMA NextBuilt == IInv /\ Built /\ [Next]_vars => Built'
<1> SUFFICES ASSUME IInv, Built, [Next]_vars  PROVE Built'
  OBVIOUS
<1>1. CASE ReadToken
  BY <1>1, ReadTokenBuilt
<1>2. CASE ParseAttrTypeList \/ ParseAttrList \/ ParseValueList
  <2>1. {"ParseAttrTypeList", "ParseAttrList", "ParseValueList"} \subseteq DOMAIN Item
    BY DEF Item
  <2>2. CASE ParseAttrTypeList
    BY <2>1, <2>2, ReadListBuilt DEF ParseAttrTypeList
  <2>3. CASE ParseAttrList
    BY <2>1, <2>3, ReadListBuilt DEF ParseAttrList
  <2>4. CASE ParseValueList
    BY <2>1, <2>4, ReadListBuilt DEF ParseValueList
  <2> QED  BY <1>2, <2>2, <2>3, <2>4
<1>3. CASE GetColList \/ GetTableList \/ GetExpr \/ GetOrderBy
  BY <1>3, ReadersBuilt
<1>4. CASE CallManager
  BY <1>4, CallManagerBuilt
<1>5. CASE UNCHANGED vars
  <2>1. WellTyped' /\ Partial' /\ Handed'
    BY <1>5 DEF Built, WellTyped, Partial, Handed, vars, Statement, Slot
  <2>2. TableFirst(Statement, TableRead, tree.words)'
    BY <1>5 DEF Built, TableFirst, TableRead, vars, Statement
  <2>3. Ahead'
    BY <1>5 DEF Built, Ahead, Past, Opened, Begins, BeginsIn, vars, Statement
  <2> QED  BY <2>1, <2>2, <2>3 DEF Built
<1> QED  BY <1>1, <1>2, <1>3, <1>4, <1>5 DEF Next

(* Whatever is typed, the functions of the parser build conditions with    *)
(* one operand on each side, lists of the words they are for, and call     *)
(* manager_update and manager_delete with the name of a table.             *)
THEOREM InvarianceBuilt == Spec => []Built
<1>1. Init => IInv /\ Built
  BY InitIInv, InitBuilt
<1>2. IInv /\ Built /\ [Next]_vars => (IInv /\ Built)'
  BY NextIInv, NextBuilt
<1> QED  BY <1>1, <1>2, PTL DEF Spec

-----------------------------------------------------------------------------
(***************************************************************************)
(* Sequences one behind the other, and the combinations of some tables'    *)
(* rows: each place and each combination is in the result once.            *)
(***************************************************************************)

(* What the recursive function of FlattenSeq has after each sequence. *)
Flattens(found, seqs) ==
  /\ FlattenSeq(seqs) = found[Len(seqs)]
  /\ found[0] = <<>>
  /\ \A n \in 1..Len(seqs) : found[n] = found[n - 1] \o seqs[n]

(* The recursive function of FlattenSeq is what its equation says. *)
LEMMA FlattenEquation ==
  ASSUME NEW S, NEW seqs \in Seq(Seq(S))
  PROVE  \E found : Flattens(found, seqs)
<1> DEFINE N == Len(seqs)
           V == Seq(S)
           Sol(g) == g = [i \in 1..N |-> IF i = 1 THEN seqs[i] ELSE g[i - 1] \o seqs[i]]
           step == [a \in (1..N) \X V |-> a[2] \o seqs[a[1]]]
<1>1. N \in Nat /\ <<>> \in V /\ \A n \in 1..N : seqs[n] \in V
  OBVIOUS
<1>2. \A x, y \in V : x \o y \in V
  OBVIOUS
<1>3. \A y \in V : <<>> \o y = y
  BY ConcatEmptySeq
<1>4. CASE N = 0
  <2> DEFINE h == [n \in 0..0 |-> <<>>]
  <2>1. seqs = <<>> /\ FlattenSeq(seqs) = seqs
    BY <1>4 DEF FlattenSeq
  <2>2. h[0] = <<>> /\ \A n \in 1..0 : FALSE
    OBVIOUS
  <2> HIDE DEF h
  <2>3. Flattens(h, seqs)
    BY <1>4, <2>1, <2>2 DEF Flattens
  <2> QED  BY <2>3
<1>5. CASE N # 0
  <2> HIDE DEF N, V
  <2>1. \A n \in 1..N, x \in V : step[<<n, x>>] = x \o seqs[n]
    OBVIOUS
  <2>2. step \in Steps(N, V)
    BY <1>1, <1>2 DEF Steps
  <2> HIDE DEF step
  <2>3. PICK f \in [0..N -> V] : Rounds(f, N, <<>>, step)
    BY <1>1, <2>2, Recursion
  <2>4. f[0] = <<>> /\ \A n \in 1..N : f[n] = f[n - 1] \o seqs[n]
    <3>1. \A n \in 1..N : n - 1 \in 0..N /\ f[n - 1] \in V
      BY <1>1
    <3>2. f[0] = <<>> /\ \A n \in 1..N : f[n] = step[<<n, f[n - 1]>>]
      BY <2>3 DEF Rounds
    <3> QED  BY <2>1, <3>1, <3>2
  <2> DEFINE g == [n \in 1..N |-> f[n]]
             found == CHOOSE h : Sol(h)
  <2>5. Sol(g)
    <3>1. ASSUME NEW i \in 1..N
          PROVE  g[i] = IF i = 1 THEN seqs[i] ELSE g[i - 1] \o seqs[i]
      <4>1. CASE i = 1
        <5>1. f[i] = f[0] \o seqs[i] /\ f[0] = <<>>
          <6>1. f[i] = f[i - 1] \o seqs[i] /\ f[0] = <<>>
            BY <2>4
          <6>2. i - 1 = 0
            BY <4>1
          <6>3. f[i - 1] = f[0]
            BY <6>2
          <6> QED  BY <6>1, <6>3
        <5>2. f[i] = seqs[i]
          BY <1>1, <1>3, <5>1
        <5> QED  BY <4>1, <5>2
      <4>2. CASE i # 1
        <5>1. i - 1 \in 1..N
          BY <1>1, <4>2
        <5> QED  BY <2>4, <4>2, <5>1
      <4> QED  BY <4>1, <4>2
    <3>2. g = [i \in 1..N |-> g[i]]
      OBVIOUS
    <3> HIDE DEF g
    <3> QED  BY <3>1, <3>2
  <2>6. Sol(found)
    <3> HIDE DEF Sol, g
    <3> QED  BY <2>5
  <2>7. FlattenSeq(seqs) = found[N]
    BY <1>5 DEF FlattenSeq, N
  <2> HIDE DEF found
  <2> DEFINE h == [n \in 0..N |-> IF n = 0 THEN <<>> ELSE found[n]]
  <2>8. h[0] = <<>> /\ h[N] = found[N] /\ \A n \in 1..N : h[n] = found[n]
    BY <1>1, <1>5
  <2>9. ASSUME NEW n \in 1..N  PROVE h[n] = h[n - 1] \o seqs[n]
    <3>1. found = [i \in 1..N |-> IF i = 1 THEN seqs[i] ELSE found[i - 1] \o seqs[i]]
      BY <2>6
    <3> HIDE DEF h
    <3>2. CASE n = 1
      <4>1. found[n] = seqs[n]
        BY <3>1, <3>2
      <4>2. n - 1 = 0
        BY <3>2
      <4>3. h[n - 1] = <<>>
        BY <2>8, <4>2
      <4> QED  BY <1>1, <1>3, <2>8, <4>1, <4>3
    <3>3. CASE n # 1
      <4>1. found[n] = found[n - 1] \o seqs[n]
        BY <3>1, <3>3
      <4>2. n - 1 \in 1..N
        BY <1>1, <3>3
      <4> QED  BY <2>8, <4>1, <4>2
    <3> QED  BY <3>2, <3>3
  <2> HIDE DEF h
  <2>10. Flattens(h, seqs)
    BY <2>7, <2>8, <2>9 DEF Flattens, N
  <2> QED  BY <2>10
<1> QED  BY <1>4, <1>5

(* Sequences one behind the other are a sequence of what they consist of.  *)
LEMMA FlattenTyped ==
  ASSUME NEW S, NEW seqs \in Seq(Seq(S))
  PROVE  FlattenSeq(seqs) \in Seq(S)
<1>1. Len(seqs) \in Nat /\ <<>> \in Seq(S) /\ \A n \in 1..Len(seqs) : seqs[n] \in Seq(S)
  OBVIOUS
<1>2. PICK found : Flattens(found, seqs)
  BY FlattenEquation
<1>3. found[0] \in Seq(S) /\ \A n \in 1..Len(seqs) : found[n - 1] \in Seq(S) => found[n] \in Seq(S)
  <2>1. \A x, y \in Seq(S) : x \o y \in Seq(S)
    OBVIOUS
  <2> QED  BY <1>1, <1>2, <2>1 DEF Flattens
<1>4. found[Len(seqs)] \in Seq(S)
  BY <1>1, <1>3, LoopInvariant
<1> QED  BY <1>2, <1>4 DEF Flattens

(* The places in the first n of some sequences. *)
Inner(seqs, n) == {a \in (1..n) \X Nat : a[2] \in 1..Len(seqs[a[1]])}

(* flat is what stands in the sequences at the places of p. *)
PicksInner(p, flat, seqs) == \A i \in 1..Len(flat) : flat[i] = seqs[p[i][1]][p[i][2]]

(* And each of their places is in it once. *)
LEMMA FlattenPlaces ==
  ASSUME NEW S, NEW seqs \in Seq(Seq(S))
  PROVE  \E p : /\ Enumerates(p, Len(FlattenSeq(seqs)), Inner(seqs, Len(seqs)))
                /\ PicksInner(p, FlattenSeq(seqs), seqs)
<1>1. Len(seqs) \in Nat /\ \A n \in 1..Len(seqs) : seqs[n] \in Seq(S)
  OBVIOUS
<1>2. PICK found : Flattens(found, seqs)
  BY FlattenEquation
<1> DEFINE At(p, n) == Enumerates(p, Len(found[n]), Inner(seqs, n)) /\ PicksInner(p, found[n], seqs)
           Good(n) == found[n] \in Seq(S) /\ \E p : At(p, n)
           T == {n \in Nat : n <= Len(seqs) => Good(n)}
<1>3. 0 \in T
  <2> DEFINE none == [i \in 1..0 |-> i]
  <2>1. found[0] \in Seq(S) /\ Len(found[0]) = 0
    BY <1>2 DEF Flattens
  <2>2. (\A i \in 1..0 : FALSE) /\ Inner(seqs, 0) = {}
    <3>1. 1..0 = {}
      OBVIOUS
    <3> QED  BY <3>1 DEF Inner
  <2>3. none \in [1..0 -> Inner(seqs, 0)]
    BY <2>2
  <2> HIDE DEF none
  <2>4. Enumerates(none, 0, Inner(seqs, 0))
    BY <2>2, <2>3 DEF Enumerates
  <2>5. At(none, 0)
    BY <2>1, <2>2, <2>4 DEF PicksInner
  <2> HIDE DEF At
  <2> QED  BY <2>1, <2>5
<1>4. ASSUME NEW n \in T  PROVE n + 1 \in T
  <2> SUFFICES ASSUME n + 1 <= Len(seqs)  PROVE Good(n + 1)
    <3> HIDE DEF Good
    <3> QED  OBVIOUS
  <2>1. n \in Nat /\ n + 1 \in 1..Len(seqs) /\ Good(n) /\ (n + 1) - 1 = n
    <3> HIDE DEF Good
    <3> QED  BY <1>1
  <2> DEFINE old == found[n]
             new == seqs[n + 1]
             B == {n + 1} \X (1..Len(new))
             q == [j \in 1..Len(new) |-> <<n + 1, j>>]
  <2>2. found[n + 1] = old \o new
    BY <1>2, <2>1 DEF Flattens
  <2>3. old \in Seq(S) /\ new \in Seq(S)
    BY <1>1, <2>1
  <2>4. PICK p : At(p, n)
    BY <2>1
  <2>5. Enumerates(p, Len(old), Inner(seqs, n)) /\ PicksInner(p, old, seqs)
    BY <2>4
  <2>6. Inner(seqs, n + 1) = Inner(seqs, n) \cup B
    <3>1. 1..(n + 1) = 1..n \cup {n + 1}
      BY <2>1
    <3>2. \A j \in 1..Len(new) : j \in Nat
      OBVIOUS
    <3> QED  BY <3>1, <3>2 DEF Inner
  <2>7. Inner(seqs, n) \cap B = {}
    <3>1. n + 1 \notin 1..n
      BY <2>1
    <3>2. \A a \in Inner(seqs, n) : a[1] \in 1..n
      BY DEF Inner
    <3>3. \A a \in B : a[1] = n + 1
      OBVIOUS
    <3> QED  BY <3>1, <3>2, <3>3
  <2>8. Enumerates(q, Len(new), B)
    BY DEF Enumerates
  <2>9. \A j \in 1..Len(new) : q[j] = <<n + 1, j>>
    OBVIOUS
  <2> HIDE DEF old, new, B, q
  <2>10. /\ old \o new \in Seq(S) /\ Len(old \o new) = Len(old) + Len(new)
         /\ Len(old) \in Nat /\ Len(new) \in Nat
         /\ \A i \in 1..Len(old) : (old \o new)[i] = old[i]
         /\ \A j \in 1..Len(new) : (old \o new)[Len(old) + j] = new[j]
    <3>1. \A j \in 1..Len(new) : Len(old) + j \in (Len(old) + 1)..(Len(old) + Len(new))
      BY <2>3
    <3> QED  BY <2>3, <3>1
  <2>11. PICK r : Enumerates(r, Len(old) + Len(new), Inner(seqs, n) \cup B)
                  /\ Joins(r, p, Len(old), q, Len(new))
    BY <2>5, <2>7, <2>8, <2>10, EnumerationsJoined
  <2>12. ASSUME NEW i \in 1..Len(old \o new)
         PROVE  (old \o new)[i] = seqs[r[i][1]][r[i][2]]
    <3>1. CASE i \in 1..Len(old)
      BY <2>5, <2>10, <2>11, <3>1 DEF PicksInner, Joins
    <3>2. CASE i \notin 1..Len(old)
      <4>1. i - Len(old) \in 1..Len(new) /\ i = Len(old) + (i - Len(old))
        BY <2>10, <3>2
      <4>2. PICK j \in 1..Len(new) : i = Len(old) + j
        BY <4>1
      <4>3. r[i] = <<n + 1, j>>
        BY <2>9, <2>11, <4>2 DEF Joins
      <4>4. (old \o new)[i] = new[j]
        BY <2>10, <4>2
      <4> QED  BY <4>3, <4>4 DEF new
    <3> QED  BY <3>1, <3>2
  <2>13. At(r, n + 1)
    <3>1. Enumerates(r, Len(old \o new), Inner(seqs, n + 1))
      BY <2>6, <2>10, <2>11
    <3>2. PicksInner(r, old \o new, seqs)
      BY <2>12 DEF PicksInner
    <3> QED  BY <2>2, <3>1, <3>2
  <2> HIDE DEF At
  <2> QED  BY <2>2, <2>10, <2>13
<1>5. T = Nat
  <2> HIDE DEF T
  <2>1. T \in SUBSET Nat
    BY DEF T
  <2> QED  BY <1>3, <1>4, <2>1, SetInduction
<1>6. Good(Len(seqs))
  <2> HIDE DEF Good
  <2> QED  BY <1>1, <1>5
<1>7. PICK p : At(p, Len(seqs))
  BY <1>6
<1> QED  BY <1>2, <1>7 DEF Flattens

(* The combinations of one more table, for what there is of the others. *)
Wider(old, row) ==
  FlattenSeq([k \in DOMAIN old |-> [m \in DOMAIN row |-> Append(old[k], row[m])]])

(* What the recursive function of CartesianProduct has after each table. *)
Multiplies(product, rows) ==
  /\ CartesianProduct(rows) = product[Len(rows)]
  /\ product[0] = << <<>> >>
  /\ \A n \in 1..Len(rows) : product[n] = Wider(product[n - 1], rows[n])

(* Sequences of sequences stay such. *)
LEMMA WiderTyped ==
  ASSUME NEW S, NEW old \in Seq(Seq(S)), NEW row \in Seq(S)
  PROVE  /\ [k \in DOMAIN old |-> [m \in DOMAIN row |-> Append(old[k], row[m])]] \in Seq(Seq(Seq(S)))
         /\ Wider(old, row) \in Seq(Seq(S))
<1> DEFINE longer(k) == [m \in DOMAIN row |-> Append(old[k], row[m])]
           seqs == [k \in DOMAIN old |-> longer(k)]
           V == Seq(S)
<1>1. /\ DOMAIN old = 1..Len(old) /\ Len(old) \in Nat
      /\ DOMAIN row = 1..Len(row) /\ Len(row) \in Nat
  OBVIOUS
<1>2. \A k \in DOMAIN old, m \in DOMAIN row : Append(old[k], row[m]) \in V
  BY <1>1
<1> HIDE DEF V
<1>3. \A k \in DOMAIN old : longer(k) \in Seq(V)
  BY <1>1, <1>2
<1> HIDE DEF longer
<1>4. seqs \in Seq(Seq(V))
  BY <1>1, <1>3
<1> HIDE DEF seqs
<1>5. FlattenSeq(seqs) \in Seq(V)
  BY <1>4, FlattenTyped
<1> QED  BY <1>4, <1>5 DEF V, Wider, seqs, longer

(* The recursive function of CartesianProduct is what its equation says. *)
LEMMA ProductEquation ==
  ASSUME NEW S, NEW rows \in Seq(Seq(S))
  PROVE  \E product : Multiplies(product, rows)
<1> DEFINE N == Len(rows)
           V == Seq(Seq(S))
           one == << <<>> >>
           Sol(g) == g = [n \in 0..N |-> IF n = 0 THEN one ELSE Wider(g[n - 1], rows[n])]
           step == [a \in (1..N) \X V |-> Wider(a[2], rows[a[1]])]
<1>1. N \in Nat /\ one \in V /\ \A n \in 1..N : rows[n] \in Seq(S)
  OBVIOUS
<1>2. \A n \in 1..N, x \in V : Wider(x, rows[n]) \in V
  BY <1>1, WiderTyped
<1> HIDE DEF N, V, one
<1>3. \A n \in 1..N, x \in V : step[<<n, x>>] = Wider(x, rows[n])
  OBVIOUS
<1>4. step \in Steps(N, V)
  BY <1>2 DEF Steps
<1> HIDE DEF step
<1>5. PICK f \in [0..N -> V] : Rounds(f, N, one, step)
  BY <1>1, <1>4, Recursion
<1>6. f[0] = one /\ \A n \in 1..N : f[n] = Wider(f[n - 1], rows[n])
  <2>1. \A n \in 1..N : n - 1 \in 0..N /\ f[n - 1] \in V
    BY <1>1
  <2>2. f[0] = one /\ \A n \in 1..N : f[n] = step[<<n, f[n - 1]>>]
    BY <1>5 DEF Rounds
  <2> QED  BY <1>3, <2>1, <2>2
<1>7. Sol(f)
  BY <1>1, <1>6
<1> DEFINE product == CHOOSE g : Sol(g)
<1>8. Sol(product)
  <2> HIDE DEF Sol
  <2> QED  BY <1>7
<1>9. CartesianProduct(rows) = product[N]
  BY DEF CartesianProduct, N, Wider, one
<1> HIDE DEF product
<1>10. product[0] = one /\ \A n \in 1..N : product[n] = Wider(product[n - 1], rows[n])
  BY <1>1, <1>8
<1>11. Multiplies(product, rows)
  BY <1>9, <1>10 DEF Multiplies, N, one
<1> QED  BY <1>11

(* One row of each of the first n tables, as its place. *)
Combinations(rows, n) == {c \in [1..n -> Nat] : \A i \in 1..n : c[i] \in 1..Len(rows[i])}

(* Each combination consists of the rows at the places of its choice. *)
Combines(p, joined, rows, n) ==
  \A k \in 1..Len(joined) : \A i \in 1..n : joined[k][i] = rows[i][p[k][i]]

(* Each choice of one row per table is in the product once, for any number *)
(* of tables.                                                              *)
LEMMA ProductPlaces ==
  ASSUME NEW S, NEW rows \in Seq(Seq(S))
  PROVE  \E p : /\ Enumerates(p, Len(CartesianProduct(rows)), Combinations(rows, Len(rows)))
                /\ Combines(p, CartesianProduct(rows), rows, Len(rows))
<1>1. Len(rows) \in Nat /\ \A n \in 1..Len(rows) : rows[n] \in Seq(S)
  OBVIOUS
<1>2. PICK product : Multiplies(product, rows)
  BY ProductEquation
<1> DEFINE Full(n) == \A k \in 1..Len(product[n]) : Len(product[n][k]) = n
           At(p, n) == /\ Enumerates(p, Len(product[n]), Combinations(rows, n))
                       /\ Combines(p, product[n], rows, n)
           Good(n) == product[n] \in Seq(Seq(S)) /\ Full(n) /\ \E p : At(p, n)
           T == {n \in Nat : n <= Len(rows) => Good(n)}
<1>3. 0 \in T
  <2> DEFINE empty == [i \in 1..0 |-> i]
             p == [k \in 1..1 |-> empty]
  <2>1. product[0] = << <<>> >>
    BY <1>2 DEF Multiplies
  <2>2. product[0] \in Seq(Seq(S)) /\ Len(product[0]) = 1
    BY <2>1
  <2>3. Full(0)
    BY <2>1
  <2>4. 1..0 = {}
    OBVIOUS
  <2>5. \A c \in [1..0 -> Nat] : c = empty
    BY <2>4
  <2>6. empty \in Combinations(rows, 0)
    BY <2>4 DEF Combinations
  <2>7. Combinations(rows, 0) = {empty}
    BY <2>5, <2>6 DEF Combinations
  <2> HIDE DEF empty
  <2>8. Enumerates(p, 1, Combinations(rows, 0))
    BY <2>7 DEF Enumerates
  <2> HIDE DEF p
  <2>9. At(p, 0)
    BY <2>2, <2>4, <2>8 DEF Combines
  <2> HIDE DEF At, Full
  <2> QED  BY <2>2, <2>3, <2>9
<1>4. ASSUME NEW n \in T  PROVE n + 1 \in T
  <2> SUFFICES ASSUME n + 1 <= Len(rows)  PROVE Good(n + 1)
    <3> HIDE DEF Good
    <3> QED  OBVIOUS
  <2>1. n \in Nat /\ n + 1 \in 1..Len(rows) /\ Good(n) /\ (n + 1) - 1 = n
    <3> HIDE DEF Good
    <3> QED  BY <1>1
  <2> DEFINE old == product[n]
             row == rows[n + 1]
             seqs == [k \in DOMAIN old |-> [m \in DOMAIN row |-> Append(old[k], row[m])]]
             new == FlattenSeq(seqs)
  <2>2. product[n + 1] = new
    BY <1>2, <2>1 DEF Multiplies, Wider
  <2>3. old \in Seq(Seq(S)) /\ row \in Seq(S)
    BY <1>1, <2>1
  <2>4. \A k \in 1..Len(old) : Len(old[k]) = n
    BY <2>1
  <2>5. PICK p : At(p, n)
    BY <2>1
  <2>6. Enumerates(p, Len(old), Combinations(rows, n)) /\ Combines(p, old, rows, n)
    BY <2>5
  <2> HIDE DEF old, row
  <2>7. seqs \in Seq(Seq(Seq(S))) /\ new \in Seq(Seq(S))
    BY <2>3, WiderTyped DEF Wider
  <2>8. /\ Len(old) \in Nat /\ DOMAIN old = 1..Len(old)
        /\ Len(row) \in Nat /\ DOMAIN row = 1..Len(row)
    BY <2>3
  <2>9. Len(seqs) = Len(old)
    BY <2>8
  <2>10. \A k \in 1..Len(old) : Len(seqs[k]) = Len(row)
    BY <2>8
  <2>11. ASSUME NEW k \in 1..Len(old), NEW m \in 1..Len(row)
         PROVE  /\ seqs[k][m] = Append(old[k], row[m])
                /\ Len(seqs[k][m]) = n + 1 /\ seqs[k][m][n + 1] = row[m]
                /\ \A i \in 1..n : seqs[k][m][i] = old[k][i]
    <3>1. seqs[k][m] = Append(old[k], row[m])
      BY <2>8
    <3>2. old[k] \in Seq(S) /\ row[m] \in S /\ Len(old[k]) = n
      BY <2>3, <2>4
    <3> HIDE DEF seqs
    <3>3. /\ Len(Append(old[k], row[m])) = n + 1 /\ Append(old[k], row[m])[n + 1] = row[m]
          /\ \A i \in 1..n : Append(old[k], row[m])[i] = old[k][i]
      BY <3>2, AppendProperties
    <3> QED  BY <3>1, <3>3
  <2> HIDE DEF seqs
  <2>12. PICK q : Enumerates(q, Len(new), Inner(seqs, Len(seqs))) /\ PicksInner(q, new, seqs)
    BY <2>7, FlattenPlaces
  <2>13. Inner(seqs, Len(seqs)) = (1..Len(old)) \X (1..Len(row))
    <3>1. \A m \in 1..Len(row) : m \in Nat
      BY <2>8
    <3> QED  BY <2>9, <2>10, <3>1 DEF Inner
  <2> HIDE DEF new
  <2> DEFINE choice(k, m) == [i \in 1..(n + 1) |-> IF i = n + 1 THEN m ELSE p[k][i]]
             r == [i \in 1..Len(new) |-> choice(q[i][1], q[i][2])]
  <2>14. \A i \in 1..(n + 1) : i \in 1..n \/ i = n + 1
    BY <2>1
  <2>15. \A i \in 1..n : i \in 1..(n + 1) /\ i # n + 1
    BY <2>1
  <2>16. n + 1 \in 1..(n + 1)
    BY <2>1
  <2>17. \A k \in 1..Len(old) : p[k] \in [1..n -> Nat] /\ \A i \in 1..n : p[k][i] \in 1..Len(rows[i])
    BY <2>6 DEF Enumerates, Combinations
  <2>18. ASSUME NEW k \in 1..Len(old), NEW m \in 1..Len(row)
         PROVE  /\ choice(k, m) \in Combinations(rows, n + 1)
                /\ choice(k, m)[n + 1] = m /\ \A i \in 1..n : choice(k, m)[i] = p[k][i]
    <3>1. choice(k, m)[n + 1] = m /\ \A i \in 1..n : choice(k, m)[i] = p[k][i]
      BY <2>15, <2>16
    <3>2. m \in Nat /\ m \in 1..Len(rows[n + 1])
      BY <2>8 DEF row
    <3>3. choice(k, m) \in [1..(n + 1) -> Nat]
      BY <2>14, <2>17, <3>2
    <3> HIDE DEF choice
    <3>4. \A i \in 1..(n + 1) : choice(k, m)[i] \in 1..Len(rows[i])
      BY <2>14, <2>17, <3>1, <3>2
    <3> QED  BY <3>1, <3>3, <3>4 DEF Combinations
  <2>19. \A k, l \in 1..Len(old) : p[k] = p[l] => k = l
    BY <2>6 DEF Enumerates
  <2>20. ASSUME NEW k \in 1..Len(old), NEW m \in 1..Len(row),
                NEW l \in 1..Len(old), NEW o \in 1..Len(row), choice(k, m) = choice(l, o)
         PROVE  k = l /\ m = o
    <3> HIDE DEF choice
    <3>1. choice(k, m)[n + 1] = m /\ \A i \in 1..n : choice(k, m)[i] = p[k][i]
      BY <2>18
    <3>2. choice(l, o)[n + 1] = o /\ \A i \in 1..n : choice(l, o)[i] = p[l][i]
      BY <2>18
    <3>3. m = o /\ \A i \in 1..n : p[k][i] = p[l][i]
      BY <2>20, <3>1, <3>2
    <3>4. p[k] \in [1..n -> Nat] /\ p[l] \in [1..n -> Nat]
      BY <2>17
    <3>5. p[k] = p[l]
      BY ONLY <3>3, <3>4
    <3> QED  BY <2>19, <3>3, <3>5
  <2>21. ASSUME NEW c \in Combinations(rows, n + 1)
         PROVE  \E k \in 1..Len(old), m \in 1..Len(row) : choice(k, m) = c
    <3> DEFINE d == [i \in 1..n |-> c[i]]
               m == c[n + 1]
    <3>1. c \in [1..(n + 1) -> Nat] /\ \A i \in 1..(n + 1) : c[i] \in 1..Len(rows[i])
      BY DEF Combinations
    <3>2. m \in 1..Len(row)
      BY <2>16, <3>1 DEF row
    <3>3. d \in Combinations(rows, n)
      BY <2>15, <3>1 DEF Combinations
    <3>4. PICK k \in 1..Len(old) : p[k] = d
      BY <2>6, <3>3 DEF Enumerates
    <3>5. choice(k, m) \in Combinations(rows, n + 1) /\ choice(k, m)[n + 1] = m
          /\ \A i \in 1..n : choice(k, m)[i] = p[k][i]
      <4> HIDE DEF choice, m
      <4> QED  BY <2>18, <3>2
    <3>6. \A i \in 1..n : p[k][i] = c[i]
      BY <3>4
    <3> HIDE DEF choice, d
    <3>7. choice(k, m) \in [1..(n + 1) -> Nat]
      BY <3>5 DEF Combinations
    <3>8. \A i \in 1..(n + 1) : choice(k, m)[i] = c[i]
      BY <2>14, <3>5, <3>6
    <3>9. choice(k, m) = c
      <4> HIDE DEF m
      <4> QED  BY <3>1, <3>7, <3>8
    <3> QED  BY <3>2, <3>9
  <2> HIDE DEF choice
  <2>22. \A i \in 1..Len(new) : r[i] = choice(q[i][1], q[i][2])
    OBVIOUS
  <2>23. /\ \A i \in 1..Len(new) : /\ q[i][1] \in 1..Len(old) /\ q[i][2] \in 1..Len(row)
                                   /\ q[i] = <<q[i][1], q[i][2]>>
         /\ \A i, j \in 1..Len(new) : q[i] = q[j] => i = j
         /\ \A k \in 1..Len(old), m \in 1..Len(row) : \E i \in 1..Len(new) : q[i] = <<k, m>>
    <3> DEFINE A == (1..Len(old)) \X (1..Len(row))
    <3>1. \A a \in A : a[1] \in 1..Len(old) /\ a[2] \in 1..Len(row) /\ a = <<a[1], a[2]>>
      OBVIOUS
    <3>2. \A k \in 1..Len(old), m \in 1..Len(row) : <<k, m>> \in A
      OBVIOUS
    <3>3. Enumerates(q, Len(new), A)
      BY <2>12, <2>13
    <3> HIDE DEF A
    <3>4. \A i \in 1..Len(new) : q[i] \in A
      BY <3>3 DEF Enumerates
    <3>5. \A i, j \in 1..Len(new) : q[i] = q[j] => i = j
      BY <3>3 DEF Enumerates
    <3>6. \A a \in A : \E i \in 1..Len(new) : q[i] = a
      BY <3>3 DEF Enumerates
    <3>7. \A k \in 1..Len(old), m \in 1..Len(row) : \E i \in 1..Len(new) : q[i] = <<k, m>>
      BY <3>2, <3>6
    <3> QED  BY <3>1, <3>4, <3>5, <3>7
  <2>24. r \in [1..Len(new) -> Combinations(rows, n + 1)]
    BY <2>18, <2>22, <2>23
  <2> HIDE DEF r
  <2>25. ASSUME NEW i \in 1..Len(new), NEW j \in 1..Len(new), r[i] = r[j]  PROVE i = j
    <3>1. choice(q[i][1], q[i][2]) = choice(q[j][1], q[j][2])
      BY <2>22, <2>25
    <3>2. /\ q[i][1] \in 1..Len(old) /\ q[i][2] \in 1..Len(row) /\ q[i] = <<q[i][1], q[i][2]>>
          /\ q[j][1] \in 1..Len(old) /\ q[j][2] \in 1..Len(row) /\ q[j] = <<q[j][1], q[j][2]>>
      BY <2>23
    <3>3. q[i][1] = q[j][1] /\ q[i][2] = q[j][2]
      BY <2>20, <3>1, <3>2
    <3>4. q[i] = q[j]
      BY <3>2, <3>3
    <3> QED  BY <2>23, <3>4
  <2>26. ASSUME NEW c \in Combinations(rows, n + 1)  PROVE \E i \in 1..Len(new) : r[i] = c
    <3>1. PICK k \in 1..Len(old), m \in 1..Len(row) : choice(k, m) = c
      BY <2>21
    <3>2. PICK i \in 1..Len(new) : q[i] = <<k, m>>
      BY <2>23
    <3>3. q[i][1] = k /\ q[i][2] = m
      BY <3>2
    <3> QED  BY <2>22, <3>1, <3>3
  <2>27. Enumerates(r, Len(new), Combinations(rows, n + 1))
    BY <2>24, <2>25, <2>26 DEF Enumerates
  <2>28. ASSUME NEW j \in 1..Len(new)
         PROVE  /\ Len(new[j]) = n + 1
                /\ \A i \in 1..(n + 1) : new[j][i] = rows[i][r[j][i]]
    <3>1. PICK k \in 1..Len(old), m \in 1..Len(row) : q[j] = <<k, m>>
      BY <2>23
    <3>2. q[j][1] = k /\ q[j][2] = m
      BY <3>1
    <3>3. new[j] = seqs[k][m]
      BY <2>12, <3>2 DEF PicksInner
    <3>4. r[j] = choice(k, m)
      BY <2>22, <3>2
    <3>5. new[j][n + 1] = rows[n + 1][r[j][n + 1]]
      BY <2>11, <2>18, <3>3, <3>4 DEF row
    <3>6. ASSUME NEW i \in 1..n  PROVE new[j][i] = rows[i][r[j][i]]
      <4>1. new[j][i] = old[k][i] /\ r[j][i] = p[k][i]
        <5>1. seqs[k][m][i] = old[k][i]
          BY <2>11
        <5>2. choice(k, m)[i] = p[k][i]
          BY <2>18
        <5> QED  BY <3>3, <3>4, <5>1, <5>2
      <4>2. old[k][i] = rows[i][p[k][i]]
        BY <2>6 DEF Combines
      <4> QED  BY <4>1, <4>2
    <3>7. Len(new[j]) = n + 1
      BY <2>11, <3>3
    <3> QED  BY <2>14, <3>5, <3>6, <3>7
  <2>29. Combines(r, new, rows, n + 1)
    BY <2>28 DEF Combines
  <2>30. Full(n + 1)
    BY <2>2, <2>28
  <2>31. At(r, n + 1)
    BY <2>2, <2>27, <2>29
  <2> HIDE DEF At, Full
  <2> QED  BY <2>2, <2>7, <2>30, <2>31 DEF new
<1>5. T = Nat
  <2> HIDE DEF T
  <2>1. T \in SUBSET Nat
    BY DEF T
  <2> QED  BY <1>3, <1>4, <2>1, SetInduction
<1>6. Good(Len(rows))
  <2> HIDE DEF Good
  <2> QED  BY <1>1, <1>5
<1>7. PICK p : At(p, Len(rows))
  BY <1>6
<1> QED  BY <1>2, <1>7 DEF Multiplies

-----------------------------------------------------------------------------
(***************************************************************************)
(* The filter of an executed statement against the conditions that were    *)
(* read, for every text.                                                   *)
(***************************************************************************)

(* The tables of a query, each once: the sequence has no more and no other *)
(* tables, and none twice.                                                 *)
LEMMA SelectTableProperties ==
  ASSUME NEW S, NEW names \in Seq(S)
  PROVE  /\ GetSelectTable(names) \in Seq(S)
         /\ \A i, j \in 1..Len(GetSelectTable(names)) :
              GetSelectTable(names)[i] = GetSelectTable(names)[j] => i = j
         /\ \A k \in 1..Len(names) : \E i \in 1..Len(GetSelectTable(names)) :
              GetSelectTable(names)[i] = names[k]
<1> DEFINE N == Len(names)
           V == Seq(S)
           Next1(n, x) == IF Contains(x, names[n]) THEN x ELSE Append(x, names[n])
           Sol(g) == g = [n \in 0..N |-> IF n = 0 THEN <<>> ELSE Next1(n, g[n - 1])]
           step == [a \in (1..N) \X V |-> Next1(a[1], a[2])]
<1>1. N \in Nat /\ <<>> \in V /\ \A n \in 1..N : names[n] \in S
  OBVIOUS
<1>2. \A n \in 1..N, x \in V : Next1(n, x) \in V
  BY <1>1
<1> HIDE DEF Next1, N, V
<1>3. \A n \in 1..N, x \in V : step[<<n, x>>] = Next1(n, x)
  OBVIOUS
<1>4. step \in Steps(N, V)
  BY <1>2 DEF Steps
<1> HIDE DEF step
<1>5. PICK f \in [0..N -> V] : Rounds(f, N, <<>>, step)
  BY <1>1, <1>4, Recursion
<1>6. f[0] = <<>> /\ \A n \in 1..N : f[n] = Next1(n, f[n - 1])
  <2>1. \A n \in 1..N : n - 1 \in 0..N /\ f[n - 1] \in V
    BY <1>1
  <2>2. f[0] = <<>> /\ \A n \in 1..N : f[n] = step[<<n, f[n - 1]>>]
    BY <1>5 DEF Rounds
  <2> QED  BY <1>3, <2>1, <2>2
<1>7. Sol(f)
  BY <1>1, <1>6
<1> DEFINE seen == CHOOSE g : Sol(g)
<1>8. Sol(seen)
  <2> HIDE DEF Sol
  <2> QED  BY <1>7
<1>9. GetSelectTable(names) = seen[N]
  BY DEF GetSelectTable, N, Next1
<1> HIDE DEF seen
<1>10. seen[0] = <<>> /\ \A n \in 1..N : seen[n] = Next1(n, seen[n - 1])
  BY <1>1, <1>8
<1> DEFINE Once(n) == \A i, j \in 1..Len(seen[n]) : seen[n][i] = seen[n][j] => i = j
           All(n) == \A k \in 1..n : \E i \in 1..Len(seen[n]) : seen[n][i] = names[k]
           Good(n) == seen[n] \in V /\ Once(n) /\ All(n)
           T == {n \in Nat : n <= N => Good(n)}
<1>11. 0 \in T
  <2>1. seen[0] \in V /\ Len(seen[0]) = 0
    BY <1>1, <1>10
  <2>2. 1..0 = {}
    OBVIOUS
  <2>3. Once(0) /\ All(0)
    BY <2>1, <2>2
  <2> HIDE DEF Once, All
  <2> QED  BY <2>1, <2>3
<1>12. ASSUME NEW n \in T  PROVE n + 1 \in T
  <2> SUFFICES ASSUME n + 1 <= N  PROVE Good(n + 1)
    <3> HIDE DEF Good
    <3> QED  OBVIOUS
  <2>1. n \in Nat /\ n + 1 \in 1..N /\ Good(n) /\ (n + 1) - 1 = n
    <3> HIDE DEF Good
    <3> QED  BY <1>1
  <2> DEFINE old == seen[n]
             e == names[n + 1]
  <2>2. seen[n + 1] = IF Contains(old, e) THEN old ELSE Append(old, e)
    BY <1>10, <2>1 DEF Next1
  <2>3. old \in Seq(S) /\ e \in S /\ Len(old) \in Nat
    BY <1>1, <2>1 DEF V
  <2>4. \A i, j \in 1..Len(old) : old[i] = old[j] => i = j
    BY <2>1
  <2>5. \A k \in 1..n : \E i \in 1..Len(old) : old[i] = names[k]
    BY <2>1
  <2>6. Contains(old, e) <=> \E i \in 1..Len(old) : old[i] = e
    BY <2>3 DEF Contains
  <2>7. \A k \in 1..(n + 1) : k \in 1..n \/ k = n + 1
    BY <2>1
  <2> HIDE DEF old
  <2>8. CASE Contains(old, e)
    <3>1. seen[n + 1] = old
      BY <2>2, <2>8
    <3>2. \A k \in 1..(n + 1) : \E i \in 1..Len(old) : old[i] = names[k]
      BY <2>5, <2>6, <2>7, <2>8
    <3> QED  BY <2>3, <2>4, <3>1, <3>2 DEF V
  <2>9. CASE ~Contains(old, e)
    <3> DEFINE new == Append(old, e)
    <3>1. /\ new \in Seq(S) /\ Len(new) = Len(old) + 1 /\ new[Len(old) + 1] = e
          /\ \A i \in 1..Len(old) : new[i] = old[i]
      <4> HIDE DEF e
      <4> QED  BY <2>3, AppendProperties
    <3>2. seen[n + 1] = new
      BY <2>2, <2>9
    <3> HIDE DEF new
    <3>3. \A i \in 1..Len(new) : i \in 1..Len(old) \/ i = Len(old) + 1
      BY <2>3, <3>1
    <3>4. \A i \in 1..Len(old) : i \in 1..Len(new)
      BY <2>3, <3>1
    <3>5. Len(old) + 1 \in 1..Len(new)
      BY <2>3, <3>1
    <3>6. ASSUME NEW i \in 1..Len(new), NEW j \in 1..Len(new), new[i] = new[j]  PROVE i = j
      <4>1. \A l \in 1..Len(old) : old[l] # e
        BY <2>6, <2>9
      <4> QED  BY <2>4, <3>1, <3>3, <3>6, <4>1
    <3>7. ASSUME NEW k \in 1..(n + 1)  PROVE \E i \in 1..Len(new) : new[i] = names[k]
      <4>1. CASE k \in 1..n
        <5>1. PICK i \in 1..Len(old) : old[i] = names[k]
          BY <2>5, <4>1
        <5> QED  BY <3>1, <3>4, <5>1
      <4>2. CASE k = n + 1
        BY <3>1, <3>5, <4>2
      <4> QED  BY <2>7, <4>1, <4>2
    <3>8. new \in V
      BY <3>1 DEF V
    <3>9. Once(n + 1) /\ All(n + 1)
      BY <3>2, <3>6, <3>7
    <3> HIDE DEF Once, All
    <3> QED  BY <3>2, <3>8, <3>9
  <2> QED  BY <2>8, <2>9
<1>13. T = Nat
  <2> HIDE DEF T
  <2>1. T \in SUBSET Nat
    BY DEF T
  <2> QED  BY <1>11, <1>12, <2>1, SetInduction
<1>14. Good(N)
  <2> HIDE DEF Good
  <2> QED  BY <1>1, <1>13
<1> QED  BY <1>9, <1>14 DEF V, N

(* A SELECT reads columns of its tables, and those the tables have. *)
LEMMA ColumnsKnown ==
  ASSUME NEW t, NEW q, q.tables \in Seq(Tables), KnownColumns(q),
         NEW f \in ColumnsOf(t, q)
  PROVE  t \in ToSet(q.tables) /\ t \in Tables /\ f \in ToSet(Catalog[t])
<1> DEFINE Named == ToSet(q.tables)
           Known == {d \in [table : Named, field : Fields] : Contains(Catalog[d.table], d.field)}
           names == GetSelectTable(q.tables)
<1>1. PICK d \in ToSet(GetSelectField(q)) : d.table = t /\ d.field = f
  BY DEF ColumnsOf
<1>2. Catalog \in [Tables -> Seq(Fields)]
  BY CatalogAssumption
<1>3. q.tables \in Seq(Named) /\ Named \subseteq Tables
  BY DEF ToSet
<1>4. SUFFICES d.table \in Named /\ Contains(Catalog[d.table], d.field)
  <2>1. ASSUME t \in Tables, Contains(Catalog[t], f)  PROVE f \in ToSet(Catalog[t])
    <3>1. Catalog[t] \in Seq(Fields)
      BY <1>2, <2>1
    <3>2. DOMAIN Catalog[t] = 1..Len(Catalog[t])
      BY <3>1
    <3> QED  BY <2>1, <3>2 DEF Contains, ToSet
  <2> QED  BY <1>1, <1>3, <2>1
<1>5. CASE q.cols = <<>>
  <2> DEFINE OfTable(n) == [k \in DOMAIN Catalog[names[n]] |->
                              [table |-> names[n], field |-> Catalog[names[n]][k]]]
             columns == [n \in DOMAIN names |-> OfTable(n)]
  <2>1. names \in Seq(Named)
    BY <1>3, SelectTableProperties
  <2> HIDE DEF names
  <2>2. ASSUME NEW n \in DOMAIN names  PROVE OfTable(n) \in Seq(Known)
    <3>1. names[n] \in Named /\ names[n] \in Tables
      BY <1>3, <2>1
    <3>2. Catalog[names[n]] \in Seq(Fields)
      BY <1>2, <3>1
    <3>3. DOMAIN Catalog[names[n]] = 1..Len(Catalog[names[n]]) /\ Len(Catalog[names[n]]) \in Nat
      BY <3>2
    <3>4. ASSUME NEW k \in DOMAIN Catalog[names[n]]
          PROVE  [table |-> names[n], field |-> Catalog[names[n]][k]] \in Known
      BY <3>1, <3>2, <3>3 DEF Contains
    <3> HIDE DEF Known
    <3> QED  BY <3>3, <3>4
  <2>3. DOMAIN names = 1..Len(names) /\ Len(names) \in Nat
    BY <2>1
  <2>4. columns \in Seq(Seq(Known))
    <3> HIDE DEF OfTable, Known
    <3> QED  BY <2>2, <2>3
  <2>5. GetSelectField(q) = FlattenSeq(columns)
    BY <1>5 DEF GetSelectField, AllColumns, names
  <2> HIDE DEF columns, Known
  <2>6. GetSelectField(q) \in Seq(Known)
    BY <2>4, <2>5, FlattenTyped
  <2>7. d \in Known
    BY <1>1, <2>6 DEF ToSet
  <2> QED  BY <2>7 DEF Known
<1>6. CASE q.cols # <<>>
  <2> DEFINE fields == GetSelectField(q)
  <2>1. fields = [n \in DOMAIN q.cols |->
                    [table |-> CHOOSE s \in Owners(q.cols[n], q.tables) : TRUE,
                     field |-> q.cols[n].field]]
    BY <1>6 DEF GetSelectField
  <2> HIDE DEF fields
  <2>2. PICK n \in DOMAIN fields : d = fields[n]
    BY <1>1 DEF ToSet, fields
  <2>3. n \in DOMAIN q.cols /\ d.field = q.cols[n].field
        /\ d.table = CHOOSE s \in Owners(q.cols[n], q.tables) : TRUE
    BY <2>1, <2>2
  <2>4. Owners(q.cols[n], q.tables) # {}
    <3>1. OneField(q.cols[n], q.tables)
      BY <1>6, <2>3 DEF KnownColumns, Selected
    <3> QED  BY <3>1 DEF OneField
  <2>5. d.table \in Owners(q.cols[n], q.tables)
    BY <2>3, <2>4
  <2> QED  BY <2>3, <2>5 DEF Owners
<1> QED  BY <1>5, <1>6

(* What is executed has been built by the parser and is not refused. *)
LEMMA ExecutedTyped ==
  ASSUME Built, NEW c \in Executed
  PROVE  /\ c.tree.list \in Seq(Whole)
         /\ \A n \in DOMAIN c.tree.list : Supported(c.tree.list[n])
         /\ c.statement = "ParseSelect" => c.tree.tables \in Seq(Tables) /\ Accepts(c.tree)
         /\ c.statement # "ParseSelect" => c.tree.words[1].at \in Tables
<1>1. PICK n \in DOMAIN calls : c = calls[n]
  BY DEF Executed, ToSet
<1>2. c.statement \in Clauses /\ ~Refuses(c.statement, c.tree)
  BY DEF Executed
<1>3. c \in [statement : Names, tree : Trees]
  <2> DEFINE S == [statement : Names, tree : Trees]
  <2>1. calls \in Seq(S)
    BY DEF Built, WellTyped
  <2> HIDE DEF S
  <2>2. DOMAIN calls = 1..Len(calls) /\ \A m \in 1..Len(calls) : calls[m] \in S
    BY <2>1
  <2>3. c \in S
    BY <1>1, <2>2
  <2> QED  BY <2>3 DEF S
<1>4. c.tree \in Trees
  BY <1>3
<1>5. c.tree.list \in Seq(Whole) /\ c.tree.tables \in Seq(Spelled)
  BY <1>4 DEF Trees
<1>6. \A m \in DOMAIN c.tree.list : Supported(c.tree.list[m])
  BY <1>2 DEF Refuses
<1>7. ASSUME c.statement = "ParseSelect"
      PROVE  c.tree.tables \in Seq(Tables) /\ Accepts(c.tree)
  <2>1. Accepts(c.tree)
    BY <1>2, <1>7 DEF Refuses
  <2>2. ToSet(c.tree.tables) \subseteq Tables
    BY <2>1 DEF Accepts
  <2>3. DOMAIN c.tree.tables = 1..Len(c.tree.tables) /\ Len(c.tree.tables) \in Nat
    BY <1>5
  <2>4. \A m \in 1..Len(c.tree.tables) : c.tree.tables[m] \in Tables
    BY <2>2, <2>3 DEF ToSet
  <2>5. c.tree.tables = [m \in 1..Len(c.tree.tables) |-> c.tree.tables[m]]
    BY <1>5
  <2>6. c.tree.tables \in Seq(Tables)
    BY <2>3, <2>4, <2>5
  <2> QED  BY <2>1, <2>6
<1>8. ASSUME c.statement # "ParseSelect"  PROVE c.tree.words[1].at \in Tables
  <2>1. c.statement \in {"ParseUpdate", "ParseDelete"}
    BY <1>2, <1>8 DEF Clauses
  <2> QED  BY <1>1, <2>1 DEF Built, Handed
<1> QED  BY <1>5, <1>6, <1>7, <1>8

(* And so are the tables and columns its clause is about. *)
LEMMA CallsTyped ==
  ASSUME Built, NEW c \in Executed, NEW t \in Touched(c)
  PROVE  /\ c.tree.list \in Seq(Whole)
         /\ \A n \in DOMAIN c.tree.list : Supported(c.tree.list[n])
         /\ Catalog[t] \in Seq(Fields)
         /\ Filterable(c, t) \subseteq ToSet(Catalog[t])
<1>1. t \in Tables /\ Filterable(c, t) \subseteq ToSet(Catalog[t])
  <2>1. CASE c.statement = "ParseSelect"
    <3>1. c.tree.tables \in Seq(Tables) /\ Accepts(c.tree)
      BY <2>1, ExecutedTyped
    <3>2. ToSet(c.tree.tables) \subseteq Tables /\ KnownColumns(c.tree)
      BY <3>1 DEF Accepts
    <3>3. t \in ToSet(c.tree.tables)
      BY <2>1 DEF Touched
    <3>4. Filterable(c, t) = ColumnsOf(t, c.tree)
      BY <2>1 DEF Filterable
    <3> QED  BY <3>1, <3>2, <3>3, <3>4, ColumnsKnown
  <2>2. CASE c.statement # "ParseSelect"
    <3>1. c.tree.words[1].at \in Tables
      BY <2>2, ExecutedTyped
    <3> QED  BY <2>2, <3>1 DEF Touched, Filterable
  <2> QED  BY <2>1, <2>2
<1>2. Catalog[t] \in Seq(Fields)
  BY <1>1, CatalogAssumption
<1> QED  BY <1>1, <1>2, ExecutedTyped

(* The conditions CheckConditionList takes for a table: those about its     *)
(* columns, and others, whose columns the table does not have.             *)
Noted(c, t) == Among(c.tree.list, {d \in ToSet(c.tree.list) : Concerns(d, t)})

Gathered(c, t) ==
  /\ Noted(c, t) \in Seq(Whole) /\ About(c, t) \in Seq(Whole)
  /\ \A n \in 1..Len(Noted(c, t)) : Supported(Noted(c, t)[n])
  /\ \A n \in 1..Len(Noted(c, t)) : Target(Noted(c, t)[n]) \in ToSet(Catalog[t]) =>
       \E i \in 1..Len(About(c, t)) : About(c, t)[i] = Noted(c, t)[n]
  /\ \A i \in 1..Len(About(c, t)) : \E n \in 1..Len(Noted(c, t)) : Noted(c, t)[n] = About(c, t)[i]

(* No condition about a column of the table is lost, and none is added. *)
LEMMA NotedConditions ==
  ASSUME Built, NEW c \in Executed, NEW t \in Touched(c)
  PROVE  Gathered(c, t)
<1> DEFINE list == c.tree.list
           kept == Noted(c, t)
           about == About(c, t)
           K == {d \in ToSet(list) : Concerns(d, t)}
           A == {d \in ToSet(list) : Concerns(d, t) /\ Contains(Catalog[t], Target(d))}
<1>1. /\ list \in Seq(Whole) /\ Catalog[t] \in Seq(Fields)
      /\ \A n \in DOMAIN list : Supported(list[n])
  BY CallsTyped
<1>2. kept = Among(list, K)
  BY DEF Noted
<1>3. about = Among(list, A)
  BY DEF About
<1>4. \A d \in A : d \in ToSet(list) /\ d \in K
  OBVIOUS
<1>5. \A d \in K : Target(d) \in ToSet(Catalog[t]) => d \in A
  <2>1. \A f \in ToSet(Catalog[t]) : Contains(Catalog[t], f)
    BY <1>1 DEF ToSet, Contains
  <2> QED  BY <2>1
<1>6. \A d \in K : d \in ToSet(list)
  OBVIOUS
<1> HIDE DEF K, A, list, kept, about
<1>7. \A d \in ToSet(list) : Supported(d) /\ \E k \in 1..Len(list) : list[k] = d
  BY <1>1 DEF ToSet
<1>8. /\ kept \in Seq(Whole \cap K)
      /\ \A k \in 1..Len(list) :
           list[k] \in K => \E n \in 1..Len(kept) : kept[n] = list[k]
  BY <1>1, <1>2, AmongProperties
<1>9. /\ about \in Seq(Whole \cap A)
      /\ \A k \in 1..Len(list) :
           list[k] \in A => \E i \in 1..Len(about) : about[i] = list[k]
  BY <1>1, <1>3, AmongProperties
<1>10. \A n \in 1..Len(kept) : kept[n] \in K
  BY <1>8
<1>11. \A i \in 1..Len(about) : about[i] \in A
  BY <1>9
<1>12. kept \in Seq(Whole) /\ about \in Seq(Whole)
  BY <1>8, <1>9
<1>13. ASSUME NEW n \in 1..Len(kept), Target(kept[n]) \in ToSet(Catalog[t])
       PROVE  \E i \in 1..Len(about) : about[i] = kept[n]
  BY <1>5, <1>6, <1>7, <1>9, <1>10, <1>13
<1>14. ASSUME NEW i \in 1..Len(about)
       PROVE  \E n \in 1..Len(kept) : kept[n] = about[i]
  BY <1>4, <1>7, <1>8, <1>11
<1>15. \A n \in 1..Len(kept) : Supported(kept[n])
  BY <1>6, <1>7, <1>10
<1> QED  BY <1>12, <1>13, <1>14, <1>15 DEF Gathered, kept, about

(* No row that meets the conditions of a statement is left out, for every  *)
(* text, catalog and number of conditions (ParseUpdate, ParseDelete and    *)
(* ParseSelect in parser.c, CheckConditionList in manager.c).              *)
THEOREM RowsKept == Spec => []NoRowDropped
<1>1. ASSUME Built  PROVE NoRowDropped
  <2> SUFFICES ASSUME NEW c \in Executed, NEW t \in Touched(c),
                      \A n \in DOMAIN About(c, t) : ~LosesEquality(About(c, t)[n]),
                      NEW row \in Rows(t),
                      AllHold(row, About(c, t))
               PROVE  Passes(row, TableFilter(t, Filterable(c, t), c.tree.list))
    BY DEF NoRowDropped
  <2> DEFINE columns == Filterable(c, t)
             kept == Noted(c, t)
             about == About(c, t)
  <2>1. TableFilter(t, columns, c.tree.list) = Filter(columns, kept)
    BY DEF TableFilter, Noted
  <2>2. columns \subseteq ToSet(Catalog[t]) /\ ToSet(Catalog[t]) \subseteq Fields
    <3>1. columns \subseteq ToSet(Catalog[t]) /\ Catalog[t] \in Seq(Fields)
      BY <1>1, CallsTyped
    <3> QED  BY <3>1 DEF ToSet
  <2> HIDE DEF columns
  <2>3. \A f \in columns : row[f] \in Int
    BY <2>2 DEF Rows
  <2>4. /\ kept \in Seq(Whole) /\ about \in Seq(Whole)
        /\ \A n \in 1..Len(kept) : Supported(kept[n])
        /\ \A n \in 1..Len(kept) : Target(kept[n]) \in ToSet(Catalog[t]) =>
             \E i \in 1..Len(about) : about[i] = kept[n]
    BY <1>1, NotedConditions DEF Gathered
  <2>5. ASSUME NEW n \in 1..Len(kept), Target(kept[n]) \in columns
        PROVE  Weakened(kept[n]) /\ Holds(row, kept[n])
    <3>1. PICK i \in 1..Len(about) : about[i] = kept[n]
      BY <2>2, <2>4, <2>5
    <3>2. i \in DOMAIN about
      BY <2>4
    <3>3. Holds(row, kept[n]) /\ ~LosesEquality(kept[n])
      BY <3>1, <3>2 DEF AllHold
    <3> DEFINE d == kept[n]
    <3>4. d \in Whole /\ Supported(d) /\ Target(d) \in Fields
      BY <2>2, <2>4, <2>5
    <3> HIDE DEF d
    <3>5. /\ d.op \in Comparisons /\ d.leftValue \in Values \cup {None}
          /\ None \in {d.rightField, d.rightValue}
      BY <3>4 DEF Whole, Half, CondType
    <3>6. ASSUME d.leftValue = None  PROVE Weakened(d)
      BY <3>4, <3>5, <3>6 DEF Weakened, Supported
    <3>7. ASSUME d.leftValue # None  PROVE Weakened(d)
      <4>1. d.rightField \in Fields
        BY <3>4, <3>7 DEF Target
      <4>2. d.rightValue = None
        BY <3>5, <4>1, CatalogAssumption
      <4>3. d.leftValue \in Int \ {None}
        BY <3>5, <3>7, ValuesAssumption
      <4>4. d.op \notin {"TK_LE", "TK_GE"}
        BY <3>3, <3>7 DEF LosesEquality, d
      <4> QED  BY <3>5, <4>2, <4>3, <4>4 DEF Weakened
    <3>8. Weakened(d)
      BY <3>6, <3>7
    <3> QED  BY <3>3, <3>8 DEF d
  <2> HIDE DEF kept
  <2>6. Passes(row, Filter(columns, kept))
    BY <2>3, <2>4, <2>5, FilterNoStricter
  <2> QED  BY <2>1, <2>6 DEF columns
<1> QED  BY <1>1, InvarianceBuilt, PTL

(* Nor is there a row too many, when the clause is plain: the filter of    *)
(* a table is what was asked for.                                          *)
THEOREM PlainExact == Spec => []PlainClausesExact
<1>1. ASSUME Built  PROVE PlainClausesExact
  <2> SUFFICES ASSUME NEW c \in Executed, NEW t \in Touched(c),
                      Plain(About(c, t), Filterable(c, t)),
                      NEW row \in Rows(t)
               PROVE  AllHold(row, About(c, t))
                        <=> Passes(row, TableFilter(t, Filterable(c, t), c.tree.list))
    BY DEF PlainClausesExact
  <2> DEFINE columns == Filterable(c, t)
             kept == Noted(c, t)
             about == About(c, t)
  <2>1. TableFilter(t, columns, c.tree.list) = Filter(columns, kept)
    BY DEF TableFilter, Noted
  <2>2. columns \subseteq ToSet(Catalog[t])
    BY <1>1, CallsTyped
  <2>3. /\ kept \in Seq(Whole) /\ about \in Seq(Whole)
        /\ \A n \in 1..Len(kept) : Supported(kept[n])
        /\ \A n \in 1..Len(kept) : Target(kept[n]) \in ToSet(Catalog[t]) =>
             \E i \in 1..Len(about) : about[i] = kept[n]
        /\ \A i \in 1..Len(about) : \E n \in 1..Len(kept) : kept[n] = about[i]
    BY <1>1, NotedConditions DEF Gathered
  <2>4. DOMAIN about = 1..Len(about)
    BY <2>3
  <2>5. /\ \A i \in 1..Len(about) : about[i].leftValue = None /\ about[i].leftField \in columns
        /\ \A i, j \in 1..Len(about) : about[i].leftField = about[j].leftField => i = j
    BY <2>4 DEF Plain
  <2>6. AllHold(row, about) <=> \A i \in 1..Len(about) : Holds(row, about[i])
    BY <2>4 DEF AllHold
  <2> HIDE DEF columns, kept, about
  <2>7. \A i \in 1..Len(about) : Target(about[i]) = about[i].leftField
    BY <2>5 DEF Target
  <2>8. ASSUME NEW n \in 1..Len(kept), Target(kept[n]) \in columns
        PROVE  /\ kept[n].op \in Comparisons
               /\ kept[n].leftValue = None /\ kept[n].rightValue # None
    <3>1. kept[n].leftValue = None
      BY <2>2, <2>3, <2>5, <2>8
    <3>2. kept[n] \in Whole /\ Supported(kept[n])
      BY <2>3
    <3> QED  BY <3>1, <3>2 DEF Whole, Half, CondType, Supported
  <2>9. ASSUME NEW m \in 1..Len(kept), NEW n \in 1..Len(kept),
               Target(kept[m]) = Target(kept[n]), Target(kept[m]) \in columns
        PROVE  kept[m] = kept[n]
    <3>1. PICK i \in 1..Len(about) : about[i] = kept[m]
      BY <2>2, <2>3, <2>9
    <3>2. PICK j \in 1..Len(about) : about[j] = kept[n]
      BY <2>2, <2>3, <2>9
    <3> QED  BY <2>5, <2>7, <2>9, <3>1, <3>2
  <2>10. Passes(row, Filter(columns, kept)) <=>
           \A n \in 1..Len(kept) : Target(kept[n]) \in columns => Holds(row, kept[n])
    BY <2>3, <2>8, <2>9, FilterExact
  <2>11. (\A i \in 1..Len(about) : Holds(row, about[i])) <=>
           \A n \in 1..Len(kept) : Target(kept[n]) \in columns => Holds(row, kept[n])
    <3>1. ASSUME \A i \in 1..Len(about) : Holds(row, about[i]),
                 NEW n \in 1..Len(kept), Target(kept[n]) \in columns
          PROVE  Holds(row, kept[n])
      <4>1. PICK i \in 1..Len(about) : about[i] = kept[n]
        BY <2>2, <2>3, <3>1
      <4> QED  BY <3>1, <4>1
    <3>2. ASSUME \A n \in 1..Len(kept) : Target(kept[n]) \in columns => Holds(row, kept[n]),
                 NEW i \in 1..Len(about)
          PROVE  Holds(row, about[i])
      <4>1. PICK n \in 1..Len(kept) : kept[n] = about[i]
        BY <2>3
      <4>2. Target(kept[n]) \in columns
        BY <2>5, <2>7, <4>1
      <4> QED  BY <3>2, <4>1, <4>2
    <3> QED  BY <3>1, <3>2
  <2> QED  BY <2>1, <2>6, <2>10, <2>11 DEF columns, about
<1> QED  BY <1>1, InvarianceBuilt, PTL

-----------------------------------------------------------------------------
(***************************************************************************)
(* The lines a SELECT with a plain clause prints: one for each combination *)
(* of rows that was asked for, whatever the tables, their rows and the     *)
(* number of conditions.                                                   *)
(***************************************************************************)

(* What ParseSelect hands over, if it is executed and the clause is plain. *)
Answerable(q) ==
  /\ q.list \in Seq(Whole) /\ \A n \in DOMAIN q.list : Supported(q.list[n])
  /\ q.tables \in Seq(Tables) /\ KnownColumns(q)
  /\ PlainSelect(q)

(* A column that one table only has belongs to that table. *)
LEMMA OneOwner ==
  ASSUME NEW q, NEW col, Cardinality(Owners(col, q.tables)) = 1, q.tables \in Seq(Tables)
  PROVE  Owners(col, q.tables) = {Owner(col, q)}
<1> DEFINE owners == Owners(col, q.tables)
<1>1. IsFiniteSet(ToSet(q.tables))
  <2>1. q.tables \in Seq(ToSet(q.tables)) /\ Len(q.tables) \in Nat /\ DOMAIN q.tables = 1..Len(q.tables)
    BY DEF ToSet
  <2>2. q.tables \in Surjection(1..Len(q.tables), ToSet(q.tables))
    BY <2>1 DEF Surjection, ToSet
  <2>3. IsFiniteSet(1..Len(q.tables))
    BY <2>1, FS_Interval
  <2> QED  BY <2>2, <2>3, FS_Surjection DEF ExistsSurjection
<1>2. owners \subseteq ToSet(q.tables)
  BY DEF Owners
<1> HIDE DEF owners
<1>3. IsFiniteSet(owners)
  BY <1>1, <1>2, FS_Subset
<1>4. Cardinality(owners) = 1
  BY DEF owners
<1>5. PICK t : owners = {t}
  BY <1>3, <1>4, FS_Singleton
<1>6. (CHOOSE s \in owners : TRUE) = t
  BY <1>5
<1> QED  BY <1>5, <1>6 DEF Owner, owners

(* The filter of a table lets a row through exactly if it meets the        *)
(* conditions on columns of that table: of the other conditions none       *)
(* reaches it.                                                             *)
LEMMA FilterSays ==
  ASSUME NEW q, Answerable(q), NEW t \in ToSet(q.tables), NEW row
  PROVE  Passes(row, SelectFilter(t, q)) <=>
           \A n \in DOMAIN q.list : Owner(LeftColumn(q.list[n]), q) = t => Holds(row, q.list[n])
<1> DEFINE list == q.list
           columns == ColumnsOf(t, q)
           K == {c \in ToSet(list) : Concerns(c, t)}
           kept == Among(list, K)
           OfTable(n) == Owner(LeftColumn(list[n]), q) = t
<1>1. /\ list \in Seq(Whole) /\ \A n \in DOMAIN list : Supported(list[n])
      /\ q.tables \in Seq(Tables) /\ KnownColumns(q)
  BY DEF Answerable
<1>2. DOMAIN list = 1..Len(list) /\ Len(list) \in Nat
  BY <1>1
<1>3. SelectFilter(t, q) = Filter(columns, kept)
  BY DEF SelectFilter, TableFilter
<1>4. t \in Tables /\ Catalog[t] \in Seq(Fields)
  <2>1. t \in Tables
    BY <1>1 DEF ToSet
  <2> QED  BY <2>1, CatalogAssumption
<1>5. ASSUME NEW n \in 1..Len(list)
      PROVE  /\ list[n].leftValue = None /\ list[n].rightValue # None
             /\ list[n].op \in Comparisons
             /\ Target(list[n]) = list[n].leftField /\ TargetTable(list[n]) = list[n].leftTable
             /\ Owners(LeftColumn(list[n]), q.tables) = {Owner(LeftColumn(list[n]), q)}
             /\ list[n].leftField \in ColumnsOf(Owner(LeftColumn(list[n]), q), q)
  <2>1. /\ list[n].leftValue = None
        /\ Cardinality(Owners(LeftColumn(list[n]), q.tables)) = 1
        /\ list[n].leftField \in ColumnsOf(Owner(LeftColumn(list[n]), q), q)
    BY <1>2 DEF Answerable, PlainSelect
  <2>2. list[n] \in Whole /\ Supported(list[n])
    BY <1>1, <1>2
  <2>3. list[n].op \in Comparisons
    BY <2>2 DEF Whole, Half, CondType
  <2>4. Owners(LeftColumn(list[n]), q.tables) = {Owner(LeftColumn(list[n]), q)}
    BY <1>1, <2>1, OneOwner
  <2> QED  BY <2>1, <2>2, <2>3, <2>4 DEF Supported, Target, TargetTable
<1>6. \A m, n \in 1..Len(list) : list[m].leftField = list[n].leftField => m = n
  BY <1>2 DEF Answerable, PlainSelect
<1>7. ASSUME NEW n \in 1..Len(list)
      PROVE  OfTable(n) <=> Concerns(list[n], t) /\ Target(list[n]) \in columns
  <2> DEFINE col == LeftColumn(list[n])
  <2>1. col.table = list[n].leftTable /\ col.field = list[n].leftField
    BY DEF LeftColumn
  <2> HIDE DEF col
  <2>2. Owners(col, q.tables) = {Owner(col, q)}
    BY <1>5 DEF col
  <2>3. ASSUME OfTable(n)  PROVE Concerns(list[n], t) /\ Target(list[n]) \in columns
    <3>1. t \in Owners(col, q.tables)
      BY <2>2, <2>3 DEF col
    <3>2. col.table \in {None, t}
      BY <3>1 DEF Owners
    <3>3. Concerns(list[n], t)
      BY <1>5, <2>1, <3>2 DEF Concerns
    <3>4. Target(list[n]) \in columns
      BY <1>5, <2>3
    <3> QED  BY <3>3, <3>4
  <2>4. ASSUME Concerns(list[n], t), Target(list[n]) \in columns  PROVE OfTable(n)
    <3>1. col.field \in ColumnsOf(t, q)
      BY <1>5, <2>1, <2>4
    <3>2. col.field \in ToSet(Catalog[t])
      BY <1>1, <3>1, ColumnsKnown
    <3>3. Contains(Catalog[t], col.field)
      BY <1>4, <3>2 DEF ToSet, Contains
    <3>4. col.table \in {None, t}
      BY <1>5, <2>1, <2>4 DEF Concerns
    <3>5. t \in Owners(col, q.tables)
      BY <3>3, <3>4 DEF Owners
    <3> QED  BY <2>2, <3>5 DEF col
  <2> QED  BY <2>3, <2>4
<1>8. \A n \in 1..Len(list) : list[n] \in K <=> Concerns(list[n], t)
  BY <1>2 DEF ToSet
<1>9. \A c \in K : \E n \in 1..Len(list) : list[n] = c
  BY <1>2 DEF ToSet
<1> HIDE DEF K, columns, OfTable, list
<1>10. /\ kept \in Seq(Whole \cap K)
       /\ \A n \in 1..Len(list) : list[n] \in K => \E i \in 1..Len(kept) : kept[i] = list[n]
  BY <1>1, AmongProperties
<1> HIDE DEF kept
<1>11. \A i \in 1..Len(kept) : \E n \in 1..Len(list) : list[n] = kept[i] /\ Concerns(list[n], t)
  BY <1>8, <1>9, <1>10
<1>12. kept \in Seq(Whole)
  BY <1>10
<1>13. ASSUME NEW i \in 1..Len(kept), Target(kept[i]) \in columns
       PROVE  kept[i].op \in Comparisons /\ kept[i].leftValue = None /\ kept[i].rightValue # None
  <2>1. PICK n \in 1..Len(list) : list[n] = kept[i]
    BY <1>11
  <2> QED  BY <1>5, <2>1
<1>14. ASSUME NEW i \in 1..Len(kept), NEW j \in 1..Len(kept),
              Target(kept[i]) = Target(kept[j]), Target(kept[i]) \in columns
       PROVE  kept[i] = kept[j]
  <2>1. PICK m \in 1..Len(list) : list[m] = kept[i]
    BY <1>11
  <2>2. PICK n \in 1..Len(list) : list[n] = kept[j]
    BY <1>11
  <2>3. list[m].leftField = list[n].leftField
    <3>1. Target(list[m]) = list[m].leftField /\ Target(list[n]) = list[n].leftField
      BY <1>5
    <3> QED  BY <1>14, <2>1, <2>2, <3>1
  <2> QED  BY <1>6, <2>1, <2>2, <2>3
<1>15. Passes(row, Filter(columns, kept)) <=>
         \A i \in 1..Len(kept) : Target(kept[i]) \in columns => Holds(row, kept[i])
  BY <1>12, <1>13, <1>14, FilterExact
<1>16. (\A i \in 1..Len(kept) : Target(kept[i]) \in columns => Holds(row, kept[i])) <=>
         \A n \in 1..Len(list) : OfTable(n) => Holds(row, list[n])
  <2>1. ASSUME \A i \in 1..Len(kept) : Target(kept[i]) \in columns => Holds(row, kept[i]),
               NEW n \in 1..Len(list), OfTable(n)
        PROVE  Holds(row, list[n])
    <3>1. Concerns(list[n], t) /\ Target(list[n]) \in columns
      BY <1>7, <2>1
    <3>2. PICK i \in 1..Len(kept) : kept[i] = list[n]
      BY <1>8, <1>10, <3>1
    <3> QED  BY <2>1, <3>1, <3>2
  <2>2. ASSUME \A n \in 1..Len(list) : OfTable(n) => Holds(row, list[n]),
               NEW i \in 1..Len(kept), Target(kept[i]) \in columns
        PROVE  Holds(row, kept[i])
    <3>1. PICK n \in 1..Len(list) : list[n] = kept[i] /\ Concerns(list[n], t)
      BY <1>11
    <3>2. OfTable(n)
      BY <1>7, <2>2, <3>1
    <3> QED  BY <2>2, <3>1, <3>2
  <2> QED  BY <2>1, <2>2
<1> QED  BY <1>2, <1>3, <1>15, <1>16 DEF list, OfTable

(* The combinations of rows that pass the filters of their tables. *)
Passing(q) ==
  {m \in [ToSet(q.tables) -> UNION {DOMAIN Stored[t] : t \in ToSet(q.tables)}] :
     \A t \in ToSet(q.tables) :
       m[t] \in DOMAIN Stored[t] /\ Passes(Stored[t][m[t]], SelectFilter(t, q))}

(* They are those that were asked for. *)
LEMMA PassingAsked == ASSUME NEW q, Answerable(q)  PROVE Passing(q) = Asked(q)
<1>1. ASSUME NEW n \in DOMAIN q.list  PROVE Owner(LeftColumn(q.list[n]), q) \in ToSet(q.tables)
  <2>1. Cardinality(Owners(LeftColumn(q.list[n]), q.tables)) = 1 /\ q.tables \in Seq(Tables)
    BY DEF Answerable, PlainSelect
  <2>2. Owners(LeftColumn(q.list[n]), q.tables) = {Owner(LeftColumn(q.list[n]), q)}
    BY <2>1, OneOwner
  <2> QED  BY <2>2 DEF Owners
<1>2. ASSUME NEW m
      PROVE  (\A t \in ToSet(q.tables) : Passes(Stored[t][m[t]], SelectFilter(t, q))) <=>
               \A n \in DOMAIN q.list :
                 Holds(Stored[Owner(LeftColumn(q.list[n]), q)][m[Owner(LeftColumn(q.list[n]), q)]], q.list[n])
  <2>1. \A t \in ToSet(q.tables) : Passes(Stored[t][m[t]], SelectFilter(t, q)) <=>
          \A n \in DOMAIN q.list :
            Owner(LeftColumn(q.list[n]), q) = t => Holds(Stored[t][m[t]], q.list[n])
    BY FilterSays
  <2> QED  BY <1>1, <2>1
<1> QED  BY <1>2 DEF Passing, Asked

(* Each line stands for a combination of rows. *)
Stands(g, joined, q) ==
  \A k \in 1..Len(joined) : \A i \in DOMAIN GetSelectTable(q.tables) :
    joined[k][i] = Stored[GetSelectTable(q.tables)[i]][g[k][GetSelectTable(q.tables)[i]]]

(* The combinations ManagerSelect goes through. *)
Joined(q) ==
  CartesianProduct([n \in DOMAIN GetSelectTable(q.tables) |->
                      SelectTableQuery(GetSelectTable(q.tables)[n], q)])

(* And each combination that passes has one. *)
LEMMA JoinedPlaces ==
  ASSUME NEW q, q.tables \in Seq(Tables)
  PROVE  /\ Len(Joined(q)) \in Nat /\ DOMAIN Joined(q) = 1..Len(Joined(q))
         /\ \E g : Enumerates(g, Len(Joined(q)), Passing(q)) /\ Stands(g, Joined(q), q)
<1> DEFINE names == GetSelectTable(q.tables)
           Named == ToSet(q.tables)
           R == UNION {[ToSet(Catalog[t]) -> Int] : t \in Tables}
           P(t) == {row \in ToSet(Stored[t]) : Passes(row, SelectFilter(t, q))}
           rows == [n \in DOMAIN names |-> SelectTableQuery(names[n], q)]
           At(t) == {k \in 1..Len(Stored[t]) : Stored[t][k] \in P(t)}
           Selects(p, t) == /\ Enumerates(p, Len(Among(Stored[t], P(t))), At(t))
                            /\ Picks(p, Among(Stored[t], P(t)), Stored[t])
           joined == CartesianProduct(rows)
<1>1. q.tables \in Seq(Named) /\ Named \subseteq Tables /\ DOMAIN q.tables = 1..Len(q.tables)
  BY DEF ToSet
<1>2. /\ names \in Seq(Named)
      /\ \A i, j \in 1..Len(names) : names[i] = names[j] => i = j
      /\ \A k \in 1..Len(q.tables) : \E i \in 1..Len(names) : names[i] = q.tables[k]
  BY <1>1, SelectTableProperties
<1>3. \A t \in Named : \E k \in 1..Len(q.tables) : q.tables[k] = t
  BY <1>1 DEF ToSet
<1>4. Joined(q) = joined
  BY DEF Joined
<1> HIDE DEF names, Named
<1>5. Len(names) \in Nat /\ DOMAIN names = 1..Len(names) /\ \A i \in 1..Len(names) : names[i] \in Named
  BY <1>2
<1>6. \A t \in Named : \E i \in 1..Len(names) : names[i] = t
  BY <1>2, <1>3
<1>7. ASSUME NEW t \in Named
      PROVE  /\ Stored[t] \in Seq(R) /\ DOMAIN Stored[t] = 1..Len(Stored[t]) /\ Len(Stored[t]) \in Nat
             /\ SelectTableQuery(t, q) = Among(Stored[t], P(t))
             /\ Among(Stored[t], P(t)) \in Seq(R)
             /\ At(t) = {k \in DOMAIN Stored[t] : Passes(Stored[t][k], SelectFilter(t, q))}
             /\ \E p : Selects(p, t)
  <2>1. Stored[t] \in Seq([ToSet(Catalog[t]) -> Int])
    BY <1>1, StoredAssumption
  <2>2. Stored[t] \in Seq(R)
    BY <1>1, <2>1
  <2>3. DOMAIN Stored[t] = 1..Len(Stored[t]) /\ Len(Stored[t]) \in Nat
    BY <2>2
  <2>4. SelectTableQuery(t, q) = Among(Stored[t], P(t))
    BY DEF SelectTableQuery
  <2>5. At(t) = {k \in DOMAIN Stored[t] : Passes(Stored[t][k], SelectFilter(t, q))}
    BY <2>3 DEF ToSet
  <2> HIDE DEF P, R
  <2>6. Among(Stored[t], P(t)) \in Seq(R \cap P(t))
    BY <2>2, AmongProperties
  <2>7. Among(Stored[t], P(t)) \in Seq(R)
    BY <2>6
  <2>8. \E p : Selects(p, t)
    BY <2>2, AmongPlaces
  <2> QED  BY <2>2, <2>3, <2>4, <2>5, <2>7, <2>8
<1> DEFINE pick == [t \in Named |-> CHOOSE p : Selects(p, t)]
<1>8. ASSUME NEW t \in Named  PROVE Selects(pick[t], t)
  <2> HIDE DEF Selects
  <2> QED  BY <1>7
<1> HIDE DEF R, P, pick
<1>9. ASSUME NEW i \in 1..Len(names)
      PROVE  rows[i] = Among(Stored[names[i]], P(names[i])) /\ rows[i] \in Seq(R)
  <2>1. rows[i] = SelectTableQuery(names[i], q) /\ names[i] \in Named
    BY <1>5
  <2> QED  BY <1>7, <2>1
<1>10. rows \in Seq(Seq(R)) /\ Len(rows) = Len(names)
  <2>1. \A i \in DOMAIN names : SelectTableQuery(names[i], q) \in Seq(R)
    BY <1>5, <1>7
  <2> QED  BY <1>5, <2>1
<1> HIDE DEF rows
<1>11. PICK c : /\ Enumerates(c, Len(joined), Combinations(rows, Len(rows)))
                /\ Combines(c, joined, rows, Len(rows))
  BY <1>10, ProductPlaces
<1>12. joined \in Seq(Seq(R))
  <2>1. PICK product : Multiplies(product, rows)
    BY <1>10, ProductEquation
  <2>2. product[0] \in Seq(Seq(R))
    BY <2>1 DEF Multiplies
  <2>3. Len(rows) \in Nat /\ \A n \in 1..Len(rows) : rows[n] \in Seq(R)
    BY <1>10
  <2>4. \A n \in 1..Len(rows) : product[n - 1] \in Seq(Seq(R)) => product[n] \in Seq(Seq(R))
    BY <2>1, <2>3, WiderTyped DEF Multiplies
  <2>5. product[Len(rows)] \in Seq(Seq(R))
    BY <2>2, <2>3, <2>4, LoopInvariant
  <2> QED  BY <2>1, <2>5 DEF Multiplies
<1>13. Len(joined) \in Nat /\ DOMAIN joined = 1..Len(joined)
  BY <1>12
<1> HIDE DEF joined
<1> DEFINE index(t) == CHOOSE i \in 1..Len(names) : names[i] = t
           rowsAt(d) == [t \in Named |-> pick[t][d[index(t)]]]
           g == [k \in 1..Len(joined) |-> rowsAt(c[k])]
           W == Combinations(rows, Len(rows))
<1>14. \A t \in Named : index(t) \in 1..Len(names) /\ names[index(t)] = t
  BY <1>6
<1>15. \A i \in 1..Len(names) : index(names[i]) = i
  BY <1>2, <1>5, <1>14
<1> HIDE DEF index
<1>16. ASSUME NEW t \in Named
       PROVE  /\ pick[t] \in [1..Len(rows[index(t)]) -> At(t)]
              /\ \A a, b \in 1..Len(rows[index(t)]) : pick[t][a] = pick[t][b] => a = b
              /\ \A k \in At(t) : \E a \in 1..Len(rows[index(t)]) : pick[t][a] = k
              /\ \A a \in 1..Len(rows[index(t)]) : rows[index(t)][a] = Stored[t][pick[t][a]]
  <2>1. rows[index(t)] = Among(Stored[t], P(t))
    BY <1>9, <1>14
  <2>2. Enumerates(pick[t], Len(rows[index(t)]), At(t)) /\ Picks(pick[t], rows[index(t)], Stored[t])
    BY <1>8, <2>1
  <2> HIDE DEF At
  <2> QED  BY <2>2 DEF Enumerates, Picks
<1>17. Passing(q) = {m \in [Named -> UNION {DOMAIN Stored[t] : t \in Named}] : \A t \in Named : m[t] \in At(t)}
  <2>1. \A t \in Named : \A k : k \in At(t) <=>
          k \in DOMAIN Stored[t] /\ Passes(Stored[t][k], SelectFilter(t, q))
    BY <1>7
  <2> HIDE DEF At
  <2> QED  BY <2>1 DEF Passing, Named
<1>18. \A t \in Named : At(t) \subseteq DOMAIN Stored[t]
  BY <1>7
<1> HIDE DEF At
<1>19. \A d \in W : d \in [1..Len(names) -> Nat] /\ \A i \in 1..Len(names) : d[i] \in 1..Len(rows[i])
  BY <1>10 DEF Combinations
<1>20. ASSUME NEW d \in W  PROVE rowsAt(d) \in Passing(q)
  <2>1. \A t \in Named : d[index(t)] \in 1..Len(rows[index(t)])
    BY <1>14, <1>19
  <2>2. \A t \in Named : rowsAt(d)[t] \in At(t)
    BY <1>16, <2>1
  <2>3. rowsAt(d) = [t \in Named |-> rowsAt(d)[t]]
    OBVIOUS
  <2> HIDE DEF rowsAt
  <2> QED  BY <1>17, <1>18, <2>2, <2>3
<1>21. ASSUME NEW d \in W, NEW e \in W, rowsAt(d) = rowsAt(e)  PROVE d = e
  <2>1. ASSUME NEW i \in 1..Len(names)  PROVE d[i] = e[i]
    <3>1. names[i] \in Named /\ index(names[i]) = i
      BY <1>5, <1>15
    <3>2. rowsAt(d)[names[i]] = pick[names[i]][d[i]] /\ rowsAt(e)[names[i]] = pick[names[i]][e[i]]
      BY <3>1
    <3>3. d[i] \in 1..Len(rows[i]) /\ e[i] \in 1..Len(rows[i])
      BY <1>19
    <3>4. \A a, b \in 1..Len(rows[i]) : pick[names[i]][a] = pick[names[i]][b] => a = b
      BY <1>16, <3>1
    <3> HIDE DEF rowsAt
    <3> QED  BY <1>21, <3>2, <3>3, <3>4
  <2>2. d \in [1..Len(names) -> Nat] /\ e \in [1..Len(names) -> Nat]
    BY <1>19
  <2> QED  BY ONLY <2>1, <2>2
<1>22. ASSUME NEW m \in Passing(q)  PROVE \E d \in W : rowsAt(d) = m
  <2> DEFINE d == [i \in 1..Len(names) |-> CHOOSE a \in 1..Len(rows[i]) : pick[names[i]][a] = m[names[i]]]
  <2>1. m = [t \in Named |-> m[t]] /\ \A t \in Named : m[t] \in At(t)
    BY <1>17
  <2>2. ASSUME NEW i \in 1..Len(names)
        PROVE  d[i] \in 1..Len(rows[i]) /\ pick[names[i]][d[i]] = m[names[i]]
    <3>1. names[i] \in Named /\ index(names[i]) = i
      BY <1>5, <1>15
    <3>2. \E a \in 1..Len(rows[i]) : pick[names[i]][a] = m[names[i]]
      BY <1>16, <2>1, <3>1
    <3> QED  BY <3>2
  <2>3. \A i \in 1..Len(names) : d[i] \in Nat
    <3>1. \A i \in 1..Len(names) : \A a \in 1..Len(rows[i]) : a \in Nat
      OBVIOUS
    <3> HIDE DEF d
    <3> QED  BY <2>2, <3>1
  <2>4. d = [i \in 1..Len(names) |-> d[i]]
    OBVIOUS
  <2> HIDE DEF d
  <2>5. d \in W
    BY <1>10, <2>2, <2>3, <2>4 DEF Combinations
  <2>6. \A t \in Named : pick[t][d[index(t)]] = m[t]
    BY <1>14, <2>2
  <2>7. rowsAt(d) = m
    BY <2>1, <2>6
  <2> HIDE DEF W, rowsAt
  <2> QED  BY <2>5, <2>7
<1>23. /\ c \in [1..Len(joined) -> W]
       /\ \A i, j \in 1..Len(joined) : c[i] = c[j] => i = j
       /\ \A d \in W : \E k \in 1..Len(joined) : c[k] = d
  BY <1>11 DEF Enumerates
<1> HIDE DEF W
<1>24. Enumerates(g, Len(joined), Passing(q))
  <2> HIDE DEF rowsAt
  <2>1. \A k \in 1..Len(joined) : g[k] = rowsAt(c[k]) /\ c[k] \in W
    BY <1>23
  <2>2. g \in [1..Len(joined) -> Passing(q)]
    BY <1>20, <2>1
  <2> HIDE DEF g
  <2>3. \A i, j \in 1..Len(joined) : g[i] = g[j] => i = j
    BY <1>21, <1>23, <2>1
  <2>4. ASSUME NEW m \in Passing(q)  PROVE \E k \in 1..Len(joined) : g[k] = m
    <3>1. PICK d \in W : rowsAt(d) = m
      BY <1>22
    <3>2. PICK k \in 1..Len(joined) : c[k] = d
      BY <1>23
    <3> QED  BY <2>1, <3>1, <3>2
  <2> QED  BY <2>2, <2>3, <2>4 DEF Enumerates
<1>25. ASSUME NEW k \in 1..Len(joined), NEW i \in 1..Len(names)
       PROVE  joined[k][i] = Stored[names[i]][g[k][names[i]]]
  <2>1. joined[k][i] = rows[i][c[k][i]]
    BY <1>10, <1>11 DEF Combines
  <2>2. c[k][i] \in 1..Len(rows[i])
    BY <1>19, <1>23
  <2>3. names[i] \in Named /\ index(names[i]) = i
    BY <1>5, <1>15
  <2>4. g[k][names[i]] = pick[names[i]][c[k][i]]
    BY <2>3
  <2>5. rows[i][c[k][i]] = Stored[names[i]][pick[names[i]][c[k][i]]]
    BY <1>16, <2>2, <2>3
  <2> QED  BY <2>1, <2>4, <2>5
<1> HIDE DEF g
<1>26. Stands(g, joined, q)
  BY <1>5, <1>25 DEF Stands, names
<1> QED  BY <1>4, <1>13, <1>24, <1>26

(* What is printed for a combination is its line. *)
LEMMA AnswerLines ==
  ASSUME NEW q, q.tables \in Seq(Tables), KnownColumns(q), NEW g, Stands(g, Joined(q), q),
         DOMAIN Joined(q) = 1..Len(Joined(q))
  PROVE  /\ DOMAIN ManagerSelect(q) = 1..Len(Joined(q))
         /\ \A k \in 1..Len(Joined(q)) : ManagerSelect(q)[k] = Line(g[k], q)
<1> DEFINE names == GetSelectTable(q.tables)
           cols == GetSelectField(q)
           place(n) == CHOOSE m \in DOMAIN names : names[m] = cols[n].table
           joined == Joined(q)
<1>1. ManagerSelect(q) = [k \in DOMAIN joined |-> [n \in DOMAIN cols |-> joined[k][place(n)][cols[n].field]]]
  BY DEF ManagerSelect, Joined
<1>2. ASSUME NEW n \in DOMAIN cols  PROVE place(n) \in DOMAIN names /\ names[place(n)] = cols[n].table
  <2>1. cols[n].field \in ColumnsOf(cols[n].table, q)
    BY DEF ColumnsOf, ToSet
  <2>2. cols[n].table \in ToSet(q.tables)
    BY <2>1, ColumnsKnown
  <2>3. PICK k \in DOMAIN q.tables : q.tables[k] = cols[n].table
    BY <2>2 DEF ToSet
  <2>4. k \in 1..Len(q.tables)
    BY <2>3
  <2>5. names \in Seq(Tables) /\ \E i \in 1..Len(names) : names[i] = q.tables[k]
    BY <2>4, SelectTableProperties
  <2> HIDE DEF names, cols
  <2>6. \E i \in DOMAIN names : names[i] = cols[n].table
    BY <2>3, <2>5
  <2> QED  BY <2>6
<1>3. ASSUME NEW k \in 1..Len(joined)
      PROVE  [n \in DOMAIN cols |-> joined[k][place(n)][cols[n].field]] = Line(g[k], q)
  <2>1. ASSUME NEW n \in DOMAIN cols
        PROVE  joined[k][place(n)][cols[n].field] = Stored[cols[n].table][g[k][cols[n].table]][cols[n].field]
    <3>1. joined[k][place(n)] = Stored[names[place(n)]][g[k][names[place(n)]]]
      <4>1. place(n) \in DOMAIN names
        BY <1>2
      <4> HIDE DEF place
      <4> QED  BY <4>1 DEF Stands
    <3>2. names[place(n)] = cols[n].table
      BY <1>2
    <3> HIDE DEF place, names, cols, joined
    <3> QED  BY <3>1, <3>2
  <2>2. Line(g[k], q) = [n \in DOMAIN cols |-> Stored[cols[n].table][g[k][cols[n].table]][cols[n].field]]
    BY DEF Line
  <2> HIDE DEF place, names, cols, joined
  <2> QED  BY <2>1, <2>2
<1> HIDE DEF place, names, cols
<1> QED  BY <1>1, <1>3

(* A SELECT with a plain clause prints each line as often as there are     *)
(* combinations of rows it stands for, for every catalog, all stored rows  *)
(* and every text (manager_select and what it calls in manager.c).         *)
THEOREM PlainSelectsExact == Spec => []SelectsExact
<1>1. ASSUME Built  PROVE SelectsExact
  <2> SUFFICES ASSUME NEW c \in Executed, c.statement = "ParseSelect", PlainSelect(c.tree), NEW line
               PROVE  Cardinality({n \in DOMAIN ManagerSelect(c.tree) : ManagerSelect(c.tree)[n] = line})
                        = Cardinality({m \in Asked(c.tree) : Line(m, c.tree) = line})
    BY DEF SelectsExact
  <2> DEFINE q == c.tree
             answer == ManagerSelect(q)
             N == Len(Joined(q))
             A == {n \in DOMAIN answer : answer[n] = line}
             B == {m \in Asked(q) : Line(m, q) = line}
  <2>1. /\ q.list \in Seq(Whole) /\ \A n \in DOMAIN q.list : Supported(q.list[n])
        /\ q.tables \in Seq(Tables) /\ Accepts(q)
    BY <1>1, ExecutedTyped
  <2>2. KnownColumns(q)
    BY <2>1 DEF Accepts
  <2>3. Answerable(q)
    BY <2>1, <2>2 DEF Answerable
  <2>4. Passing(q) = Asked(q)
    BY <2>3, PassingAsked
  <2> HIDE DEF q
  <2>5. N \in Nat /\ DOMAIN Joined(q) = 1..N
    BY <2>1, JoinedPlaces
  <2>6. PICK g : Enumerates(g, N, Passing(q)) /\ Stands(g, Joined(q), q)
    BY <2>1, JoinedPlaces
  <2>7. DOMAIN answer = 1..N /\ \A k \in 1..N : answer[k] = Line(g[k], q)
    BY <2>1, <2>2, <2>5, <2>6, AnswerLines
  <2> HIDE DEF N, answer
  <2>8. /\ g \in [1..N -> Asked(q)]
        /\ \A i, j \in 1..N : g[i] = g[j] => i = j
        /\ \A m \in Asked(q) : \E i \in 1..N : g[i] = m
    BY <2>4, <2>6 DEF Enumerates
  <2> DEFINE f == [n \in A |-> g[n]]
  <2>9. f \in Bijection(A, B)
    <3>1. \A n \in A : n \in 1..N /\ f[n] = g[n] /\ g[n] \in B
      BY <2>7, <2>8
    <3>2. f \in [A -> B]
      BY <3>1
    <3>3. \A m \in B : \E n \in A : f[n] = m
      <4> SUFFICES ASSUME NEW m \in B  PROVE \E n \in A : f[n] = m
        OBVIOUS
      <4>1. PICK n \in 1..N : g[n] = m
        BY <2>8
      <4>2. n \in A
        BY <2>7, <4>1
      <4> QED  BY <4>1, <4>2
    <3> HIDE DEF f, A, B
    <3>4. \A i, j \in A : f[i] = f[j] => i = j
      BY <2>8, <3>1
    <3> QED  BY <3>2, <3>3, <3>4 DEF Bijection, Injection, Surjection, IsInjective
  <2>10. IsFiniteSet(A)
    <3>1. IsFiniteSet(1..N) /\ A \subseteq 1..N
      BY <2>5, <2>7, FS_Interval
    <3> HIDE DEF A
    <3> QED  BY <3>1, FS_Subset
  <2> HIDE DEF f, A, B
  <2>11. Cardinality(B) = Cardinality(A)
    BY <2>9, <2>10, FS_Bijection DEF ExistsBijection
  <2> QED  BY <2>11 DEF A, B, answer, q
<1> QED  BY <1>1, InvarianceBuilt, PTL

-----------------------------------------------------------------------------
(***************************************************************************)
(* How far a text is read: nothing is asked for behind its end, and no     *)
(* function goes past it.                                                  *)
(***************************************************************************)
States ==
  {"start", "separator"} \cup (UNION {Lenient[r] : r \in DOMAIN Lenient})
     \cup (UNION {e.at : e \in GetColListEdges \cup GetTableListEdges})

Ended == Len(text) = MaxTokens + 1 /\ text[Len(text)] = End

Bounded ==
  /\ \A n \in 1..Len(text) : text[n] = End => pos <= n
  /\ Len(text) <= MaxTokens \/ Ended
  /\ pos \in 1..(Len(text) + 1)
  /\ at \in States
  /\ pc \in {"parsing", "answered", "crashed"}

(* The states of the readers, and the states their edges lead to. *)
LEMMA StatesKnown ==
  /\ {"start", "separator"} \subseteq States
  /\ \A e \in GetColListEdges \cup GetTableListEdges \cup GetExprEdges \cup GetOrderByEdges :
       e.next = "leave" \/ e.next \in States
<1>1. {"start", "separator"} \subseteq States
  BY DEF States
<1>2. ASSUME NEW edge \in GetColListEdges \cup GetTableListEdges  PROVE edge.at \subseteq States
  <2> DEFINE ats == {e.at : e \in GetColListEdges \cup GetTableListEdges}
  <2>1. edge.at \in ats
    OBVIOUS
  <2>2. UNION ats \subseteq States
    BY DEF States
  <2> HIDE DEF ats
  <2> QED  BY <2>1, <2>2
<1>3. ASSUME NEW edge \in GetExprEdges \cup GetOrderByEdges  PROVE edge.at \subseteq States
  <2>1. {"GetExpr", "GetOrderBy"} \subseteq DOMAIN Lenient
    BY DEF Lenient
  <2>2. Lenient["GetExpr"] \subseteq States /\ Lenient["GetOrderBy"] \subseteq States
    BY <2>1 DEF States
  <2>3. Lenient["GetExpr"] = UNION {e.at : e \in GetExprEdges}
    BY DEF Lenient
  <2>4. Lenient["GetOrderBy"] = (UNION {e.at : e \in GetOrderByEdges}) \cup {"last"}
    BY DEF Lenient
  <2> HIDE DEF GetExprEdges, GetOrderByEdges, Lenient
  <2> QED  BY <2>2, <2>3, <2>4
<1>4. "last" \in States
  <2>1. "GetOrderBy" \in DOMAIN Lenient /\ "last" \in Lenient["GetOrderBy"]
    BY DEF Lenient
  <2> QED  BY <2>1 DEF States
<1>5. ASSUME NEW e \in GetColListEdges  PROVE e.next = "leave" \/ e.next \in States
  <2>1. /\ Edge({"star"}, {"TK_FROM"}, "none", "leave") \in GetColListEdges
        /\ Edge({"start", "more"}, Name, "column", "name") \in GetColListEdges
        /\ Edge({"dot"}, {"TK_ID"}, "ofTable", "qualified") \in GetColListEdges
        /\ Edge({"name", "qualified", "as"}, Name, "nickName", "nicknamed") \in GetColListEdges
        /\ Edge({"name", "qualified", "nicknamed"}, {"TK_FROM"}, "none", "leave") \in GetColListEdges
    BY DEF GetColListEdges
  <2>2. {"star", "more", "dot", "name", "qualified", "as", "nicknamed"} \subseteq States
    BY <1>2, <2>1 DEF Edge
  <2>3. e.next \in {"star", "more", "dot", "name", "qualified", "as", "nicknamed", "leave"}
    BY DEF GetColListEdges, Edge
  <2> QED  BY <2>2, <2>3
<1>6. ASSUME NEW e \in GetTableListEdges  PROVE e.next = "leave" \/ e.next \in States
  <2>1. /\ Edge({"start", "more"}, Name, "table", "name") \in GetTableListEdges
        /\ Edge({"name"}, {"TK_COMMA"}, "none", "more") \in GetTableListEdges
    BY DEF GetTableListEdges
  <2>2. {"more", "name"} \subseteq States
    BY <1>2, <2>1 DEF Edge
  <2>3. e.next \in {"more", "name", "leave"}
    BY DEF GetTableListEdges, Edge
  <2> QED  BY <2>2, <2>3
<1>7. ASSUME NEW e \in GetExprEdges  PROVE e.next = "leave" \/ e.next \in States
  <2>1. /\ Edge({"start", "left"}, Literal, "leftValue", "op") \in GetExprEdges
        /\ Edge({"leftDot"}, {"TK_ID"}, "leftTable", "op") \in GetExprEdges
        /\ Edge({"leftId", "op"}, Comparisons, "op", "right") \in GetExprEdges
        /\ Edge({"right"}, Literal, "rightValue", "and") \in GetExprEdges
        /\ Edge({"rightDot"}, {"TK_ID"}, "rightTable", "and") \in GetExprEdges
        /\ Edge({"rightId", "and"}, {"TK_AND"}, "none", "left") \in GetExprEdges
    BY DEF GetExprEdges
  <2>2. {"left", "leftDot", "leftId", "op", "right", "rightDot", "rightId", "and"} \subseteq States
    BY <1>3, <2>1 DEF Edge
  <2>3. e.next \in {"left", "leftDot", "leftId", "op", "right", "rightDot", "rightId", "and"}
    BY DEF GetExprEdges, Edge
  <2> QED  BY <2>2, <2>3
<1>8. ASSUME NEW e \in GetOrderByEdges  PROVE e.next = "leave" \/ e.next \in States
  <2>1. /\ Edge({"by"}, Name, "orderBy", "order") \in GetOrderByEdges
        /\ Edge({"order", "dot", "qualified"}, {"TK_ASC", "TK_DESC"}, "asc", "last")
             \in GetOrderByEdges
    BY DEF GetOrderByEdges
  <2>2. {"by", "order", "dot", "qualified"} \subseteq States
    BY <1>3, <2>1 DEF Edge
  <2>3. e.next \in {"by", "order", "dot", "qualified", "last"}
    BY DEF GetOrderByEdges, Edge
  <2> QED  BY <1>4, <2>2, <2>3
<1> QED  BY <1>1, <1>5, <1>6, <1>7, <1>8

(* A token is read and passed, or the function gives up or crashes. *)
LEMMA ReadBounded ==
  ASSUME text \in Seq(Tokens), text' \in Seq(Tokens), Bounded,
         NEW types, NEW names, NEW token \in GetToken(types, names), Read(token),
         \/ Advance(token) /\ at' \in States /\ pc' = pc
         \/ NextFunction
         \/ pos' = pos /\ at' = at /\ pc' = "crashed"
  PROVE  Bounded'
<1>1. Len(text) \in Nat /\ MaxTokens \in Nat /\ pos \in 1..(Len(text) + 1)
  BY BoundsAssumption DEF Bounded
<1>2. at' \in States /\ pc' \in {"parsing", "answered", "crashed"}
  BY StatesKnown DEF Bounded, NextFunction
<1>3. pos' = 1 \/ pos' = pos \/ (pos' = pos + 1 /\ token # End)
  BY DEF Advance, NextFunction
<1>4. CASE pos <= Len(text)
  <2>1. text' = text /\ token = text[pos]
    BY <1>4 DEF Read, GetToken
  <2>2. ASSUME NEW n \in 1..Len(text), text[n] = End  PROVE pos' <= n
    <3>1. pos <= n
      BY <2>2 DEF Bounded
    <3>2. n = pos => token = End
      BY <2>1, <2>2
    <3> QED  BY <1>1, <1>3, <3>1, <3>2
  <2>3. pos' \in 1..(Len(text) + 1)
    BY <1>1, <1>3, <1>4
  <2> QED  BY <1>2, <2>1, <2>2, <2>3 DEF Bounded, Ended
<1>5. CASE pos = Len(text) + 1
  <2>1. text' = Append(text, token)
    BY <1>1, <1>5 DEF Read
  <2>2. Len(text') = Len(text) + 1 /\ text'[Len(text) + 1] = token
        /\ \A n \in 1..Len(text) : text'[n] = text[n]
    BY <2>1
  <2>3. \A n \in 1..Len(text) : text[n] # End
    BY <1>1, <1>5 DEF Bounded
  <2>4. Len(text) <= MaxTokens
    <3>1. Ended => Len(text) \in 1..Len(text) /\ text[Len(text)] = End
      BY <1>1 DEF Ended
    <3> QED  BY <2>3, <3>1 DEF Bounded
  <2>5. Len(text) = MaxTokens => token = End
    BY <1>1, <1>5 DEF GetToken
  <2>6. Len(text') <= MaxTokens \/ Ended'
    BY <1>1, <2>2, <2>4, <2>5 DEF Ended, End, Keyword
  <2>7. ASSUME NEW n \in 1..Len(text'), text'[n] = End  PROVE pos' <= n
    <3>1. n = Len(text) + 1 /\ token = End
      BY <1>1, <2>2, <2>3, <2>7
    <3> QED  BY <1>1, <1>3, <1>5, <3>1
  <2>8. pos' \in 1..(Len(text') + 1)
    BY <1>1, <1>3, <2>2
  <2> QED  BY <1>2, <2>6, <2>7, <2>8 DEF Bounded, End, Keyword
<1> QED  BY <1>1, <1>4, <1>5

(* Every step. *)
LEMMA NextBounded == Built /\ Built' /\ Bounded /\ [Next]_vars => Bounded'
<1> SUFFICES ASSUME Built, Built', Bounded, [Next]_vars  PROVE Bounded'
  OBVIOUS
<1>1. text \in Seq(Tokens) /\ text' \in Seq(Tokens)
  BY DEF Built, WellTyped
<1>2. CASE ReadToken
  <2>1. PICK token \in GetToken(SlotTypes, SlotNames) :
          /\ Read(token)
          /\ (Advance(token) /\ NextSlot(token)) \/ Fail
    BY <1>2 DEF ReadToken
  <2>2. (Advance(token) /\ at' \in States /\ pc' = pc) \/ NextFunction
    BY <2>1, StatesKnown DEF NextSlot, Fail
  <2> QED  BY <1>1, <2>1, <2>2, ReadBounded
<1>3. ASSUME NEW reader, NEW part, ReadList(reader, part)  PROVE Bounded'
  <2> DEFINE item == Item[reader]
             types == item[1 + (Len(tree[part]) % Len(item))]
             wanted == IF at = "start" THEN types ELSE {"TK_COMMA", "TK_RPAREN"}
  <2>1. PICK token \in GetToken(wanted, Fields) :
          /\ Read(token)
          /\ \/ Advance(token) /\ (Stay("separator") \/ Stay("start") \/ NextSlot(token))
             \/ Fail
             \/ pc' = "crashed" /\ UNCHANGED <<pos, at>>
    BY <1>3 DEF ReadList
  <2>2. \/ Advance(token) /\ at' \in States /\ pc' = pc
        \/ NextFunction
        \/ pos' = pos /\ at' = at /\ pc' = "crashed"
    BY <2>1, StatesKnown DEF NextSlot, Stay, Fail
  <2> HIDE DEF wanted
  <2> QED  BY <1>1, <2>1, <2>2, ReadBounded
<1>4. ASSUME NEW reader, NEW names,
             NEW edges \in SUBSET (GetColListEdges \cup GetTableListEdges \cup GetExprEdges
                                     \cup GetOrderByEdges),
             ReadPart(reader, edges, names)
      PROVE  Bounded'
  <2>1. PICK token \in GetToken(Behind(edges), names) :
          /\ Read(token)
          /\ \/ \E e \in edges :
                  Advance(token) /\ (IF e.next = "leave" THEN NextSlot(token) ELSE Stay(e.next))
             \/ Advance(token) /\ NextSlot(token)
             \/ Fail
    BY <1>4 DEF ReadPart
  <2>2. (Advance(token) /\ at' \in States /\ pc' = pc) \/ NextFunction
    BY <2>1, StatesKnown DEF NextSlot, Stay, Fail
  <2> QED  BY <1>1, <2>1, <2>2, ReadBounded
<1>5. CASE CallManager
  <2>1. /\ UNCHANGED text
        /\ \/ pc' = "answered" /\ UNCHANGED <<pos, at>>
           \/ NextFunction
    BY <1>5 DEF CallManager
  <2>2. CASE pc' = "answered" /\ UNCHANGED <<pos, at>>
    BY <2>1, <2>2 DEF Bounded, Ended
  <2>3. CASE NextFunction
    <3>1. pos' = 1 /\ at' \in States /\ pc' \in {pc, "answered"}
      BY <2>3, StatesKnown DEF NextFunction
    <3>2. Len(text) \in Nat
      BY <1>1
    <3> QED  BY <2>1, <3>1, <3>2 DEF Bounded, Ended
  <2> QED  BY <2>1, <2>2, <2>3
<1>6. CASE UNCHANGED vars
  BY <1>6 DEF vars, Bounded, Ended
<1>7. CASE ParseAttrTypeList \/ ParseAttrList \/ ParseValueList
  BY <1>3, <1>7 DEF ParseAttrTypeList, ParseAttrList, ParseValueList
<1>8. CASE GetColList \/ GetTableList \/ GetExpr \/ GetOrderBy
  BY <1>4, <1>8 DEF GetColList, GetTableList, GetExpr, GetOrderBy
<1> QED  BY <1>2, <1>5, <1>6, <1>7, <1>8 DEF Next

(* Types; and no function goes on behind the end of a text (GetToken of    *)
(* tokeniz.c does not advance there) or of its own statement.              *)
THEOREM TypeCorrect == Spec => []TypeOK
<1>1. Init => Bounded
  <2> SUFFICES ASSUME Init  PROVE Bounded
    OBVIOUS
  <2>1. text = <<>> /\ pos = 1 /\ at = "start" /\ pc = "parsing"
    BY DEF Init
  <2> QED  BY <2>1, StatesKnown, BoundsAssumption DEF Bounded
<1>2. Built /\ Built' /\ Bounded /\ [Next]_vars => Bounded'
  BY NextBounded
<1>3. ASSUME IInv, Built, Bounded  PROVE TypeOK
  <2>1. text \in Seq(Tokens) /\ tree \in Trees /\ cond \in Half
        /\ slot \in 1..(Len(Slots[Statement]) + 1)
    BY <1>3 DEF Built, WellTyped
  <2>2. \A n \in DOMAIN text : text[n].type \in TokenTypes
    <3>1. \A token \in Tokens : token.type \in TokenTypes
      BY DEF Tokens
    <3>2. \A n \in DOMAIN text : text[n] \in Tokens
      BY <2>1
    <3> QED  BY <3>1, <3>2
  <2>3. Len(text) <= MaxTokens + 1
    BY <1>3, <2>1, BoundsAssumption DEF Bounded, Ended
  <2>4. fn \in DOMAIN Statements
    BY <1>3 DEF IInv, Place, Statements
  <2>5. cond.op \in Comparisons
    BY <2>1 DEF Half, CondType
  <2>6. \A n \in DOMAIN tree.list : None \in {tree.list[n].leftField, tree.list[n].leftValue}
    <3>1. tree.list \in Seq(Whole)
      BY <2>1 DEF Trees
    <3>2. \A n \in DOMAIN tree.list : tree.list[n] \in Whole
      BY <3>1
    <3> QED  BY <3>2 DEF Whole, Half
  <2> QED  BY <1>3, <2>1, <2>2, <2>3, <2>4, <2>5, <2>6 DEF Bounded, TypeOK, States
<1> QED  BY <1>1, <1>2, <1>3, Invariance, InvarianceBuilt, PTL DEF Spec

=============================================================================
