----------------------------- MODULE TextProofs ------------------------------
(***************************************************************************)
(* GetToken on every text: it stays inside, skips nothing, reads nothing   *)
(* twice and takes words whole.                                            *)
(*                                                                         *)
(* The argument: each loop of GetToken stops at the first character it     *)
(* does not take, and the terminator is one; so a token and the position   *)
(* behind it are where they should be, and the tokens of a text follow one *)
(* another.                                                                *)
(*                                                                         *)
(* Then the conversions: what the id of a row comes back as (IdsComeBack). *)
(***************************************************************************)
EXTENDS Text, SequenceTheorems, WellFoundedInduction, TLAPS

IsText == text \in Seq(Chars)

Types == {"TK_MINUS", "TK_SEMICOLON", "TK_DOT", "TK_EQ", "TK_LE", "TK_NE", "TK_LT", "TK_GE",
          "TK_GT", "TK_OR", "TK_ILLEGAL", "TK_ID", "TK_AS", "VAL_STRING", "VAL_INT", "VAL_FLOAT"}

Tokens == [type : Types, from : Nat, n : Nat, next : Nat]

(* What one call finds, starting from a position in the text or behind it. *)
Placed(k, start) ==
  /\ k.from >= start /\ k.next >= k.from + k.n
  /\ Within(k) \subseteq 1..Len(text)

Covered(k, start) ==
  \A p \in start..(k.next - 1) :
    p \in 1..Len(text) => text[p] \in {" "} \cup Quotes \/ p \in Within(k)

Stops(k) ==
  \/ k.next <= Len(text) + 1
  \/ /\ k.next = Len(text) + 2
     /\ k.type = "TK_ILLEGAL" \/ (k.type = "VAL_STRING" /\ Char(k.next - 1) = Terminator)

WordOK(k) ==
  LET word == [i \in 1..k.n |-> Letter(text[k.from + i - 1])]
  IN  k.type \in {"TK_ID", "TK_AS"} =>
        /\ k.type = "TK_AS" <=> word = <<"A", "S">>
        /\ Char(k.from + k.n) \notin Letters \cup Digits

Found(k, start) ==
  k \in Tokens /\ Placed(k, start) /\ Covered(k, start) /\ Stops(k) /\ WordOK(k)

(* The tokens of a text follow one another. *)
Place ==
  /\ lastSql \in 1..(Len(text) + 2)
  /\ tokens \in Seq(Tokens)
  /\ \A n \in 1..Len(tokens) :
       Placed(tokens[n], 1) /\ tokens[n].next <= lastSql /\ WordOK(tokens[n])
  /\ \A m, n \in 1..Len(tokens) : m < n => tokens[m].next <= tokens[n].from

AllCovered ==
  \A p \in 1..(lastSql - 1) :
    p \in 1..Len(text) =>
      text[p] \in {" "} \cup Quotes \/ \E n \in 1..Len(tokens) : p \in Within(tokens[n])

Ended == lastSql <= Len(text) + 1 \/ (lastSql = Len(text) + 2 /\ (Unclosed \/ AtEnd))

IInv == IsText /\ Place /\ AllCovered /\ Ended

-----------------------------------------------------------------------------
(* A set of natural numbers that is not empty has a least element. *)
LEMMA LeastElement ==
  ASSUME NEW T \in SUBSET Nat, T # {}
  PROVE  \E n \in T : \A m \in T : n <= m
<1> DEFINE R == OpToRel(<, Nat)
<1>1. IsWellFoundedOn(R, Nat)
  BY NatLessThanWellFounded
<1>2. \A m, n \in Nat : <<m, n>> \in R <=> m < n
  BY DEF OpToRel
<1> HIDE DEF R
<1>3. PICK n \in T : \A m \in T : ~(<<m, n>> \in R)
  BY <1>1, WFMin
<1>4. ASSUME NEW m \in T  PROVE n <= m
  <2>1. m \in Nat /\ n \in Nat
    OBVIOUS
  <2>2. ~(m < n)
    BY <1>2, <1>3, <2>1
  <2> QED  BY <2>1, <2>2
<1> QED  BY <1>4

(* The characters, and the terminator behind them. *)
LEMMA Characters ==
  ASSUME IsText
  PROVE  /\ Len(text) \in Nat
         /\ \A i \in Nat \ {0} :
              /\ i <= Len(text) => Char(i) = text[i] /\ Char(i) \in Chars
              /\ i > Len(text) => Char(i) = Terminator
         /\ Terminator \notin Chars
<1>1. Len(text) \in Nat /\ \A i \in 1..Len(text) : text[i] \in Chars
  BY DEF IsText
<1>2. Terminator \notin Chars
  BY DEF Terminator, Chars, Letters, Digits, Quotes, Other
<1> QED  BY <1>1, <1>2 DEF Char

(* A loop of GetToken stops, at the terminator if not before. *)
LEMMA BehindStops ==
  ASSUME IsText, NEW i \in Nat \ {0}, NEW chars, Terminator \notin chars
  PROVE  LET j == Behind(i, chars)
         IN  /\ j \in Nat /\ j >= i
             /\ j = i \/ j <= Len(text) + 1
             /\ Char(j) \notin chars
             /\ \A k \in i..(j - 1) : Char(k) \in chars
<1> DEFINE T == {j \in Nat : j >= i /\ Char(j) \notin chars}
           end == Len(text) + i + 1
           P(j) == Char(j) \notin chars /\ \A k \in i..(j - 1) : Char(k) \in chars
<1>1. Len(text) \in Nat /\ end \in Nat /\ end >= i
  BY Characters
<1>2. Char(end) = Terminator
  BY <1>1, Characters
<1>3. end \in T
  BY <1>1, <1>2
<1>4. PICK j \in T : \A m \in T : j <= m
  <2>1. T \in SUBSET Nat /\ T # {}
    BY <1>3
  <2> HIDE DEF T
  <2> QED  BY <2>1, LeastElement
<1>5. j \in i..end
  BY <1>1, <1>3, <1>4
<1>6. P(j)
  <2>1. ASSUME NEW k \in i..(j - 1)  PROVE Char(k) \in chars
    <3>1. k \in Nat /\ k >= i /\ k < j
      BY <1>5
    <3> QED  BY <1>4, <3>1
  <2> QED  BY <1>4, <2>1
<1>7. Behind(i, chars) = CHOOSE x \in i..end : P(x)
  BY DEF Behind
<1>8. PICK b : b = Behind(i, chars)
  OBVIOUS
<1>9. b \in i..end /\ P(b)
  <2> HIDE DEF P, end
  <2> QED  BY <1>5, <1>6, <1>7, <1>8, Zenon
<1>10. b \in Nat /\ b >= i
  BY <1>1, <1>9
<1>11. b = i \/ b <= Len(text) + 1
  <2> SUFFICES ASSUME b # i  PROVE b <= Len(text) + 1
    OBVIOUS
  <2>1. b - 1 \in i..(b - 1)
    BY <1>10
  <2>2. Char(b - 1) \in chars
    BY <1>9, <2>1
  <2>3. b - 1 \in Nat \ {0}
    BY <1>10
  <2> QED  BY <1>1, <1>10, <2>2, <2>3, Characters
<1> QED  BY <1>8, <1>9, <1>10, <1>11

(* The first character outside a set is in the text, or just behind it. *)
LEMMA BehindInText ==
  ASSUME IsText, NEW i \in Nat \ {0}, i <= Len(text) + 1, NEW chars, Terminator \notin chars
  PROVE  Behind(i, chars) \in i..(Len(text) + 1)
<1>1. PICK j : j = Behind(i, chars)
  OBVIOUS
<1>2. j \in Nat /\ j >= i /\ (j = i \/ j <= Len(text) + 1)
  BY <1>1, BehindStops
<1>3. Len(text) \in Nat
  BY Characters
<1> QED  BY <1>1, <1>2, <1>3

(* What is not the terminator is in the text. *)
LEMMA InText ==
  ASSUME IsText, NEW i \in Nat \ {0}, Char(i) # Terminator
  PROVE  i \in 1..Len(text) /\ Char(i) = text[i]
<1>1. Len(text) \in Nat
  BY Characters
<1>2. i <= Len(text)
  BY <1>1, Characters
<1> QED  BY <1>1, <1>2 DEF Char

-----------------------------------------------------------------------------
(* A token of a known number of characters that starts behind spaces. *)
Spaces(start, i) ==
  /\ i \in Nat /\ i >= start
  /\ \A p \in start..(i - 1) : Char(p) = " "

(* A token that is neither a word nor blank covers what it was read from. *)
LEMMA SignFound ==
  ASSUME IsText, NEW start \in Nat \ {0}, NEW i, Spaces(start, i),
         NEW type \in Types, NEW n \in Nat, n > 0 => i + n - 1 <= Len(text),
         i + n <= Len(text) + 1 \/ (i + n = Len(text) + 2 /\ type = "TK_ILLEGAL"),
         type # "TK_ID", type # "TK_AS"
  PROVE  Found(Sign(type, i, n), start)
<1> DEFINE k == Sign(type, i, n)
<1>1. k = [type |-> type, from |-> i, n |-> n, next |-> i + n]
  BY DEF Sign, Token
<1>a. i \in Nat /\ i >= start
  BY DEF Spaces
<1>b. Len(text) \in Nat
  BY Characters
<1>2. i \in Nat /\ i >= start /\ start \in Nat \ {0} /\ Len(text) \in Nat
  BY <1>a, <1>b
<1> HIDE DEF k
<1>3. Within(k) = i..(i + n - 1)
  BY <1>1 DEF Within
<1>4. k \in Tokens /\ Placed(k, start)
  <2>1. Within(k) \subseteq 1..Len(text)
    BY <1>2, <1>3
  <2> QED  BY <1>1, <1>2, <2>1 DEF Placed, Tokens
<1>5. Covered(k, start)
  <2> SUFFICES ASSUME NEW p \in start..(k.next - 1), p \in 1..Len(text)
               PROVE  text[p] \in {" "} \cup Quotes \/ p \in Within(k)
    BY DEF Covered
  <2>1. k.next = i + n /\ i + n \in Nat
    BY <1>1, <1>2
  <2>2. p \in Nat /\ p >= start /\ p <= i + n - 1 /\ p <= Len(text)
    BY <1>2, <2>1
  <2>3. CASE p < i
    <3>1. p \in start..(i - 1)
      BY <1>2, <2>2, <2>3
    <3>2. Char(p) = " "
      BY <3>1 DEF Spaces
    <3> QED  BY <2>2, <3>2 DEF Char
  <2>4. CASE p >= i
    <3>1. p \in i..(i + n - 1)
      BY <1>2, <2>2, <2>4
    <3> QED  BY <1>3, <3>1, Zenon
  <2>5. p < i \/ p >= i
    BY <1>2, <2>2
  <2> QED  BY <2>3, <2>4, <2>5, Zenon
<1>6. Stops(k)
  BY <1>1 DEF Stops
<1>7. WordOK(k)
  BY <1>1 DEF WordOK
<1> QED  BY <1>4, <1>5, <1>6, <1>7 DEF Found, k

(* A sign, or a character that no token starts with. *)
LEMMA OperatorFound ==
  ASSUME IsText, NEW start \in Nat \ {0}, NEW i, Spaces(start, i),
         i <= Len(text) + 1 \/ i = Len(text) + 2
  PROVE  Found(Operator(i), start)
<1>a. i \in Nat /\ i >= start
  BY DEF Spaces
<1>b. Len(text) \in Nat
  BY Characters
<1>1. i \in Nat \ {0} /\ i >= start /\ Len(text) \in Nat
  BY <1>a, <1>b
<1>2. /\ i <= Len(text) => Char(i) \in Chars
      /\ i > Len(text) => Char(i) = Terminator
      /\ i + 1 > Len(text) => Char(i + 1) = Terminator
  BY <1>1, Characters
<1>3. Char(i) # Terminator => i <= Len(text)
  BY <1>1, <1>2
<1>4. Char(i + 1) # Terminator => i + 1 <= Len(text)
  BY <1>1, <1>2
<1>5. Found(Illegal(i), start)
  <2>1. i + 0 <= Len(text) + 1 \/ i + 0 = Len(text) + 2
    BY <1>1
  <2>2. Found(Sign("TK_ILLEGAL", i, 0), start)
    BY <2>1, SignFound DEF Types
  <2> QED  BY <2>2 DEF Illegal
<1>6. ASSUME NEW type \in Types, type # "TK_ID", type # "TK_AS", Char(i) # Terminator
      PROVE  Found(Sign(type, i, 1), start)
  BY <1>1, <1>3, <1>6, SignFound
<1>7. ASSUME NEW type \in Types, type # "TK_ID", type # "TK_AS", Char(i + 1) # Terminator
      PROVE  Found(Sign(type, i, 2), start)
  BY <1>1, <1>4, <1>7, SignFound
<1> DEFINE types == Types \ {"TK_ID", "TK_AS"}
<1>8. \/ Operator(i) = Illegal(i)
      \/ Char(i) # Terminator /\ \E type \in types : Operator(i) = Sign(type, i, 1)
      \/ Char(i + 1) # Terminator /\ \E type \in types : Operator(i) = Sign(type, i, 2)
  BY DEF Operator, Terminator, Types
<1>9. \A type \in types : type \in Types /\ type # "TK_ID" /\ type # "TK_AS"
  OBVIOUS
<1> HIDE DEF types
<1> QED  BY <1>5, <1>6, <1>7, <1>8, <1>9

(* A string ends at its closing quote, or without one at the terminator. *)
LEMMA QuotedFound ==
  ASSUME IsText, NEW start \in Nat \ {0}, NEW i, Spaces(start, i),
         Char(i) \in Quotes
  PROVE  Found(Quoted(i), start)
<1>a. i \in Nat /\ i >= start
  BY DEF Spaces
<1>b. Len(text) \in Nat
  BY Characters
<1>1. i \in Nat \ {0} /\ i >= start /\ Len(text) \in Nat
  BY <1>a, <1>b
<1>2. i <= Len(text)
  BY <1>1, Characters DEF Quotes, Terminator
<1> DEFINE others == Chars \ {Char(i)}
           j == Behind(i + 1, others)
<1>3. Terminator \notin others /\ i + 1 \in Nat \ {0}
  BY <1>1, Characters
<1>4. /\ j \in Nat /\ j >= i + 1
      /\ j = i + 1 \/ j <= Len(text) + 1
      /\ Char(j) \notin others
  <2> HIDE DEF others
  <2> QED  BY <1>3, BehindStops
<1>5. Quoted(i) = [type |-> "VAL_STRING", from |-> i + 1, n |-> j - i - 1, next |-> j + 1]
  BY DEF Quoted, Token
<1> HIDE DEF j
<1>6. j <= Len(text) + 1
  BY <1>1, <1>2, <1>4
<1>7. j <= Len(text) => Char(j) = Char(i)
  BY <1>1, <1>4, Characters
<1> DEFINE k == Quoted(i)
<1>8. Within(k) = (i + 1)..(j - 1)
  BY <1>1, <1>4, <1>5 DEF Within
<1>9. k \in Tokens /\ Placed(k, start)
  <2>1. Within(k) \subseteq 1..Len(text)
    BY <1>1, <1>4, <1>6, <1>8
  <2> QED  BY <1>1, <1>4, <1>5, <2>1 DEF Placed, Tokens, Types
<1>10. Covered(k, start)
  <2> SUFFICES ASSUME NEW p \in start..(k.next - 1), p \in 1..Len(text)
               PROVE  text[p] \in {" "} \cup Quotes \/ p \in Within(k)
    BY DEF Covered
  <2>1. k.next = j + 1
    BY <1>5
  <2>2. p \in Nat /\ p >= start /\ p <= j /\ p <= Len(text)
    BY <1>1, <1>4, <2>1
  <2>3. Char(p) = text[p]
    BY <2>2 DEF Char
  <2>4. CASE p < i
    <3>1. p \in start..(i - 1)
      BY <1>1, <2>2, <2>4
    <3>2. Char(p) = " "
      BY <3>1 DEF Spaces
    <3> QED  BY <2>3, <3>2
  <2>5. CASE p = i
    BY <2>3, <2>5
  <2>6. CASE p > i /\ p < j
    <3>1. p \in (i + 1)..(j - 1)
      BY <1>1, <1>4, <2>2, <2>6
    <3> QED  BY <1>8, <3>1, Zenon
  <2>7. CASE p = j
    BY <1>7, <2>2, <2>3, <2>7
  <2>8. p < i \/ p = i \/ (p > i /\ p < j) \/ p = j
    BY <1>1, <1>4, <2>2
  <2> QED  BY <2>4, <2>5, <2>6, <2>7, <2>8, Zenon
<1>11. Stops(k)
  <2>1. CASE j <= Len(text)
    BY <1>1, <1>4, <1>5, <2>1 DEF Stops
  <2>2. CASE j = Len(text) + 1
    <3>1. Char(j) = Terminator
      BY <1>1, <1>4, <2>2, Characters
    <3> QED  BY <1>1, <1>4, <1>5, <2>2, <3>1 DEF Stops
  <2> QED  BY <1>1, <1>4, <1>6, <2>1, <2>2
<1>12. WordOK(k)
  BY <1>5 DEF WordOK
<1> QED  BY <1>9, <1>10, <1>11, <1>12 DEF Found

(* A number: its loops and its two looks ahead stay in the text. *)
LEMMA NumberFound ==
  ASSUME IsText, NEW start \in Nat \ {0}, NEW i, Spaces(start, i), Char(i) # Terminator
  PROVE  Found(Number(i, start), start)
<1>a. i \in Nat /\ i >= start
  BY DEF Spaces
<1>b. Len(text) \in Nat
  BY Characters
<1>1. i \in Nat \ {0} /\ i >= start /\ Len(text) \in Nat
  BY <1>a, <1>b
<1>2. i <= Len(text)
  BY <1>1, InText
<1>3. Terminator \notin Digits
  BY DEF Terminator, Digits
<1> DEFINE j == Behind(i + 1, Digits)
           k == IF Char(j) = "." THEN Behind(j + 1, Digits) ELSE j
           m == IF Exponent(k) THEN Behind(k + 2, Digits) ELSE k
           isFloat == Char(j) = "." \/ (~Exponent(k) /\ Char(start) = ".")
           type == IF isFloat THEN "VAL_FLOAT" ELSE "VAL_INT"
<1>4. j \in (i + 1)..(Len(text) + 1)
  <2>1. i + 1 \in Nat \ {0} /\ i + 1 <= Len(text) + 1
    BY <1>1, <1>2
  <2> QED  BY <1>3, <2>1, BehindInText
<1> HIDE DEF j
<1>5. k \in (i + 1)..(Len(text) + 1)
  <2> SUFFICES ASSUME Char(j) = "."  PROVE Behind(j + 1, Digits) \in (i + 1)..(Len(text) + 1)
    BY <1>4
  <2>1. j \in Nat \ {0}
    BY <1>1, <1>4
  <2>2. j \in 1..Len(text)
    BY <2>1, InText DEF Terminator
  <2>3. j + 1 \in Nat \ {0} /\ j + 1 <= Len(text) + 1
    BY <1>1, <2>2
  <2>4. Behind(j + 1, Digits) \in (j + 1)..(Len(text) + 1)
    BY <1>3, <2>3, BehindInText
  <2> QED  BY <1>1, <1>4, <2>4
<1> HIDE DEF k
<1>6. m \in (i + 1)..(Len(text) + 1)
  <2> SUFFICES ASSUME Exponent(k)  PROVE Behind(k + 2, Digits) \in (i + 1)..(Len(text) + 1)
    BY <1>5
  <2>1. k + 1 \in Nat \ {0}
    BY <1>1, <1>5
  <2>2. Char(k + 1) # Terminator
    BY DEF Exponent, Digits, Terminator
  <2>3. k + 1 \in 1..Len(text)
    BY <2>1, <2>2, InText
  <2>4. k + 2 \in Nat \ {0} /\ k + 2 <= Len(text) + 1
    BY <1>1, <1>5, <2>3
  <2>5. Behind(k + 2, Digits) \in (k + 2)..(Len(text) + 1)
    BY <1>3, <2>4, BehindInText
  <2> QED  BY <1>1, <1>5, <2>5
<1> HIDE DEF m
<1>7. Number(i, start) = Sign(type, i, m - i)
  BY DEF Number, j, k, m
<1>8. type \in Types /\ type # "TK_ID" /\ type # "TK_AS"
  BY DEF Types
<1> HIDE DEF type
<1>9. /\ m - i \in Nat
      /\ m - i > 0 => i + (m - i) - 1 <= Len(text)
      /\ i + (m - i) <= Len(text) + 1
  BY <1>1, <1>6
<1>10. Found(Sign(type, i, m - i), start)
  BY <1>8, <1>9, SignFound
<1> QED  BY <1>7, <1>10

-----------------------------------------------------------------------------
(* keywordTable is asked for the word, and answers for that word alone. *)
LEMMA KeywordCode ==
  ASSUME NEW word
  PROVE  GetKeywordCode(word) = IF StringCompareIC(word, <<"A", "S">>) THEN "TK_AS" ELSE "TK_ID"
<1> DEFINE entry == [name |-> <<"A", "S">>, type |-> "TK_AS"]
           matches == {k \in Keywords : StringCompareIC(word, k.name)}
<1>1. Keywords = {entry} /\ entry.name = <<"A", "S">> /\ entry.type = "TK_AS"
  BY DEF Keywords
<1> HIDE DEF entry
<1>2. GetKeywordCode(word) = IF matches = {} THEN "TK_ID" ELSE (CHOOSE k \in matches : TRUE).type
  BY DEF GetKeywordCode
<1>3. CASE StringCompareIC(word, <<"A", "S">>)
  <2>1. matches = {entry}
    BY <1>1, <1>3
  <2>2. (CHOOSE k \in matches : TRUE) = entry
    BY <2>1
  <2>3. matches # {}
    BY <2>1
  <2> HIDE DEF matches
  <2> QED  BY <1>1, <1>2, <1>3, <2>2, <2>3
<1>4. CASE ~StringCompareIC(word, <<"A", "S">>)
  <2>1. matches = {}
    BY <1>1, <1>4
  <2> HIDE DEF matches
  <2> QED  BY <1>2, <1>4, <2>1
<1> QED  BY <1>3, <1>4

(* Two words are the same to StringCompareIC when their letters are. *)
LEMMA Spelled ==
  ASSUME NEW word \in Seq(Chars)
  PROVE  StringCompareIC(word, <<"A", "S">>)
           <=> [n \in 1..Len(word) |-> Letter(word[n])] = <<"A", "S">>
<1> DEFINE upper == [n \in 1..Len(word) |-> Letter(word[n])]
           name  == <<"A", "S">>
<1>1. /\ Len(word) \in Nat /\ DOMAIN word = 1..Len(word)
      /\ \A n \in 1..Len(word) : word[n] \in Chars
  OBVIOUS
<1>2. /\ \A c \in Chars : Letter(c) = "A" <=> c \in Letters /\ toupper[c] = "A"
      /\ \A c \in Chars : Letter(c) = "S" <=> c \in Letters /\ toupper[c] = "S"
  BY DEF Chars, Letters, Digits, Quotes, Other, Letter, toupper
<1>3. Len(name) = 2 /\ DOMAIN name = 1..2 /\ name[1] = "A" /\ name[2] = "S"
  OBVIOUS
<1>4. ASSUME Len(word) = 2, NEW n \in 1..2
      PROVE  Letter(word[n]) = name[n] <=> word[n] \in Letters /\ toupper[word[n]] = name[n]
  <2>1. word[n] \in Chars
    BY <1>1, <1>4
  <2>2. n = 1 \/ n = 2
    OBVIOUS
  <2> QED  BY <1>2, <1>3, <2>1, <2>2
<1>5. ASSUME Len(word) = 2, \A n \in 1..2 : upper[n] = name[n]  PROVE upper = name
  <2>1. upper = [n \in 1..2 |-> Letter(word[n])] /\ name = [n \in 1..2 |-> name[n]]
    BY <1>3, <1>5
  <2> QED  BY <1>5, <2>1
<1>6. ASSUME upper = name  PROVE Len(word) = 2
  <2>1. DOMAIN upper = 1..Len(word)
    OBVIOUS
  <2>2. 1..Len(word) = 1..2
    BY <1>3, <1>6, <2>1
  <2> QED  BY <1>1, <2>2
<1>7. StringCompareIC(word, name)
        <=> Len(word) = 2 /\ \A n \in 1..2 : word[n] \in Letters /\ toupper[word[n]] = name[n]
  BY <1>1, <1>3 DEF StringCompareIC
<1>8. ASSUME Len(word) = 2, NEW n \in 1..2  PROVE upper[n] = Letter(word[n])
  BY <1>8
<1> HIDE DEF upper, name
<1>9. upper = name <=> Len(word) = 2 /\ \A n \in 1..2 : Letter(word[n]) = name[n]
  BY <1>5, <1>6, <1>8
<1>10. StringCompareIC(word, name) <=> upper = name
  BY <1>4, <1>7, <1>9
<1> QED  BY <1>10 DEF upper, name

(* A word ends where the next character does not belong to it. *)
LEMMA WordFound ==
  ASSUME IsText, NEW start \in Nat \ {0}, NEW i, Spaces(start, i), Char(i) # Terminator
  PROVE  Found(Word(i), start)
<1>a. i \in Nat /\ i >= start
  BY DEF Spaces
<1>b. Len(text) \in Nat
  BY Characters
<1>1. i \in Nat \ {0} /\ i >= start /\ Len(text) \in Nat
  BY <1>a, <1>b
<1>2. i <= Len(text)
  BY <1>1, InText
<1> DEFINE chars == Letters \cup Digits
           j == Behind(i + 1, chars)
           word == SubSeq(text, i, j - 1)
           k == Word(i)
<1>3. Terminator \notin chars
  BY DEF Terminator, Letters, Digits
<1>4. j \in (i + 1)..(Len(text) + 1) /\ Char(j) \notin chars
  <2> HIDE DEF chars
  <2>1. i + 1 \in Nat \ {0} /\ i + 1 <= Len(text) + 1
    BY <1>1, <1>2
  <2> QED  BY <1>3, <2>1, BehindInText, BehindStops
<1> HIDE DEF j
<1>5. /\ word \in Seq(Chars) /\ Len(word) = j - i
      /\ \A n \in 1..(j - i) : word[n] = text[i + n - 1]
  <2>1. text \in Seq(Chars)
    BY DEF IsText
  <2>2. i \in 1..(Len(text) + 1) /\ j - 1 \in (i - 1)..Len(text)
    BY <1>1, <1>2, <1>4
  <2> DEFINE n == j - 1
  <2>3. n \in (i - 1)..Len(text) /\ n - i + 1 = j - i /\ j - i \in Nat /\ i <= n + 1
    BY <1>1, <1>4, <2>2
  <2>4. word = SubSeq(text, i, n)
    OBVIOUS
  <2> HIDE DEF n, word
  <2>5. i \in Int /\ n \in Int /\ \A m \in i..n : text[m] \in Chars
    BY <1>1, <2>1, <2>2, <2>3
  <2>6. /\ word \in Seq(Chars)
        /\ Len(word) = IF i <= n THEN n - i + 1 ELSE 0
        /\ \A m \in 1..(n - i + 1) : word[m] = text[i + m - 1]
    BY <2>5, <2>4, SubSeqProperties
  <2>7. (IF i <= n THEN n - i + 1 ELSE 0) = j - i
    BY <1>1, <2>2, <2>3
  <2> QED  BY <2>3, <2>6, <2>7
<1> HIDE DEF word
<1>6. k = [type |-> GetKeywordCode(word), from |-> i, n |-> j - i, next |-> i + (j - i)]
  BY DEF Word, Sign, Token, j, word
<1>7. GetKeywordCode(word) \in {"TK_AS", "TK_ID"}
      /\ (GetKeywordCode(word) = "TK_AS" <=> StringCompareIC(word, <<"A", "S">>))
  BY KeywordCode
<1> HIDE DEF k
<1>8. k.from = i /\ k.n = j - i /\ k.next = j /\ k.type = GetKeywordCode(word)
  BY <1>1, <1>4, <1>6
<1>9. j - i \in Nat
  BY <1>1, <1>4
<1>10. Placed(k, start) /\ Covered(k, start)
  <2>1. /\ j - i \in Nat
        /\ j - i > 0 => i + (j - i) - 1 <= Len(text)
        /\ i + (j - i) <= Len(text) + 1
    BY <1>1, <1>4
  <2>2. "VAL_INT" \in Types
    BY DEF Types
  <2>3. Found(Sign("VAL_INT", i, j - i), start)
    BY <2>1, <2>2, SignFound
  <2> DEFINE s == Sign("VAL_INT", i, j - i)
  <2>4. s.from = k.from /\ s.n = k.n /\ s.next = k.next
    BY <1>6 DEF Sign, Token
  <2> HIDE DEF s
  <2>5. Within(s) = Within(k)
    BY <2>4 DEF Within
  <2> QED  BY <2>3, <2>4, <2>5 DEF Found, Placed, Covered, s
<1>11. Stops(k)
  BY <1>4, <1>8 DEF Stops
<1>12. WordOK(k)
  <2>1. [n \in 1..k.n |-> Letter(text[k.from + n - 1])] = [n \in 1..Len(word) |-> Letter(word[n])]
    BY <1>5, <1>8
  <2>2. k.from + k.n = j
    BY <1>1, <1>4, <1>8
  <2>3. StringCompareIC(word, <<"A", "S">>)
          <=> [n \in 1..k.n |-> Letter(text[k.from + n - 1])] = <<"A", "S">>
    BY <1>5, <2>1, Spelled
  <2> QED  BY <1>4, <1>7, <1>8, <2>2, <2>3 DEF WordOK
<1>13. k \in Tokens
  BY <1>1, <1>4, <1>6, <1>7 DEF Tokens, Types
<1> QED  BY <1>10, <1>11, <1>12, <1>13 DEF Found, k

(* One call of GetToken, from any position in the text or behind it. *)
LEMMA NextTokenFound ==
  ASSUME IsText, NEW start \in 1..(Len(text) + 2)
  PROVE  Found(NextToken(start), start)
<1> DEFINE i == Behind(start, {" "})
<1>1. Len(text) \in Nat
  BY Characters
<1>2. start \in Nat \ {0} /\ Terminator \notin {" "}
  BY <1>1 DEF Terminator
<1>3. /\ i \in Nat /\ i >= start /\ (i = start \/ i <= Len(text) + 1)
      /\ \A p \in start..(i - 1) : Char(p) \in {" "}
  BY <1>2, BehindStops
<1> HIDE DEF i
<1>4. Spaces(start, i)
  BY <1>3 DEF Spaces
<1>5. i <= Len(text) + 1 \/ i = Len(text) + 2
  <2>1. start <= Len(text) + 1 \/ start = Len(text) + 2
    BY <1>1
  <2>2. i = start \/ i <= Len(text) + 1
    BY <1>3
  <2> QED  BY <2>1, <2>2, Zenon
<1>6. CASE Char(i) \in Quotes
  <2>1. NextToken(start) = Quoted(i)
    BY <1>6 DEF NextToken, i, Quotes, Digits, Letters
  <2> QED  BY <1>2, <1>4, <1>6, <2>1, QuotedFound
<1>7. CASE Char(i) \in Digits \/ (Char(i) = "." /\ Char(i + 1) \in Digits)
  <2>1. NextToken(start) = Number(i, start)
    BY <1>7 DEF NextToken, i, Quotes, Digits, Letters
  <2>2. Char(i) # Terminator
    BY <1>7 DEF Digits, Terminator
  <2> QED  BY <1>2, <1>4, <2>1, <2>2, NumberFound
<1>8. CASE Char(i) \in Letters
  <2>1. NextToken(start) = Word(i)
    BY <1>8 DEF NextToken, i, Quotes, Digits, Letters
  <2>2. Char(i) # Terminator
    BY <1>8 DEF Letters, Terminator
  <2> QED  BY <1>2, <1>4, <2>1, <2>2, WordFound
<1>9. CASE /\ Char(i) \notin Quotes /\ Char(i) \notin Letters
           /\ ~(Char(i) \in Digits \/ (Char(i) = "." /\ Char(i + 1) \in Digits))
  <2>1. NextToken(start) = Operator(i)
    BY <1>9 DEF NextToken, i
  <2> QED  BY <1>2, <1>4, <1>5, <2>1, OperatorFound
<1> QED  BY <1>6, <1>7, <1>8, <1>9

-----------------------------------------------------------------------------
(* No token has been read at first, and nothing of the text. *)
LEMMA InitIInv == Init => IInv
<1> SUFFICES ASSUME Init  PROVE IInv
  OBVIOUS
<1>1. PICK m \in 0..MaxLength : text \in [1..m -> Chars]
  BY DEF Init, BoundedSeq, SeqOf
<1>2. m \in Nat
  BY <1>1, TextAssumption
<1>3. IsText /\ Len(text) = m
  BY <1>1, <1>2 DEF IsText
<1>4. lastSql = 1 /\ tokens = <<>> /\ Len(tokens) = 0
  BY DEF Init
<1>5. Place
  BY <1>2, <1>3, <1>4 DEF Place
<1>6. AllCovered /\ Ended
  BY <1>2, <1>3, <1>4 DEF AllCovered, Ended
<1> QED  BY <1>3, <1>5, <1>6 DEF IInv

(* A call adds its token behind the others. *)
LEMMA NextIInv == IInv /\ [GetToken]_vars => IInv'
<1> SUFFICES ASSUME IInv, [GetToken]_vars  PROVE IInv'
  OBVIOUS
<1>1. CASE UNCHANGED vars
  <2>1. text' = text /\ lastSql' = lastSql /\ tokens' = tokens
    BY <1>1 DEF vars
  <2>2. IsText' /\ AllCovered'
    BY <2>1 DEF IInv, IsText, AllCovered
  <2>3. Place'
    BY <2>1 DEF IInv, Place, Placed, WordOK, Char
  <2>4. Ended'
    <3>1. (Unclosed <=> Unclosed') /\ (AtEnd <=> AtEnd')
      BY <2>1 DEF Unclosed, AtEnd, Char
    <3> QED  BY <2>1, <3>1 DEF IInv, Ended
  <2> QED  BY <2>2, <2>3, <2>4 DEF IInv
<1>2. CASE GetToken
  <2> DEFINE k == NextToken(lastSql)
             last == Len(tokens) + 1
  <2>1. IsText /\ lastSql \in 1..(Len(text) + 2) /\ Len(text) \in Nat
    BY Characters DEF IInv, Place
  <2>2. Found(k, lastSql)
    BY <2>1, NextTokenFound
  <2>3. tokens' = Append(tokens, k) /\ lastSql' = k.next /\ UNCHANGED text
    BY <1>2 DEF GetToken
  <2> HIDE DEF k
  <2>4. k \in Tokens /\ Placed(k, lastSql) /\ Covered(k, lastSql) /\ Stops(k) /\ WordOK(k)
    BY <2>2 DEF Found
  <2>5. k.from \in Nat /\ k.n \in Nat /\ k.next \in Nat
    BY <2>4 DEF Tokens
  <2>6. k.from >= lastSql /\ k.next >= k.from + k.n /\ Within(k) \subseteq 1..Len(text)
    BY <2>4 DEF Placed
  <2>7. tokens \in Seq(Tokens) /\ Len(tokens) \in Nat
    BY DEF IInv, Place
  <2>8. /\ tokens' \in Seq(Tokens) /\ Len(tokens') = last /\ tokens'[last] = k
        /\ \A n \in 1..Len(tokens) : tokens'[n] = tokens[n]
    BY <2>3, <2>4, <2>7
  <2>9. \A n \in 1..last : n \in 1..Len(tokens) \/ n = last
    BY <2>7
  <2>10. lastSql' \in lastSql..(Len(text) + 2)
    BY <2>1, <2>3, <2>4, <2>5, <2>6 DEF Stops
  <2>11. Placed(k, 1)
    BY <2>1, <2>5, <2>6 DEF Placed
  <2>12. IsText'
    BY <2>1, <2>3 DEF IsText
  <2>13. \A n \in 1..Len(tokens) :
           Placed(tokens[n], 1) /\ tokens[n].next <= lastSql /\ WordOK(tokens[n])
           /\ tokens[n] \in Tokens
    BY <2>7 DEF IInv, Place
  <2>14. \A n \in 1..Len(tokens') :
           Placed(tokens'[n], 1) /\ tokens'[n].next <= lastSql' /\ WordOK(tokens'[n])
    <3> SUFFICES ASSUME NEW n \in 1..last
                 PROVE  Placed(tokens'[n], 1) /\ tokens'[n].next <= lastSql' /\ WordOK(tokens'[n])
      BY <2>8
    <3>1. CASE n = last
      BY <2>3, <2>4, <2>5, <2>8, <2>11, <3>1
    <3>2. CASE n \in 1..Len(tokens)
      <4>1. tokens[n].next \in Nat /\ tokens[n].next <= lastSql
        BY <2>13, <3>2 DEF Tokens
      <4>2. tokens[n].next <= lastSql'
        BY <2>1, <2>10, <4>1
      <4> QED  BY <2>8, <2>13, <3>2, <4>2
    <3> QED  BY <2>9, <3>1, <3>2
  <2>15. \A m, n \in 1..Len(tokens') : m < n => tokens'[m].next <= tokens'[n].from
    <3> SUFFICES ASSUME NEW m \in 1..last, NEW n \in 1..last, m < n
                 PROVE  tokens'[m].next <= tokens'[n].from
      BY <2>8
    <3>1. m \in 1..Len(tokens)
      BY <2>7
    <3>2. CASE n = last
      <4>1. tokens[m].next \in Nat /\ tokens[m].next <= lastSql
        BY <2>13, <3>1 DEF Tokens
      <4> QED  BY <2>1, <2>5, <2>6, <2>8, <3>1, <3>2, <4>1
    <3>3. CASE n \in 1..Len(tokens)
      BY <2>8, <3>1, <3>3 DEF IInv, Place
    <3> QED  BY <2>9, <3>2, <3>3
  <2>16. Place'
    <3>1. lastSql' \in 1..(Len(text') + 2)
      BY <2>1, <2>3, <2>10
    <3>2. \A n \in 1..Len(tokens') :
            (Placed(tokens[n], 1) /\ tokens[n].next <= lastSql /\ WordOK(tokens[n]))'
      <4> SUFFICES ASSUME NEW n \in 1..Len(tokens')
                   PROVE  (Placed(tokens[n], 1) /\ tokens[n].next <= lastSql /\ WordOK(tokens[n]))'
        OBVIOUS
      <4>1. Placed(tokens'[n], 1) /\ tokens'[n].next <= lastSql' /\ WordOK(tokens'[n])
        BY <2>14
      <4>2. Placed(tokens[n], 1)'
        BY <2>3, <4>1 DEF Placed, Within
      <4>3. WordOK(tokens[n])'
        BY <2>3, <4>1 DEF WordOK, Char
      <4> QED  BY <4>1, <4>2, <4>3
    <3> QED  BY <2>8, <2>15, <3>1, <3>2 DEF Place
  <2>17. AllCovered'
    <3> SUFFICES ASSUME NEW p \in 1..(lastSql' - 1), p \in 1..Len(text)
                 PROVE  text[p] \in {" "} \cup Quotes
                          \/ \E n \in 1..Len(tokens') : p \in Within(tokens'[n])
      BY <2>3 DEF AllCovered, Within
    <3>1. p \in 1..(lastSql - 1) \/ p \in lastSql..(k.next - 1)
      BY <2>1, <2>3, <2>5
    <3>2. CASE p \in 1..(lastSql - 1)
      <4>1. text[p] \in {" "} \cup Quotes \/ \E n \in 1..Len(tokens) : p \in Within(tokens[n])
        BY <3>2 DEF IInv, AllCovered
      <4>2. ASSUME NEW n \in 1..Len(tokens), p \in Within(tokens[n])
            PROVE  n \in 1..Len(tokens') /\ p \in Within(tokens'[n])
        BY <2>7, <2>8, <4>2
      <4> QED  BY <4>1, <4>2
    <3>3. CASE p \in lastSql..(k.next - 1)
      <4>1. text[p] \in {" "} \cup Quotes \/ p \in Within(k)
        BY <2>4, <3>3 DEF Covered
      <4>2. last \in 1..Len(tokens')
        BY <2>7, <2>8
      <4> QED  BY <2>8, <4>1, <4>2
    <3> QED  BY <3>1, <3>2, <3>3
  <2>18. Ended'
    <3>1. tokens' # <<>> /\ Last(tokens') = k
      <4>1. tokens'[Len(tokens')] = k /\ Len(tokens') >= 1
        BY <2>7, <2>8
      <4> QED  BY <2>8, <4>1 DEF Last
    <3>2. CASE k.next <= Len(text) + 1
      BY <2>3, <3>2 DEF Ended
    <3>3. CASE k.next = Len(text) + 2 /\ k.type = "TK_ILLEGAL"
      BY <2>3, <3>1, <3>3 DEF Ended, AtEnd
    <3>4. CASE k.next = Len(text) + 2 /\ k.type = "VAL_STRING" /\ Char(k.next - 1) = Terminator
      <4>1. Char(lastSql - 1)' = Terminator
        BY <2>3, <3>4 DEF Char
      <4> QED  BY <2>3, <3>1, <3>4, <4>1 DEF Ended, Unclosed
    <3> QED  BY <2>4, <3>2, <3>3, <3>4 DEF Stops
  <2> QED  BY <2>12, <2>16, <2>17, <2>18 DEF IInv
<1> QED  BY <1>1, <1>2

(***************************************************************************)
(* GetToken keeps its tokens in order, whatever the text and however long. *)
(***************************************************************************)
THEOREM Invariance == Spec => []IInv
<1> QED  BY InitIInv, NextIInv, PTL DEF Spec

(***************************************************************************)
(* No token has characters from behind the text, and GetToken stops at the *)
(* terminator, or one position behind it after an unclosed string: its     *)
(* looks ahead never carry it further.                                     *)
(***************************************************************************)
THEOREM InsideText == Spec => []StaysInText
<1>1. IInv => StaysInText
  <2> SUFFICES ASSUME IInv  PROVE StaysInText
    OBVIOUS
  <2>1. DOMAIN tokens = 1..Len(tokens) /\ DOMAIN text = 1..Len(text)
    BY DEF IInv, IsText, Place
  <2>2. \A n \in DOMAIN tokens : Within(tokens[n]) \subseteq DOMAIN text
    BY <2>1 DEF IInv, Place, Placed
  <2> QED  BY <2>2 DEF IInv, Ended, StaysInText
<1> QED  BY <1>1, Invariance, PTL

(***************************************************************************)
(* Nothing a client types is skipped or read twice: up to where the text   *)
(* has been read, each character is a space, a quote around a string or in *)
(* exactly one token.                                                      *)
(***************************************************************************)
THEOREM EachCharacterOnce == Spec => []NothingSkipped
<1>1. IInv => NothingSkipped
  <2> SUFFICES ASSUME IInv  PROVE NothingSkipped
    OBVIOUS
  <2>1. DOMAIN tokens = 1..Len(tokens) /\ DOMAIN text = 1..Len(text) /\ Len(tokens) \in Nat
    BY DEF IInv, IsText, Place
  <2>2. ASSUME NEW m \in DOMAIN tokens, NEW n \in DOMAIN tokens, m < n
        PROVE  Within(tokens[m]) \cap Within(tokens[n]) = {}
    <3>1. tokens[m].next <= tokens[n].from
      BY <2>1, <2>2 DEF IInv, Place
    <3>2. tokens[m].next >= tokens[m].from + tokens[m].n
      BY <2>1 DEF IInv, Place, Placed
    <3>3. tokens[m] \in Tokens /\ tokens[n] \in Tokens
      BY <2>1 DEF IInv, Place
    <3> QED  BY <3>1, <3>2, <3>3 DEF Tokens, Within
  <2>3. ASSUME NEW m \in DOMAIN tokens, NEW n \in DOMAIN tokens,
               Within(tokens[m]) \cap Within(tokens[n]) # {}
        PROVE  m = n
    <3>1. m \in Nat /\ n \in Nat
      BY <2>1
    <3>2. ~(m < n) /\ ~(n < m)
      BY <2>2, <2>3
    <3> QED  BY <3>1, <3>2
  <2> QED  BY <2>1, <2>3 DEF IInv, AllCovered, NothingSkipped
<1> QED  BY <1>1, Invariance, PTL

(***************************************************************************)
(* A word is taken for a keyword if it spells it out, in either case, and  *)
(* only then; a word ends where the next character does not belong to it.  *)
(***************************************************************************)
THEOREM WholeWords == Spec => []WordsWhole
<1>1. IInv => WordsWhole
  <2> SUFFICES ASSUME IInv  PROVE WordsWhole
    OBVIOUS
  <2>1. DOMAIN tokens = 1..Len(tokens)
    BY DEF IInv, Place
  <2>2. \A n \in DOMAIN tokens : WordOK(tokens[n])
    BY <2>1 DEF IInv, Place
  <2> QED  BY <2>2 DEF WordsWhole, WordOK
<1> QED  BY <1>1, Invariance, PTL

-----------------------------------------------------------------------------
(* Induction over the natural numbers, for sets. *)
LEMMA SetInduction ==
  ASSUME NEW T \in SUBSET Nat, 0 \in T, \A n \in T : n + 1 \in T
  PROVE  T = Nat
<1> SUFFICES ASSUME Nat \ T # {}  PROVE FALSE
  OBVIOUS
<1>1. PICK n \in Nat \ T : \A m \in Nat \ T : n <= m
  BY LeastElement
<1>2. n # 0 /\ n - 1 \in Nat
  OBVIOUS
<1>3. n - 1 \in T
  BY <1>1, <1>2
<1>4. (n - 1) + 1 = n
  BY <1>2
<1> QED  BY <1>3, <1>4

(* An int that is not negative is not changed. *)
LEMMA NoWrap == ASSUME NEW x \in 0..INT_MAX PROVE Wrap(x) = x
<1>1. INT_MAX \in Nat
  BY TextAssumption
<1>2. x + INT_MAX + 1 \in Nat /\ 2 * (INT_MAX + 1) \in Nat /\ x + INT_MAX + 1 < 2 * (INT_MAX + 1)
  BY <1>1
<1>3. \A a, b \in Nat : a < b => a % b = a
  OBVIOUS
<1>4. (x + INT_MAX + 1) % (2 * (INT_MAX + 1)) = x + INT_MAX + 1
  BY <1>2, <1>3
<1> QED  BY <1>1, <1>4 DEF Wrap

(* Division by ten, as the loop of IntToString goes. *)
LEMMA Tenth ==
  ASSUME NEW x \in Nat
  PROVE  /\ x % 10 \in 0..9 /\ x \div 10 \in Nat
         /\ (x \div 10) * 10 + (x % 10) = x
         /\ x # 0 => x \div 10 < x
  OBVIOUS

(* The recursive function of Reversed is what its equation says. *)
LEMMA ReversedEquation ==
  ASSUME NEW x \in Nat
  PROVE  \E f : /\ Reversed(x) = f[x]
                /\ \A y \in 0..x : f[y] = IF y = 0 THEN <<>> ELSE <<y % 10>> \o f[y \div 10]
<1> DEFINE Sol(n, f) == f = [y \in 0..n |-> IF y = 0 THEN <<>> ELSE <<y % 10>> \o f[y \div 10]]
           T == {n \in Nat : \E f : Sol(n, f)}
<1>1. 0 \in T
  <2>1. Sol(0, [y \in 0..0 |-> <<>>])
    BY \A y \in 0..0 : y = 0
  <2> QED  BY <2>1
<1>2. ASSUME NEW n \in T PROVE n + 1 \in T
  <2>1. PICK f : Sol(n, f)
    OBVIOUS
  <2> DEFINE g == [y \in 0..n+1 |-> IF y = n + 1 THEN <<y % 10>> \o f[y \div 10] ELSE f[y]]
  <2>2. n \in Nat /\ n + 1 \in Nat /\ n + 1 # 0
    OBVIOUS
  <2>3. ASSUME NEW y \in 0..n+1
        PROVE  g[y] = IF y = 0 THEN <<>> ELSE <<y % 10>> \o g[y \div 10]
    <3>1. y = 0 \/ (y \div 10 \in 0..n /\ y \div 10 # n + 1 /\ y \div 10 \in 0..n+1)
      BY <2>2, Tenth
    <3>2. y # 0 => g[y \div 10] = f[y \div 10]
      BY <3>1
    <3>3. CASE y = n + 1
      BY <2>2, <3>2, <3>3
    <3>4. CASE y # n + 1
      <4>1. y \in 0..n
        BY <2>2, <3>4
      <4>2. f[y] = IF y = 0 THEN <<>> ELSE <<y % 10>> \o f[y \div 10]
        BY <2>1, <4>1
      <4> QED  BY <3>2, <3>4, <4>2
    <3> QED  BY <3>3, <3>4
  <2>4. g = [y \in 0..n+1 |-> g[y]]
    OBVIOUS
  <2> HIDE DEF g
  <2>5. Sol(n + 1, g)
    BY <2>3, <2>4
  <2> QED  BY <2>2, <2>5
<1>3. T = Nat
  <2>1. T \in SUBSET Nat
    OBVIOUS
  <2> HIDE DEF T
  <2> QED  BY <1>1, <1>2, <2>1, SetInduction
<1> DEFINE digits == CHOOSE f : Sol(x, f)
<1>4. Sol(x, digits)
  <2>1. \E f : Sol(x, f)
    BY <1>3
  <2> HIDE DEF Sol
  <2> QED  BY <2>1
<1>5. Reversed(x) = digits[x]
  BY DEF Reversed
<1> HIDE DEF digits
<1>6. \A y \in 0..x : digits[y] = IF y = 0 THEN <<>> ELSE <<y % 10>> \o digits[y \div 10]
  BY <1>4
<1> QED  BY <1>5, <1>6

(* d are the digits the loop finds, z what is left of x before each. *)
Divided(x, d, z) ==
  /\ d \in Seq(0..9) /\ z[0] = x /\ z[Len(d)] = 0
  /\ \A j \in 0..Len(d) : z[j] \in 0..x
  /\ \A j \in 1..Len(d) : z[j - 1] = z[j] * 10 + d[j]

(* The digits Reversed finds are those of the divisions by ten. *)
LEMMA ReversedDivides == ASSUME NEW x \in Nat PROVE \E z : Divided(x, Reversed(x), z)
<1>1. PICK f : /\ Reversed(x) = f[x]
               /\ \A y \in 0..x : f[y] = IF y = 0 THEN <<>> ELSE <<y % 10>> \o f[y \div 10]
  BY ReversedEquation
<1> DEFINE Good(y) == \E z : Divided(y, f[y], z)
           T == {n \in Nat : \A y \in 0..n : y <= x => Good(y)}
<1>2. Good(0)
  <2>1. f[0] = <<>>
    <3>1. PICK y \in 0..x : y = 0
      OBVIOUS
    <3> QED  BY <1>1, <3>1
  <2> DEFINE z == [j \in {0} |-> 0]
  <2>2. z[0] = 0 /\ <<>> \in Seq(0..9) /\ Len(<<>>) = 0
    OBVIOUS
  <2>3. (\A j \in 0..0 : j = 0) /\ (\A j \in 1..0 : FALSE) /\ 0 \in 0..0
    OBVIOUS
  <2> HIDE DEF z
  <2>4. Divided(0, <<>>, z)
    BY <2>2, <2>3 DEF Divided
  <2> QED  BY <2>1, <2>4
<1>3. ASSUME NEW y \in 1..x, Good(y \div 10) PROVE Good(y)
  <2> DEFINE t == y \div 10
             e == f[t]
  <2>1. y \in Nat /\ y # 0 /\ t \in Nat /\ t < y /\ y % 10 \in 0..9 /\ t * 10 + (y % 10) = y
    BY Tenth
  <2>2. f[y] = <<y % 10>> \o e
    <3>1. y \in 0..x
      OBVIOUS
    <3>2. f[y] = IF y = 0 THEN <<>> ELSE <<y % 10>> \o f[y \div 10]
      BY <1>1, <3>1
    <3> QED  BY <2>1, <3>2
  <2>3. PICK w : Divided(t, e, w)
    BY <1>3
  <2> HIDE DEF t, e
  <2>4. e \in Seq(0..9) /\ Len(e) \in Nat
    BY <2>3 DEF Divided
  <2> DEFINE d == <<y % 10>> \o e
             z == [j \in 0..Len(e)+1 |-> IF j = 0 THEN y ELSE w[j - 1]]
  <2>5. /\ d \in Seq(0..9) /\ Len(d) = Len(e) + 1 /\ d[1] = y % 10
        /\ \A j \in 2..Len(e)+1 : d[j] = e[j - 1]
    BY <2>1, <2>4
  <2>6. z[0] = y /\ \A j \in 1..Len(e)+1 : z[j] = w[j - 1]
    BY <2>4
  <2> HIDE DEF d, z
  <2>7. z[Len(d)] = 0
    BY <2>3, <2>4, <2>5, <2>6 DEF Divided
  <2>8. ASSUME NEW j \in 0..Len(d) PROVE z[j] \in 0..y
    <3>1. CASE j = 0
      BY <2>1, <2>6, <3>1
    <3>2. CASE j # 0
      <4>1. j \in 1..Len(e)+1 /\ j - 1 \in 0..Len(e)
        BY <2>4, <2>5, <3>2
      <4>2. w[j - 1] \in 0..t
        BY <2>3, <4>1 DEF Divided
      <4> QED  BY <2>1, <2>6, <4>1, <4>2
    <3> QED  BY <3>1, <3>2
  <2>9. ASSUME NEW j \in 1..Len(d) PROVE z[j - 1] = z[j] * 10 + d[j]
    <3>1. CASE j = 1
      <4>1. w[0] = t /\ 1 \in 1..Len(e)+1
        BY <2>3, <2>4 DEF Divided
      <4>2. z[1] = t
        BY <2>6, <4>1
      <4> QED  BY <2>1, <2>5, <2>6, <3>1, <4>2
    <3>2. CASE j # 1
      <4>1. /\ j \in 2..Len(e)+1 /\ j \in 1..Len(e)+1 /\ j - 1 \in 1..Len(e)+1
            /\ j - 1 \in 1..Len(e)
        BY <2>4, <2>5, <3>2
      <4>2. w[(j - 1) - 1] = w[j - 1] * 10 + e[j - 1]
        BY <2>3, <4>1 DEF Divided
      <4>3. z[j] = w[j - 1] /\ z[j - 1] = w[(j - 1) - 1] /\ d[j] = e[j - 1]
        BY <2>5, <2>6, <4>1
      <4> QED  BY <4>2, <4>3
    <3> QED  BY <3>1, <3>2
  <2>10. Divided(y, d, z)
    BY <2>5, <2>6, <2>7, <2>8, <2>9 DEF Divided
  <2> QED  BY <2>2, <2>10 DEF d
<1> HIDE DEF Good
<1>4. 0 \in T
  BY <1>2
<1>5. ASSUME NEW n \in T PROVE n + 1 \in T
  <2>1. ASSUME NEW y \in 0..n+1, y <= x PROVE Good(y)
    <3>1. CASE y = 0
      BY <1>2, <3>1
    <3>2. CASE y # 0
      <4>1. y \in 1..x /\ y \in Nat /\ n \in Nat
        BY <2>1, <3>2
      <4>2. y \div 10 \in 0..n /\ y \div 10 <= x
        BY <3>2, <4>1, Tenth
      <4> QED  BY <1>3, <4>1, <4>2
    <3> QED  BY <3>1, <3>2
  <2>2. n + 1 \in Nat
    OBVIOUS
  <2> QED  BY <2>1, <2>2
<1>6. T = Nat
  <2>1. T \in SUBSET Nat
    OBVIOUS
  <2> HIDE DEF T
  <2> QED  BY <1>4, <1>5, <2>1, SetInduction
<1>7. Good(x)
  BY <1>6
<1> QED  BY <1>1, <1>7 DEF Good

(* Without a sign the exchanges turn the digits round and leave the rest. *)
LEMMA TurnedRound ==
  ASSUME NEW i \in Nat, NEW tmp, DOMAIN tmp = 0..(i + 1), NEW q \in 0..(i + 1)
  PROVE  Turned(tmp, i, 0)[q] = IF q < i THEN tmp[i - 1 - q] ELSE tmp[q]
<1> DEFINE h == i \div 2
           half == 0..(0 + h - 1)
           p == i - 1 + 2 * 0 - q
<1>1. h \in Nat /\ 2 * h <= i /\ i <= 2 * h + 1
  OBVIOUS
<1>2. Turned(tmp, i, 0)[q] = IF q \in half \/ p \in half THEN tmp[p] ELSE tmp[q]
  BY DEF Turned
<1> HIDE DEF h
<1>3. CASE q >= i
  <2>1. q \notin half /\ p \notin half /\ ~(q < i)
    BY <1>1, <1>3
  <2> QED  BY <1>2, <2>1
<1>4. CASE q < i
  <2>1. p = i - 1 - q
    OBVIOUS
  <2>2. q \in half \/ p \in half \/ p = q
    BY <1>1, <1>4
  <2> QED  BY <1>2, <1>4, <2>1, <2>2
<1> QED  BY <1>3, <1>4

(* The digits of a number that is not negative, the first first. *)
LEMMA Spells ==
  ASSUME NEW x \in Nat, NEW d, d = Reversed(x), d \in Seq(0..9)
  PROVE  IntToString(x) = IF Len(d) = 0 THEN <<0>> ELSE [q \in 1..Len(d) |-> d[Len(d) + 1 - q]]
<1> DEFINE i == Len(d) + 0
           tmp == [q \in 0..(i + 1) |-> IF q < 0 THEN MINUS ELSE IF q < i THEN d[q - 0 + 1] ELSE NUL]
           string == Turned(tmp, i, 0)
           Ends(n) == string[n] = NUL /\ \A m \in 0..(n - 1) : string[m] # NUL
           strlen == CHOOSE n \in DOMAIN string : Ends(n)
<1>1. IntToString(x) = IF strlen = 0 THEN <<0>> ELSE [q \in 1..strlen |-> string[q - 1]]
  BY ~(x < 0) DEF IntToString
<1>2. i \in Nat /\ i = Len(d)
  OBVIOUS
<1>3. DOMAIN tmp = 0..(i + 1) /\ DOMAIN string = 0..(i + 1)
  BY DEF Turned
<1>4. \A q \in 0..(i + 1) : tmp[q] = IF q < i THEN d[q + 1] ELSE NUL
  BY <1>2
<1> HIDE DEF tmp, i
<1>5. ASSUME NEW q \in 0..(i + 1)
      PROVE  string[q] = IF q < i THEN d[i - q] ELSE NUL
  <2>1. string[q] = IF q < i THEN tmp[i - 1 - q] ELSE tmp[q]
    BY <1>2, <1>3, TurnedRound
  <2>2. q < i => i - 1 - q \in 0..(i + 1) /\ i - 1 - q < i /\ (i - 1 - q) + 1 = i - q
    BY <1>2
  <2> QED  BY <1>4, <2>1, <2>2
<1> HIDE DEF string
<1>6. \A q \in 0..(i - 1) : string[q] = d[i - q] /\ d[i - q] \in 0..9
  BY <1>2, <1>5
<1>7. Ends(i) /\ i \in DOMAIN string
  <2>1. i \in 0..(i + 1) /\ ~(i < i)
    BY <1>2
  <2>2. string[i] = NUL
    BY <1>5, <2>1
  <2>3. NUL \notin 0..9
    BY DEF NUL
  <2>4. \A m \in 0..(i - 1) : string[m] # NUL
    BY <1>6, <2>3
  <2> QED  BY <1>3, <2>1, <2>2, <2>4
<1>8. ASSUME NEW n \in DOMAIN string, Ends(n) PROVE n = i
  <2>1. n \in 0..(i + 1)
    BY <1>3
  <2>2. ~(n < i)
    <3>1. n < i => n \in 0..(i - 1)
      BY <1>2, <2>1
    <3> QED  BY <1>6, <1>8, <3>1 DEF NUL
  <2>3. ~(i < n)
    <3>1. i < n => i \in 0..(n - 1)
      BY <1>2, <2>1
    <3> QED  BY <1>7, <1>8, <3>1
  <2> QED  BY <1>2, <2>1, <2>2, <2>3
<1>9. strlen = i
  <2> HIDE DEF Ends
  <2> QED  BY <1>7, <1>8
<1> HIDE DEF strlen
<1>10. ASSUME NEW q \in 1..i PROVE string[q - 1] = d[i + 1 - q]
  <2>1. q - 1 \in 0..(i - 1) /\ i - (q - 1) = i + 1 - q
    BY <1>2
  <2> QED  BY <1>6, <2>1
<1>11. [q \in 1..strlen |-> string[q - 1]] = [q \in 1..i |-> d[i + 1 - q]]
  BY <1>9, <1>10
<1> QED  BY <1>1, <1>2, <1>9, <1>11

(* The loop of StringToInt, digit by digit. *)
LEMMA ValueEquation ==
  ASSUME NEW s \in Seq(0..9)
  PROVE  \E value : /\ StringToInt(s) = value[Len(s)] /\ value[0] = 0
                    /\ \A n \in 1..Len(s) : value[n] = Wrap(value[n - 1] * 10 + s[n])
<1> DEFINE Sol(n, f) == f = [m \in 0..n |-> IF m = 0 THEN 0 ELSE Wrap(f[m - 1] * 10 + s[m])]
           T == {n \in Nat : \E f : Sol(n, f)}
<1>1. 0 \in T
  <2>1. Sol(0, [m \in 0..0 |-> 0])
    BY \A m \in 0..0 : m = 0
  <2> QED  BY <2>1
<1>2. ASSUME NEW n \in T PROVE n + 1 \in T
  <2>1. PICK f : Sol(n, f)
    OBVIOUS
  <2> DEFINE g == [m \in 0..n+1 |-> IF m = n + 1 THEN Wrap(f[m - 1] * 10 + s[m]) ELSE f[m]]
  <2>2. n \in Nat /\ n + 1 \in Nat /\ n + 1 # 0
    OBVIOUS
  <2>3. ASSUME NEW m \in 0..n+1
        PROVE  g[m] = IF m = 0 THEN 0 ELSE Wrap(g[m - 1] * 10 + s[m])
    <3>1. m = 0 \/ (m - 1 \in 0..n /\ m - 1 # n + 1 /\ m - 1 \in 0..n+1)
      BY <2>2
    <3>2. m # 0 => g[m - 1] = f[m - 1]
      BY <3>1
    <3>3. CASE m = n + 1
      BY <2>2, <3>2, <3>3
    <3>4. CASE m # n + 1
      <4>1. m \in 0..n
        BY <2>2, <3>4
      <4>2. f[m] = IF m = 0 THEN 0 ELSE Wrap(f[m - 1] * 10 + s[m])
        BY <2>1, <4>1
      <4> QED  BY <3>2, <3>4, <4>2
    <3> QED  BY <3>3, <3>4
  <2>4. g = [m \in 0..n+1 |-> g[m]]
    OBVIOUS
  <2> HIDE DEF g
  <2>5. Sol(n + 1, g)
    BY <2>3, <2>4
  <2> QED  BY <2>2, <2>5
<1>3. T = Nat
  <2>1. T \in SUBSET Nat
    OBVIOUS
  <2> HIDE DEF T
  <2> QED  BY <1>1, <1>2, <2>1, SetInduction
<1> DEFINE value == CHOOSE f : Sol(Len(s), f)
<1>4. Sol(Len(s), value)
  <2>1. \E f : Sol(Len(s), f)
    BY <1>3
  <2> HIDE DEF Sol
  <2> QED  BY <2>1
<1>5. StringToInt(s) = value[Len(s)]
  <2>1. ~(s # <<>> /\ s[1] = MINUS)
    BY DEF MINUS
  <2> QED  BY <2>1 DEF StringToInt
<1> HIDE DEF value
<1>6. value[0] = 0 /\ \A n \in 1..Len(s) : value[n] = Wrap(value[n - 1] * 10 + s[n])
  <2>1. \A m \in 0..Len(s) : value[m] = IF m = 0 THEN 0 ELSE Wrap(value[m - 1] * 10 + s[m])
    BY <1>4
  <2>2. Len(s) \in Nat
    OBVIOUS
  <2> QED  BY <2>1, <2>2
<1> QED  BY <1>5, <1>6

(* After n digits the loop of StringToInt has what was left of x before    *)
(* the loop of IntToString found these; so no product overflows.           *)
LEMMA ComesBack == ASSUME NEW x \in 0..INT_MAX PROVE atoi(IntToString(x)) = x
<1> DEFINE d == Reversed(x)
           L == Len(d)
           s == IntToString(x)
<1>1. x \in Nat /\ INT_MAX \in Nat
  BY TextAssumption
<1>2. PICK z : Divided(x, d, z)
  BY <1>1, ReversedDivides
<1>3. d \in Seq(0..9) /\ L \in Nat
  BY <1>2 DEF Divided
<1>4. s = IF L = 0 THEN <<0>> ELSE [q \in 1..L |-> d[L + 1 - q]]
  BY <1>1, <1>3, Spells
<1> HIDE DEF d, s
<1>5. CASE L = 0
  <2>1. s = <<0>> /\ x = 0
    BY <1>2, <1>4, <1>5 DEF Divided
  <2>2. s \in Seq(0..9) /\ Len(s) = 1 /\ s[1] = 0 /\ 1 \in 1..1 /\ 1 - 1 = 0
    BY <2>1
  <2>3. PICK value : /\ StringToInt(s) = value[Len(s)] /\ value[0] = 0
                     /\ \A n \in 1..Len(s) : value[n] = Wrap(value[n - 1] * 10 + s[n])
    BY <2>2, ValueEquation
  <2>4. value[1] = Wrap(0 * 10 + 0)
    BY <2>2, <2>3
  <2>5. 0 * 10 + 0 = 0 /\ 0 \in 0..INT_MAX
    BY <1>1
  <2>6. Wrap(0 * 10 + 0) = 0
    BY <2>5, NoWrap
  <2> QED  BY <2>1, <2>2, <2>3, <2>4, <2>6 DEF atoi, s
<1>6. CASE L # 0
  <2>1. \A q \in 1..L : L + 1 - q \in 1..L /\ d[L + 1 - q] \in 0..9
    BY <1>3
  <2>2. s \in Seq(0..9) /\ Len(s) = L /\ \A q \in 1..L : s[q] = d[L + 1 - q]
    BY <1>3, <1>4, <1>6, <2>1
  <2>3. PICK value : /\ StringToInt(s) = value[L] /\ value[0] = 0
                     /\ \A n \in 1..L : value[n] = Wrap(value[n - 1] * 10 + s[n])
    BY <2>2, ValueEquation
  <2> DEFINE T == {n \in Nat : n <= L => value[n] = z[L - n]}
  <2>4. 0 \in T
    BY <1>2, <1>3, <2>3 DEF Divided
  <2>5. ASSUME NEW n \in T PROVE n + 1 \in T
    <3> SUFFICES ASSUME n + 1 <= L PROVE value[n + 1] = z[L - (n + 1)]
      OBVIOUS
    <3>1. /\ n \in Nat /\ n + 1 \in 1..L /\ (n + 1) - 1 = n /\ L - n \in 1..L
          /\ L + 1 - (n + 1) = L - n /\ (L - n) - 1 = L - (n + 1) /\ L - (n + 1) \in 0..L /\ n <= L
      BY <1>3
    <3>2. value[n] = z[L - n] /\ s[n + 1] = d[L - n]
      BY <2>2, <3>1
    <3>3. z[L - (n + 1)] = z[L - n] * 10 + d[L - n] /\ z[L - (n + 1)] \in 0..x
      BY <1>2, <3>1 DEF Divided
    <3>4. value[n + 1] = Wrap(z[L - (n + 1)])
      BY <2>3, <3>1, <3>2, <3>3
    <3>5. z[L - (n + 1)] \in 0..INT_MAX
      BY <1>1, <3>3
    <3> QED  BY <3>4, <3>5, NoWrap
  <2>6. T = Nat
    <3>1. T \in SUBSET Nat
      OBVIOUS
    <3> HIDE DEF T
    <3> QED  BY <2>4, <2>5, <3>1, SetInduction
  <2>7. value[L] = z[L - L] /\ L - L = 0
    BY <1>3, <2>6
  <2>8. value[L] = x
    BY <1>2, <2>7 DEF Divided
  <2> QED  BY <2>3, <2>8 DEF atoi, s
<1> QED  BY <1>5, <1>6

(***************************************************************************)
(* The id of a row comes back from its digits, whatever the width of an    *)
(* int: as many rows as an int counts have keys of their own in the index. *)
(***************************************************************************)
THEOREM IdsComeBack == Spec => []IdsRoundTrip
<1>1. RoundTrips
  BY ComesBack DEF RoundTrips
<1>2. IdsRoundTrip
  BY <1>1 DEF IdsRoundTrip
<1> QED  BY <1>2, PTL

=============================================================================
