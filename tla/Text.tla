-------------------------------- MODULE Text ---------------------------------
(***************************************************************************)
(* The text of a statement under GetToken of src/tokeniz.c, and the        *)
(* conversions of src/utils.c between digits and numbers.                  *)
(*                                                                         *)
(* A text is a sequence of characters with a terminator behind it.  The    *)
(* characters are representatives of what the code tells apart: ";" stands *)
(* for all that are a token by themselves, "$" for those no token starts   *)
(* with.                                                                   *)
(***************************************************************************)
EXTENDS Integers, FiniteSets, SequencesExt

CONSTANTS MaxLength,  \* bound: the length of a text
          INT_MAX     \* the greatest int, all but the first of the bits

ASSUME TextAssumption == MaxLength \in Nat /\ INT_MAX \in Nat

VARIABLES text,
          lastSql,  \* the position GetToken starts from
          tokens    \* the tokens it has handed over

vars == <<text, lastSql, tokens>>

Letters == {"a", "S", "e"}
Digits  == {"0", "1"}
Quotes  == {"'"}
Other   == {" ", ".", "-", "=", "<", ">", "!", "|", ";", "$"}
Chars   == Letters \cup Digits \cup Quotes \cup Other

toupper == [a |-> "A", S |-> "S", e |-> "E"]

Terminator == "\\0"

(* The buffer is cleared before a statement is read into it. *)
Char(i) == IF i <= Len(text) THEN text[i] ELSE Terminator

(* The first position from i on whose character is not one of these. *)
Behind(i, chars) ==
  CHOOSE j \in i..(Len(text) + i + 1) :
    Char(j) \notin chars /\ \A k \in i..(j - 1) : Char(k) \in chars

-----------------------------------------------------------------------------
(* keywordTable, as far as these letters spell it. *)
Keywords == {[name |-> <<"A", "S">>, type |-> "TK_AS"]}

(* Slip: a word that starts like a keyword is taken for it. *)
StringCompareICSlip(word, name) ==
  \A n \in DOMAIN word \cap DOMAIN name :
    IF word[n] \in Letters THEN toupper[word[n]] = name[n] ELSE FALSE

(* StringCompareIC is 0: the same letters in either case, and as many. *)
StringCompareIC(word, name) ==
  /\ Len(word) = Len(name)
  /\ \A n \in DOMAIN word : word[n] \in Letters /\ toupper[word[n]] = name[n]

GetKeywordCode(word) ==
  LET matches == {k \in Keywords : StringCompareIC(word, k.name)}
  IN  IF matches = {} THEN "TK_ID" ELSE (CHOOSE k \in matches : TRUE).type

(* A token: where its characters start, how many there are, and where the  *)
(* next call starts.                                                       *)
Token(type, from, n, next) == [type |-> type, from |-> from, n |-> n, next |-> next]

(* Slip: the last character of a token is read again. *)
SignSlip(type, i, n) == Token(type, i, n, i + n - 1)

Sign(type, i, n) == Token(type, i, n, i + n)
Illegal(i)       == Sign("TK_ILLEGAL", i, 0)

Operator(i) ==
  LET c == Char(i)  d == Char(i + 1)
  IN  CASE c = "-" -> IF d = Terminator THEN Illegal(i) ELSE Sign("TK_MINUS", i, 1)
        [] c = ";" -> Sign("TK_SEMICOLON", i, 1)
        [] c = "." -> Sign("TK_DOT", i, 1)
        [] c = "=" -> Sign("TK_EQ", i, IF d = "=" THEN 2 ELSE 1)
        [] c = "<" -> IF d = "=" THEN Sign("TK_LE", i, 2)
                      ELSE IF d = ">" THEN Sign("TK_NE", i, 2) ELSE Sign("TK_LT", i, 1)
        [] c = ">" -> IF d = "=" THEN Sign("TK_GE", i, 2) ELSE Sign("TK_GT", i, 1)
        [] c = "!" -> IF d = "=" THEN Sign("TK_NE", i, 2) ELSE Illegal(i)
        [] c = "|" -> IF d = "|" THEN Sign("TK_OR", i, 2) ELSE Illegal(i)
        [] OTHER   -> Illegal(i)

(* Slip: the closing quote is skipped once more than it was read. *)
QuotedSlip(i) ==
  LET j == Behind(i + 1, Chars \ {Char(i)})
  IN  Token("VAL_STRING", i + 1, j - i - 1, j + 2)

(* A string ends at the quote it began with or at the end of the text. *)
Quoted(i) ==
  LET j == Behind(i + 1, Chars \ {Char(i)})
  IN  Token("VAL_STRING", i + 1, j - i - 1, j + 1)

(* Slip: an "e" behind digits is taken for an exponent without a look. *)
ExponentSlip(j) == Char(j) = "e"

Exponent(j) ==
  /\ Char(j) = "e"
  /\ \/ Char(j + 1) \in Digits
     \/ Char(j + 1) = "-" /\ Char(j + 2) \in Digits

(* Digits, a fraction, an exponent; whether a number that starts with a    *)
(* dot is a FLOAT is decided by the character the call started from, which *)
(* may be a space.                                                         *)
Number(i, start) ==
  LET j == Behind(i + 1, Digits)
      k == IF Char(j) = "." THEN Behind(j + 1, Digits) ELSE j
      m == IF Exponent(k) THEN Behind(k + 2, Digits) ELSE k
      isFloat == Char(j) = "." \/ (~Exponent(k) /\ Char(start) = ".")
  IN  Sign(IF isFloat THEN "VAL_FLOAT" ELSE "VAL_INT", i, m - i)

Word(i) ==
  LET j == Behind(i + 1, Letters \cup Digits)
  IN  Sign(GetKeywordCode(SubSeq(text, i, j - 1)), i, j - i)

NextToken(start) ==
  LET i == Behind(start, {" "})
  IN  CASE Char(i) \in Quotes  -> Quoted(i)
        [] Char(i) \in Digits \/ (Char(i) = "." /\ Char(i + 1) \in Digits) -> Number(i, start)
        [] Char(i) \in Letters -> Word(i)
        [] OTHER               -> Operator(i)

Init ==
  /\ text \in BoundedSeq(Chars, MaxLength)
  /\ lastSql = 1
  /\ tokens = <<>>

(* Nothing comes after a token that no character starts. *)
AtEnd == tokens # <<>> /\ Last(tokens).type = "TK_ILLEGAL"

GetToken ==
  /\ ~AtEnd
  /\ Len(tokens) <= MaxLength
  /\ tokens' = Append(tokens, NextToken(lastSql))
  /\ lastSql' = NextToken(lastSql).next
  /\ UNCHANGED text

Spec == Init /\ [][GetToken]_vars /\ WF_vars(GetToken)

-----------------------------------------------------------------------------
(* Conversions of utils.c.  A string is a sequence of digits, with MINUS   *)
(* for the sign; an int wraps.                                             *)
MINUS == -1
NUL   == -2

Wrap(x) == ((x + INT_MAX + 1) % (2 * (INT_MAX + 1))) - (INT_MAX + 1)

(* What start_client reads the port with. *)
StringToInt(s) ==
  LET isNegative == s # <<>> /\ s[1] = MINUS
      digits == IF isNegative THEN Tail(s) ELSE s
      value[n \in 0..Len(digits)] == IF n = 0 THEN 0 ELSE Wrap(value[n - 1] * 10 + digits[n])
      r == value[Len(digits)]
  IN  IF isNegative THEN Wrap(-r) ELSE r

(* The C library's, which the manager reads values with: on digits it is no *)
(* different.                                                               *)
atoi(s) == StringToInt(s)

(* The digits of x as the loop finds them, the last first. *)
Reversed(x) ==
  LET digits[y \in 0..x] == IF y = 0 THEN <<>> ELSE <<y % 10>> \o digits[y \div 10]
  IN  digits[x]

(* Slip: one exchange too few. *)
TurnedSlip(tmp, i, k) ==
  LET half == k..(k + (i \div 2) - 2)
      p(q) == i - 1 + 2 * k - q
  IN  [q \in DOMAIN tmp |-> IF q \in half \/ p(q) \in half THEN tmp[p(q)] ELSE tmp[q]]

(* The exchanges that turn the first i characters of tmp round, except that *)
(* i counts the sign and the sign is left out: with one, the terminator is  *)
(* exchanged too.                                                           *)
Turned(tmp, i, k) ==
  LET half == k..(k + (i \div 2) - 1)
      p(q) == i - 1 + 2 * k - q
  IN  [q \in DOMAIN tmp |-> IF q \in half \/ p(q) \in half THEN tmp[p(q)] ELSE tmp[q]]

IntToString(x) ==
  LET k      == IF x < 0 THEN 1 ELSE 0
      digits == Reversed(IF x < 0 THEN -x ELSE x)
      i      == Len(digits) + k
      tmp    == [q \in 0..(i + 1) |-> IF q < k THEN MINUS
                                      ELSE IF q < i THEN digits[q - k + 1] ELSE NUL]
      string == Turned(tmp, i, k)
      strlen == CHOOSE n \in DOMAIN string : string[n] = NUL /\ \A m \in 0..(n - 1) : string[m] # NUL
  IN  IF strlen = 0 THEN <<0>> ELSE [q \in 1..strlen |-> string[q - 1]]

-----------------------------------------------------------------------------
(* The characters of a token. *)
Within(k) == k.from .. (k.from + k.n - 1)

(***************************************************************************)
(* No token has characters from behind the text, and GetToken stops at the *)
(* terminator, one position behind it after a string without its closing   *)
(* quote: the code looks up to two characters ahead and skips two quotes   *)
(* it may not have seen.                                                   *)
(***************************************************************************)
Unclosed ==
  tokens # <<>> /\ Last(tokens).type = "VAL_STRING" /\ Char(lastSql - 1) = Terminator

StaysInText ==
  /\ \A n \in DOMAIN tokens : Within(tokens[n]) \subseteq DOMAIN text
  /\ lastSql <= Len(text) + 1 \/ (lastSql = Len(text) + 2 /\ (Unclosed \/ AtEnd))

(***************************************************************************)
(* Nothing a client types is skipped or read twice: up to where the text   *)
(* has been read, each character is a space, a quote around a string or in *)
(* one token.                                                              *)
(***************************************************************************)
NothingSkipped ==
  /\ \A m, n \in DOMAIN tokens : Within(tokens[m]) \cap Within(tokens[n]) # {} => m = n
  /\ \A i \in 1..(lastSql - 1) :
       i \in DOMAIN text =>
         \/ text[i] \in {" "} \cup Quotes
         \/ \E n \in DOMAIN tokens : i \in Within(tokens[n])

(***************************************************************************)
(* A word is taken for a keyword if it spells it out, in either case, and  *)
(* only then; a word ends where the next character does not belong to it.  *)
(***************************************************************************)
Letter(c) == IF c \in Letters THEN toupper[c] ELSE c

WordsWhole ==
  \A n \in DOMAIN tokens :
    LET k == tokens[n]
        word == [i \in 1..k.n |-> Letter(text[k.from + i - 1])]
    IN  k.type \in {"TK_ID", "TK_AS"} =>
          /\ k.type = "TK_AS" <=> word = <<"A", "S">>
          /\ Char(k.from + k.n) \notin Letters \cup Digits

(* Every text comes to its end, empty strings and stray signs included.    *)
TextEnds == <>AtEnd

(* The same in every state: conversions do not depend on a text. *)
RoundTrips ==
  \A x \in 0..INT_MAX : atoi(IntToString(x)) = x

(***************************************************************************)
(* ManagerInsert gives a new row the digits of dataNum as its id, and       *)
(* atoi of them as its key in the index: it is the number again, for as    *)
(* many rows as an int counts.  Checked before the first token is read.    *)
(***************************************************************************)
IdsRoundTrip == tokens = <<>> => RoundTrips

=============================================================================
