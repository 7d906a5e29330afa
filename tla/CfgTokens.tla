------------------------------ MODULE CfgTokens ------------------------------
(***************************************************************************)
(* The tokeniser of src/src/cfg_parser.c.  A line is a sequence of         *)
(* characters; a letter of the model may stand for a whole word (a         *)
(* keyword, a name).  A token has the position the scan goes on at and     *)
(* says whether it sets l->error, which peeking at it does as well.        *)
(***************************************************************************)
EXTENDS Utils, SequencesExt

CONSTANTS
  Letters,   \* isalpha, and '_'
  Digits,    \* isdigit, as a function to their values
  MaxTok,    \* CFG_MAX_TOK
  MaxNum,    \* 63: what nbuf holds
  IntMax     \* INT64_MAX, at which strtoll saturates

Digit == DOMAIN Digits
Blank == {" ", "\t", "\r"}
End == "end"

ASSUME TokenAssumption ==
  /\ MaxTok \in Nat /\ MaxTok > 1 /\ MaxNum \in Nat /\ MaxNum > 1 /\ IntMax \in Nat
  /\ Letters \cap Digit = {}
  /\ (Letters \cup Digit) \cap (Space \cup {"#", "\"", "\\", "+", "=", "[", "]", ",", "-", ".", End}) = {}

At(s, p) == IF p \in DOMAIN s THEN s[p] ELSE End

\* Where the characters of set that s has from p on end.
After(s, p, set) ==
  CHOOSE q \in p .. Len(s) + 1 :
    /\ q <= Len(s) => s[q] \notin set
    /\ \A r \in p .. q - 1 : s[r] \in set

\* At most n of them.
AfterAtMost(s, p, set, n) ==
  LET q == After(s, p, set) IN IF q > p + n THEN p + n ELSE q

lex_skip_ws(s, p) == After(s, p, Blank)

Token(type, val, p, error) == [type |-> type, val |-> val, p |-> p, error |-> error]

\* What a backslash and c stand for; the backslash dropped, as a slip.
UnescapeSame(c) == c
Unescape(c) == CASE c = "n" -> "\n" [] c = "t" -> "\t" [] OTHER -> c

\* A string literal whose text begins at p: up to the next quote that no
\* backslash stands before, the end of the line, or MaxTok - 1 characters.
\* at[i] is the position after i of them.
StringToken(s, p) ==
  LET escaped(q) == At(s, q) = "\\" /\ At(s, q + 1) # End
      at[i \in 0 .. MaxTok] ==
        IF i = 0 THEN p ELSE at[i - 1] + (IF escaped(at[i - 1]) THEN 2 ELSE 1)
      stops(i) == At(s, at[i]) \in {End, "\""} \/ i = MaxTok - 1
      n == CHOOSE i \in 0 .. MaxTok - 1 : stops(i) /\ \A j \in 0 .. i - 1 : ~ stops(j)
      text == [i \in 1 .. n |-> IF escaped(at[i - 1]) THEN Unescape(s[at[i - 1] + 1])
                                ELSE s[at[i - 1]]]
      closed == At(s, at[n]) = "\""
  IN Token("str", text, IF closed THEN at[n] + 1 ELSE at[n], ~ closed)

\* strtoll, which stops at the limit.
Decimal(digits, limit) ==
  FoldLeft(LAMBDA n, d : IF n * 10 + Digits[d] > limit THEN limit ELSE n * 10 + Digits[d],
           0, digits)

\* The characters of a number are taken one by one; its sign is one of them.
NumberToken(s, p) ==
  LET sign == IF s[p] = "-" THEN 1 ELSE 0
      q == AfterAtMost(s, p + sign, Digit \cup {"."}, MaxNum - sign)
      digits == SubSeq(s, p + sign, q - 1)
      dots == Len(SelectSeq(digits, LAMBDA c : c = "."))
  IN IF dots > 0 THEN Token("float", SubSeq(s, p, q - 1), q, dots > 1)
     ELSE Token("int", IF sign = 1 THEN -Decimal(digits, IntMax + 1)
                       ELSE Decimal(digits, IntMax), q, FALSE)

IdentToken(s, p) ==
  LET q == AfterAtMost(s, p, Letters \cup Digit, MaxTok - 1)
  IN Token("ident", SubSeq(s, p, q - 1), q, FALSE)

Single == [c \in {"#", "+", "=", "[", "]", ","} |->
  CASE c = "#" -> "hash" [] c = "+" -> "plus" [] c = "=" -> "eq"
    [] c = "[" -> "lbracket" [] c = "]" -> "rbracket" [] c = "," -> "comma"]

\* The token that begins at p.
token_at(s, p) ==
  LET c == At(s, p)
      double == c = "+" /\ At(s, p + 1) = "="
  IN CASE c \in {End, "\n"} -> Token("eof", <<>>, p, FALSE)
       [] c = "\"" -> StringToken(s, p + 1)
       [] double -> Token("pluseq", <<>>, p + 2, FALSE)
       [] c \in DOMAIN Single /\ ~ double -> Token(Single[c], <<>>, p + 1, FALSE)
       [] c \in Digit \/ (c = "-" /\ At(s, p + 1) \in Digit) -> NumberToken(s, p)
       [] c \in Letters -> IdentToken(s, p)
       \* no token begins with c: skipped, and the line taken to end here
       [] OTHER -> Token("eof", <<>>, p + 1, FALSE)

next_tok(s, p) == token_at(s, lex_skip_ws(s, p))
=============================================================================
