---------------------------- MODULE MCAlgorithms ----------------------------
(***************************************************************************)
(* Pure algorithms over bounded inputs, which grow a piece at a time: a    *)
(* line token by token (CfgTokens), the bytes of a CRC one by one (Crc32c),*)
(* two words that have a beginning in common letter by letter (Hash79).    *)
(***************************************************************************)
EXTENDS CfgTokens, Crc32c, Hash79, TLC

CONSTANTS
  MaxToks,    \* bound: the tokens of a line
  Bytes,      \* the bytes that data begins with, FreeBytes of them at most
  FreeBytes,
  Filler,     \* the byte it goes on with, to MaxBytes bytes
  MaxBytes,
  Codes,      \* the characters words end with, MaxLetters of them at most
  Begins,     \* the lengths of the beginning, of characters Begin
  Begin,
  MaxLetters

\* Two characters of a word have different values (the comment above hash_b79).
ASSUME WordsAssumption ==
  /\ Begins \subseteq Nat
  /\ Codes \cup {Begin} \subseteq 1 .. 255
  /\ \A c, d \in Codes \cup {Begin} : ascii_2_mx79(c) = ascii_2_mx79(d) => c = d

VARIABLES kind, input

vars == <<kind, input>>

Init ==
  \/ kind = "line" /\ input = [text |-> <<>>, toks |-> <<>>]
  \/ kind = "bytes" /\ input = <<>>
  \/ kind = "words" /\ \E n \in Begins : input = [n |-> n, v |-> <<>>, w |-> <<>>]

-----------------------------------------------------------------------------
(* Lines *)

\* Escapes, where the syntax has them.
Escaped(c) == CASE c = "\n" -> <<"\\", "n">> [] c = "\t" -> <<"\\", "t">>
                [] c \in {"\\", "\""} -> <<"\\", c>> [] OTHER -> <<c>>
Quoted(s) == <<"\"">> \o FlattenSeq([i \in DOMAIN s |-> Escaped(s[i])]) \o <<"\"">>

Tokens ==
  {[type |-> "str", val |-> s, text |-> Quoted(s)] :
     s \in {<<>>, <<"\\">>, <<"\"", "#">>, <<"n", "\n">>, <<"\\", "\t", "\"">>}} \cup
  {[type |-> "int", val |-> 21, text |-> <<"2", "1">>],
   [type |-> "int", val |-> -1, text |-> <<"-", "1">>],
   [type |-> "float", val |-> <<"-", "1", ".", "2">>, text |-> <<"-", "1", ".", "2">>],
   [type |-> "ident", val |-> <<"n", "1">>, text |-> <<"n", "1">>],
   [type |-> "plus", val |-> <<>>, text |-> <<"+">>],
   [type |-> "pluseq", val |-> <<>>, text |-> <<"+", "=">>],
   [type |-> "eq", val |-> <<>>, text |-> <<"=">>],
   [type |-> "lbracket", val |-> <<>>, text |-> <<"[">>],
   [type |-> "rbracket", val |-> <<>>, text |-> <<"]">>],
   [type |-> "comma", val |-> <<>>, text |-> <<",">>]}

\* Without a blank, character c would go on with token t.
Joins(t, c) ==
  \/ t.type = "ident" /\ c \in Letters \cup Digit
  \/ t.type \in {"int", "float"} /\ c \in Digit
  \/ t.type = "plus" /\ c = "="

WriteToken(t, blank) ==
  /\ kind = "line"
  /\ Len(input.toks) < MaxToks
  /\ input.toks # <<>> /\ blank = <<>> => ~ Joins(input.toks[Len(input.toks)], t.text[1])
  /\ input' = [text |-> input.text \o blank \o t.text,
               toks |-> Append(input.toks, [type |-> t.type, val |-> t.val])]
  /\ UNCHANGED kind

\* All tokens up to the end of the line.
AllTokens(text) ==
  LET from[p \in Nat] ==
        LET t == next_tok(text, p)
        IN IF t.type = "eof" THEN <<>>
           ELSE <<[type |-> t.type, val |-> t.val, error |-> t.error]>> \o from[t.p]
  IN from[1]

\* What is written in the syntax of API.md is read back: no token takes a
\* character of the next one or loses one of its own, strings keep every
\* character that can be escaped, wherever blanks are left out (next_tok).
TokensReadBack ==
  kind = "line" =>
    AllTokens(input.text) =
      [i \in DOMAIN input.toks |-> [error |-> FALSE] @@ input.toks[i]]

-----------------------------------------------------------------------------
(* Bytes *)

AddByte(b) ==
  /\ kind = "bytes"
  /\ Len(input) < MaxBytes
  /\ Len(input) >= FreeBytes => b = Filler
  /\ input' = Append(input, b)
  /\ UNCHANGED kind

\* The definition of CRC-32C: what is left of the message after the division,
\* with all bits inverted before and after.
CRC(data) == Flip(FoldLeft(DivideByte, Bit32, data))

\* The entries of the table with a wrong digit.
Misprinted == {190, 191}

\* The software path reads none of them.
Clean(crc, data) ==
  \A n \in DOMAIN data :
    Low8(Xor(FoldLeft(DivideByte, crc, SubSeq(data, 1, n - 1)), BitsOf(data[n]))) \notin Misprinted

\* Little-endian.
BytesOf(crc) == [k \in 1 .. 4 |-> Low8(Right(crc, 8 * (k - 1)))]

\* Every path computes the CRC, for data of any length, in one call or in two,
\* and verification tells data with its CRC from data with a changed byte.
CrcExact ==
  kind = "bytes" =>
    LET crc == CRC(input)
        sealed == input \o BytesOf(crc)
        paths == IF Clean(Bit32, input) THEN BuildPaths ELSE {path \in BuildPaths : path.cpu # "none"}
    IN \A path \in paths :
           /\ \A n \in 0 .. Len(input) :
                crc = kfl_crc32c(path, kfl_crc32c(path, {}, SubSeq(input, 1, n)),
                                 SubSeq(input, n + 1, Len(input)))
           /\ kfl_crc32c_verify(path, sealed)
           /\ \A i \in {1, Len(input), Len(sealed)} \ {0} : \A b \in Bytes \ {sealed[i]} :
                ~ kfl_crc32c_verify(path, [sealed EXCEPT ![i] = b])
           /\ Len(input) < 4 => ~ kfl_crc32c_verify(path, input)

\* crc32c.c:12: "Each entry is the CRC of a single byte value 0..255."
EntriesDoc ==
  kind = "bytes" /\ Len(input) = 1 => crc32c_table[input[1]] = DivideByte({}, input[1])

-----------------------------------------------------------------------------
(* Words *)

AddLetter(c) ==
  /\ kind = "words"
  /\ \/ Len(input.v) < MaxLetters /\ input' = [input EXCEPT !.v = Append(@, c)]
     \/ Len(input.w) < MaxLetters /\ input' = [input EXCEPT !.w = Append(@, c)]
  /\ UNCHANGED kind

\* v stands before w in a dictionary.
Before(v, w) ==
  \E i \in 1 .. Len(w) :
    /\ \A j \in 1 .. i - 1 : j \in DOMAIN v /\ v[j] = w[j]
    /\ i \in DOMAIN v => v[i] < w[i]

Less(g, h) ==
  \E i \in 1 .. Limbs : g[i] < h[i] /\ \A j \in i + 1 .. Limbs : g[j] = h[j]

\* Words of letters, digits and one of the other characters of each range sort
\* as their hashes do, up to ten characters, which collide only if they are
\* equal (the comments above hb79_r and hash_b79).
HashOrders ==
  kind = "words" =>
    LET ten(s) == LET all == [i \in 1 .. input.n |-> Begin] \o s
                  IN IF Len(all) > 10 THEN SubSeq(all, 1, 10) ELSE all
        all(s) == [i \in 1 .. input.n |-> Begin] \o s
    IN Before(ten(input.v), ten(input.w)) <=> Less(hash_b79(all(input.v)), hash_b79(all(input.w)))

-----------------------------------------------------------------------------

Next ==
  \/ \E t \in Tokens, blank \in {<<>>, <<" ">>} : WriteToken(t, blank)
  \/ \E b \in Bytes \cup {Filler} : AddByte(b)
  \/ \E c \in Codes : AddLetter(c)

Spec == Init /\ [][Next]_vars

MCLetters == {"n", "t"}
MCDigits == ("1" :> 1) @@ ("2" :> 2)
MCBytes == {0, 157, 255}
AllBytes == 0 .. 255
\* - 9 A _ a z
MCCodes == {45, 57, 65, 95, 97, 122}
=============================================================================
