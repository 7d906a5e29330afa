------------------------------ MODULE CfgParser ------------------------------
(***************************************************************************)
(* Loading configuration files, src/src/cfg_parser.c: cfg_load_depth reads *)
(* the lines of a file, parse_line and the evaluator below it go through   *)
(* the tokens of a line, an include suspends the file it stands in.  What  *)
(* a file holds is arbitrary: every line is any of Lines, and after any    *)
(* line the file may end.  The dict is the map DictMap says it is, from    *)
(* names to var_t pointers; buffers are their contents.                    *)
(*                                                                         *)
(* Memory may run out, spare times at most, at any allocation of the       *)
(* evaluator or the dict.  ln.short is a history field: it did while the   *)
(* present line was read.                                                  *)
(***************************************************************************)
EXTENDS CfgTokens, Var

CONSTANTS
  Lines,      \* the lines a file can have, without the newline
  Paths,      \* the file names kfl_cfg_load is called with
  Files,      \* the files there are, as the names on the way to them
  MaxLine,    \* CFG_MAX_LINE
  MaxDepth,   \* CFG_MAX_DEPTH
  ConcatCap,  \* CFG_CONCAT_INIT_CAP
  MaxLines,   \* bound: the lines read in a behaviour and the failures in it
  Failures    \* bound: the allocations that fail in a behaviour

ASSUME CfgAssumption ==
  /\ MaxLine \in Nat /\ MaxDepth \in Nat /\ MaxLines \in Nat /\ Failures \in Nat
  /\ ConcatCap \in Nat \ {0} /\ InitCap \in Nat \ {0}
  /\ Lines \subseteq Seq(STRING)

\* snprintf has a text for every float literal that a line may hold.
ASSUME ShownAssumption ==
  \A raw \in Lines : \A p \in 1 .. Len(trim(raw)) + 1 :
    LET tok == next_tok(trim(raw), p)
    IN tok.type = "float" => Shown[tok.val] \in Seq(STRING)

VARIABLES
  env,      \* cfg->vars
  heap,     \* the var_t's of cfg->gc
  stack,    \* the calls of cfg_load_depth: the file, its depth and rc
  fds,      \* the files that are open
  pc,       \* "idle", "file" between two lines, or where parse_line is
  ln,       \* the locals of parse_line and the evaluator
  shown,    \* the value displayed last
  result,   \* what kfl_cfg_load returned
  budget,   \* the lines still to be read
  spare     \* the allocations that may still fail

vars == <<env, heap, stack, fds, pc, ln, shown, result, budget, spare>>
kept == <<env, stack, fds, shown, result, budget>>

\* mode says what is done with the value; nest holds the arrays whose items are
\* being read, val the value of the last atom, buf and cap eval_rhs's buffer.
NoLine == [raw |-> <<>>, text |-> <<>>, p |-> 1, error |-> FALSE, mode |-> "none",
           key |-> <<>>, es |-> <<>>, nest |-> <<>>, val |-> Null,
           buf |-> NoText, cap |-> 0, short |-> FALSE]

Top == stack[Len(stack)]
TokAt(p) == next_tok(ln.text, p)
Tok == TokAt(ln.p)
Ends(tok) == tok.type \in {"eof", "hash"}

\* kfl_cfg_new, and a call of kfl_cfg_load that has not come.
Init ==
  /\ env = <<>> /\ heap = <<>> /\ stack = <<>> /\ fds = 0
  /\ pc = "idle" /\ ln = NoLine /\ shown = Null /\ result = 0
  /\ budget = MaxLines /\ spare = Failures

-----------------------------------------------------------------------------
(* Allocation, and moving on *)

Fails == spare > 0 /\ budget > 0 /\ spare' = spare - 1
Works == UNCHANGED spare

Keep == Works /\ UNCHANGED heap

\* What an allocation can return.
New == {Null, Len(heap) + 1}

\* It puts x at a, or returns Null.
Alloc(x, a) ==
  \/ a # Null /\ Works /\ heap' = Append(heap, x)
  \/ a = Null /\ Fails /\ UNCHANGED heap

\* var_str allocates the value and then its text.
AllocStr(s, a) ==
  \/ Alloc(var_str(s), a)
  \/ a # Null /\ Fails /\ heap' = Append(heap, var_str(NoText))

\* The text of a, or nothing when the copy of it fails.
Texts(a) == {var_to_str(heap, a), <<>>}
Text(a, text) ==
  \/ text = var_to_str(heap, a) /\ Works
  \/ text = <<>> /\ Fails

\* On to at, with the locals l; token tok has been looked at.
Go(at, l, tok) ==
  /\ pc' = at
  /\ ln' = [l EXCEPT !.error = @ \/ tok.error, !.short = @ \/ spare' # spare]
  /\ UNCHANGED kept

\* parse_line returns -1 if bad, else 0; an error not passed on, as a slip.
RcKept(rc, bad) == rc
RcAfter(rc, bad) == IF bad THEN -1 ELSE rc
Return(bad) ==
  /\ pc' = "file"
  /\ ln' = NoLine
  /\ stack' = [stack EXCEPT ![Len(stack)].rc = RcAfter(@, bad)]
  /\ UNCHANGED <<fds, result, budget>>

Nothing(bad) == Return(bad) /\ Keep /\ UNCHANGED <<env, shown>>

-----------------------------------------------------------------------------
(* Files *)

\* dirname: what stands before the last slash.
dirname(path) ==
  LET slashes == {i \in DOMAIN path : path[i] = "/"}
      last == CHOOSE i \in slashes : \A j \in slashes : j <= i
  IN IF slashes = {} THEN <<".">>
     ELSE IF last = 1 THEN <<"/">> ELSE SubSeq(path, 1, last - 1)

\* The names on the way to a file.
NamesOf(path) == SelectSeq(path, LAMBDA c : c \notin {"/", "."})

\* cfg_load_depth goes on to read the file.
CanOpen(path, depth) == depth <= MaxDepth /\ NamesOf(path) \in Files

Open(path, depth) ==
  /\ CanOpen(path, depth)
  /\ stack' = Append(stack, [path |-> path, depth |-> depth, rc |-> 0])
  /\ fds' = fds + 1
  /\ pc' = "file"
  /\ ln' = NoLine
  /\ Keep
  /\ UNCHANGED <<env, shown, result, budget>>

kfl_cfg_load(path) ==
  /\ pc = "idle"
  /\ \/ Open(path, 0)
     \/ /\ ~ CanOpen(path, 0)
        /\ result' = -1
        /\ UNCHANGED <<env, heap, stack, fds, pc, ln, shown, budget, spare>>

\* The bound on the lines, of which each failed allocation takes one.
MoreLines == budget > Failures - spare

\* fgets fills its buffer before it has come to the newline or the end.
TooLong(raw) == Len(raw) >= MaxLine - 1

ReadLine(raw) ==
  /\ pc = "file"
  /\ MoreLines
  /\ budget' = budget - 1
  /\ ~ TooLong(raw)
  /\ pc' = "line"
  /\ ln' = [NoLine EXCEPT !.raw = raw, !.text = trim(raw)]
  /\ UNCHANGED <<env, heap, stack, fds, shown, result, spare>>

SkipLine(raw) ==
  /\ pc = "file"
  /\ MoreLines
  /\ budget' = budget - 1
  /\ TooLong(raw)
  /\ stack' = [stack EXCEPT ![Len(stack)].rc = -1]
  /\ UNCHANGED <<env, heap, fds, pc, ln, shown, result, spare>>

\* The file ends: cfg_load_depth returns its rc, to kfl_cfg_load or to the line
\* of the file that included it.
EndOfFile ==
  /\ pc = "file"
  /\ fds' = fds - 1
  /\ LET n == Len(stack) - 1
     IN \/ /\ n = 0
           /\ stack' = <<>> /\ result' = Top.rc /\ pc' = "idle"
        \/ /\ n > 0
           /\ stack' = [SubSeq(stack, 1, n) EXCEPT ![n].rc = RcAfter(@, Top.rc < 0)]
           /\ UNCHANGED <<result, pc>>
  /\ UNCHANGED <<env, heap, ln, shown, budget, spare>>

-----------------------------------------------------------------------------
(* parse_line: what kind of line it is.  tok is its first token, op the next *)

Is(tok, word) == tok.type = "ident" /\ tok.val = <<word>>

BlankLine(tok) == Ends(tok) /\ Nothing(FALSE)
NoKey(tok) == ~ Ends(tok) /\ tok.type # "ident" /\ Nothing(TRUE)

\* What a buffer of n bytes holds of a string.
Cut(s, n) == IF Len(s) < n THEN s ELSE SubSeq(s, 1, n - 1)

\* include takes the rest of the line, without the quotes around it.
Unquoted(s) ==
  IF Len(s) >= 2 /\ s[1] = "\"" /\ s[Len(s)] = "\"" THEN SubSeq(s, 2, Len(s) - 1) ELSE s
FileName(from) ==
  Unquoted(trim(Cut(SubSeq(ln.text, lex_skip_ws(ln.text, from), Len(ln.text)), MaxTok)))

PathOf(name) ==
  Cut(IF name[1] = "/" THEN name ELSE dirname(Top.path) \o <<"/">> \o name, MaxLine)

\* The depth of an included file; that of the file it stands in, as a slip.
DepthSame(depth) == depth
Deeper(depth) == depth + 1

Include(tok) ==
  /\ Is(tok, "include")
  /\ LET name == FileName(tok.p)
         depth == Deeper(Top.depth)
     IN \/ name # <<>> /\ Open(PathOf(name), depth)
        \/ (name # <<>> => ~ CanOpen(PathOf(name), depth)) /\ Nothing(TRUE)

Display(tok) ==
  /\ Is(tok, "display")
  /\ Keep
  /\ Go("rhs", [ln EXCEPT !.mode = "display", !.p = tok.p], tok)

dict_get(name) == IF name \in DOMAIN env THEN env[name] ELSE Null

IsKey(tok) == tok.type = "ident" /\ ~ Is(tok, "include") /\ ~ Is(tok, "display")

KeyEq(tok, op) ==
  /\ op.type = "eq"
  /\ Keep
  /\ Go("rhs", [ln EXCEPT !.mode = "set", !.key = tok.val, !.p = op.p], op)

\* The present text of the key is taken before the right side is read.
KeyPlusEq(tok, op) ==
  /\ op.type = "pluseq"
  /\ LET a == dict_get(tok.val)
     IN \E es \in Texts(a) :
          /\ \/ a = Null /\ es = <<>> /\ (Works \/ Fails)
             \/ a # Null /\ Text(a, es)
          /\ Go("rhs", [ln EXCEPT !.mode = "append", !.key = tok.val,
                                  !.p = op.p, !.es = es], op)
  /\ UNCHANGED heap

NoOperator(op) == op.type \notin {"eq", "pluseq"} /\ Nothing(TRUE)

ParseLine ==
  /\ pc = "line"
  /\ \E tok \in {Tok} :
       \/ BlankLine(tok) \/ NoKey(tok) \/ Include(tok) \/ Display(tok)
       \/ /\ IsKey(tok)
          /\ \E op \in {TokAt(tok.p)} :
               KeyEq(tok, op) \/ KeyPlusEq(tok, op) \/ NoOperator(op)

-----------------------------------------------------------------------------
(* eval_atom: tok is consumed, and the value goes to an array or to eval_rhs *)

\* The atom has value a, and the scan goes on at p.
Yield(a, p, tok) ==
  Go(IF ln.nest = <<>> THEN "value" ELSE "push", [ln EXCEPT !.val = a, !.p = p], tok)

Literal(tok) ==
  \E a \in New :
    /\ \/ tok.type = "str" /\ AllocStr(tok.val, a)
       \/ tok.type = "int" /\ Alloc(var_int(tok.val), a)
       \/ tok.type = "float" /\ Alloc(var_float(tok.val), a)
       \/ Is(tok, "true") /\ Alloc(var_bool(TRUE), a)
       \/ Is(tok, "false") /\ Alloc(var_bool(FALSE), a)
       \/ Is(tok, "null") /\ Alloc(var_null, a)
    /\ Yield(a, tok.p, tok)

IsName(tok) ==
  tok.type = "ident" /\ ~ \E word \in {"true", "false", "null"} : Is(tok, word)

\* The value a, or a new null in its place.
OrNull(a, p, tok) ==
  \/ a # Null /\ Keep /\ Yield(a, p, tok)
  \/ a = Null /\ \E x \in New : Alloc(var_null, x) /\ Yield(x, p, tok)

Reference(tok, next) ==
  /\ IsName(tok)
  /\ next.type # "lbracket"
  /\ OrNull(dict_get(tok.val), tok.p, next)

\* Two tokens after the bracket are consumed, whatever they are.
Indexed(tok, next) ==
  /\ IsName(tok)
  /\ next.type = "lbracket"
  /\ \E idx \in {TokAt(next.p)} : \E rb \in {TokAt(idx.p)} :
       LET bad == rb.type # "rbracket" \/ idx.type # "int"
       IN OrNull(IF bad THEN Null ELSE var_get(heap, dict_get(tok.val), idx.val),
                 rb.p, [error |-> rb.error \/ idx.error \/ bad])

BeginArray(tok) ==
  /\ tok.type = "lbracket"
  /\ \E a \in New :
       /\ Alloc(var_array, a)
       /\ Go(IF a = Null THEN "no_array" ELSE "items",
             [ln EXCEPT !.nest = IF a = Null THEN @ ELSE Append(@, a), !.p = tok.p], tok)

\* Anything else is a null, and no error.
NoAtom(tok) ==
  /\ tok.type \notin {"str", "int", "float", "ident", "lbracket"}
  /\ \E a \in New : Alloc(var_null, a) /\ Yield(a, tok.p, tok)

ReadAtom ==
  /\ pc = "atom"
  /\ \E tok \in {Tok} :
       \/ Literal(tok) \/ BeginArray(tok) \/ NoAtom(tok)
       \/ \E next \in {TokAt(tok.p)} :
            Reference(tok, next) \/ Indexed(tok, next)

NoTok == [error |-> FALSE]

\* The array could not be made: a null, and its items are left unread.
NoArray ==
  /\ pc = "no_array"
  /\ \E a \in New : Alloc(var_null, a) /\ Yield(a, ln.p, NoTok)

\* The tokens an array skips with an error; left where they are, as a slip.
PastNot(tok) == ln.p
Past(tok) == tok.p

Items ==
  /\ pc = "items"
  /\ Keep
  /\ \E tok \in {Tok} :
       LET starts == {"str", "int", "float", "ident", "lbracket"}
           n == Len(ln.nest)
       IN \/ /\ tok.type \in starts
             /\ Go("atom", ln, tok)
          \/ /\ tok.type = "comma"
             /\ Go("items", [ln EXCEPT !.p = tok.p], tok)
          \/ /\ tok.type \notin starts \cup {"comma", "rbracket", "eof", "hash"}
             /\ Go("items", [ln EXCEPT !.p = Past(tok), !.error = TRUE], tok)
          \/ /\ tok.type \in {"rbracket", "eof", "hash"}
             /\ Go(IF n = 1 THEN "value" ELSE "push",
                   [ln EXCEPT !.val = ln.nest[n], !.nest = SubSeq(@, 1, n - 1),
                              !.p = IF tok.type = "rbracket" THEN tok.p ELSE @], tok)

\* var_push: an item that is no value is left out, and so is one for which the
\* array has no room.
Push ==
  /\ pc = "push"
  /\ LET a == ln.nest[Len(ln.nest)]
     IN \/ ln.val # Null /\ Works /\ heap' = var_push(heap, a, ln.val)
        \/ ln.val # Null /\ Full(heap, a) /\ Fails /\ UNCHANGED heap
        \/ ln.val = Null /\ Keep
  /\ Go("items", ln, NoTok)

EvalAtom == ReadAtom \/ NoArray \/ Items \/ Push

-----------------------------------------------------------------------------
(* eval_rhs *)

\* Store a, or a new null if there is no value.
ToStore(a, tok) ==
  \/ a # Null /\ Keep /\ Go("store", [ln EXCEPT !.val = a], tok)
  \/ a = Null /\ \E x \in New :
       Alloc(var_null, x) /\ Go("store", [ln EXCEPT !.val = x], tok)

Rhs ==
  /\ pc = "rhs"
  /\ \E tok \in {Tok} :
       \/ ~ Ends(tok) /\ Keep /\ Go("atom", ln, tok)
       \/ Ends(tok) /\ ToStore(Null, tok)

\* No plus follows the first operand.
SingleValue(tok) == tok.type # "plus" /\ ToStore(ln.val, tok)

\* A plus follows: a buffer with the text of the first operand.  If there is no
\* memory for it, or for its growth, the first operand is the value.
BeginConcat(tok) ==
  /\ tok.type = "plus"
  /\ \/ Fails /\ Go("single", ln, tok)
     \/ \E text \in Texts(ln.val) :
          /\ Text(ln.val, text)
          /\ Go("plus", [ln EXCEPT !.buf = text,
                                   !.cap = IF Len(text) + 1 > ConcatCap
                                           THEN Len(text) + 1 ELSE ConcatCap], tok)
  /\ UNCHANGED heap

FirstOperand ==
  /\ pc = "value" /\ ln.buf = NoText
  /\ \E tok \in {Tok} : SingleValue(tok) \/ BeginConcat(tok)

\* The buffer is given up.
NoBuffer == pc = "single" /\ ToStore(ln.val, NoTok)

\* The operands go on, or the text of the buffer is the value.
Plus ==
  /\ pc = "plus"
  /\ Keep
  /\ \E tok \in {Tok} : \E next \in {TokAt(tok.p)} :
       IF tok.type = "plus" /\ ~ Ends(next)
       THEN Go("atom", [ln EXCEPT !.p = tok.p], next)
       ELSE Go("text", ln, tok)

\* The room the buffer is given for len characters.
Grown(cap, len) ==
  LET grown[c \in cap .. cap + 2 * len] == IF c < len THEN grown[2 * c] ELSE c
  IN grown[cap]

\* The text of the buffer with that of one more operand; that of the operand
\* alone, as a slip.
JoinedLast(buf, text) == text
Joined(buf, text) == buf \o text

\* A further operand.  If the buffer cannot grow, what it has is the value.
AddOperand ==
  /\ pc = "value" /\ ln.buf # NoText
  /\ \/ \E text \in Texts(ln.val) :
          /\ Text(ln.val, text)
          /\ Go("plus", [ln EXCEPT !.buf = Joined(@, text),
                                   !.cap = Grown(@, Len(ln.buf) + Len(text) + 1)], NoTok)
     \/ /\ Len(ln.buf) + Len(var_to_str(heap, ln.val)) + 1 > ln.cap
        /\ Fails
        /\ Go("text", ln, NoTok)
  /\ UNCHANGED heap

BufferToStr ==
  /\ pc = "text"
  /\ \E a \in New :
       AllocStr(ln.buf, a) /\ Go("fallback", [ln EXCEPT !.val = a, !.buf = NoText], NoTok)

Fallback == pc = "fallback" /\ ToStore(ln.val, NoTok)

EvalRhs ==
  \/ Rhs \/ FirstOperand \/ NoBuffer \/ Plus \/ AddOperand
  \/ BufferToStr \/ Fallback

-----------------------------------------------------------------------------
(* parse_line: what is done with the value *)

dict_set(name, a) ==
  env' = [k \in DOMAIN env \cup {name} |-> IF k = name THEN a ELSE env[k]]

\* dict_set allocates an entry for a key the dict does not have.
Set ==
  /\ pc = "store" /\ ln.mode = "set"
  /\ \/ Works /\ dict_set(ln.key, ln.val) /\ Return(ln.error)
     \/ ln.key \notin DOMAIN env /\ Fails /\ UNCHANGED env /\ Return(TRUE)
  /\ UNCHANGED <<heap, shown>>

Show ==
  /\ pc = "store" /\ ln.mode = "display"
  /\ shown' = ln.val
  /\ Return(ln.error)
  /\ Keep /\ UNCHANGED env

\* The texts are joined in a buffer, of which the value is a copy.
JoinTexts ==
  /\ pc = "store" /\ ln.mode = "append"
  /\ \/ \E text \in Texts(ln.val) :
          Text(ln.val, text) /\ Go("join", [ln EXCEPT !.es = @ \o text], NoTok)
        /\ UNCHANGED heap
     \/ Fails /\ Return(TRUE) /\ UNCHANGED <<env, heap, shown>>

AppendStr ==
  /\ pc = "join"
  /\ \E a \in New :
       AllocStr(ln.es, a) /\ Go("store", [ln EXCEPT !.mode = "set", !.val = a], NoTok)

Store == Set \/ Show \/ JoinTexts \/ AppendStr

-----------------------------------------------------------------------------

Step ==
  \/ \E raw \in Lines : ReadLine(raw) \/ SkipLine(raw)
  \/ EndOfFile \/ ParseLine \/ EvalAtom \/ EvalRhs \/ Store

Next == Step \/ \E path \in Paths : kfl_cfg_load(path)

Spec == Init /\ [][Next]_vars

\* kfl_cfg_load goes on once it was called.
FairSpec == Spec /\ WF_vars(Step)

-----------------------------------------------------------------------------
(* Properties *)

Pointers == 0 .. Len(heap)

\* What points at a value points at one that is there, arrays have the room they
\* say they have, and what is being filled is an array.
PointersInside ==
  /\ \A k \in DOMAIN env : env[k] \in Pointers
  /\ \A a \in 1 .. Len(heap) :
       heap[a].type = "array" =>
         /\ Len(heap[a].items) <= heap[a].cap
         /\ \A i \in DOMAIN heap[a].items : heap[a].items[i] \in Pointers \ {Null}
  /\ shown \in Pointers /\ ln.val \in Pointers
  /\ \A i \in DOMAIN ln.nest : IsArray(heap, ln.nest[i])
  /\ result \in {-1, 0}
  /\ \A i \in DOMAIN stack : stack[i].rc \in {-1, 0}

\* The text of eval_rhs's buffer has room for its end, and the scan is on the line.
ReadsInside ==
  /\ ln.buf # NoText => Len(ln.buf) < ln.cap
  /\ ln.p \in 1 .. Len(ln.text) + 1

\* Values, arrays with their room, and the locals of the function that runs.
TypeOK == PointersInside /\ ReadsInside

\* Files that include each other or themselves are open MaxDepth + 1 at a time
\* at most, and all of them are closed when the load returns.
OpenFilesBounded ==
  /\ fds <= MaxDepth + 1
  /\ pc = "idle" => fds = 0

\* API.md:691: "# comment" at the end of a line is a comment, and so no part of
\* the name of the file that the line includes.
TrailingCommentsIgnored ==
  pc = "line" /\ Is(Tok, "include") =>
    \A i \in DOMAIN FileName(Tok.p) : FileName(Tok.p)[i] # "#"

\* A load ends, whatever the lines hold.
LoadEnds == pc # "idle" ~> pc = "idle"
=============================================================================
