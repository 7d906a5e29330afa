------------------------------ MODULE CfgMeaning ------------------------------
(***************************************************************************)
(* What configuration files mean (the table of API.md, "Config Parser"): a *)
(* line is a statement, carried out at once, on variables whose values are *)
(* values and not pointers to them.  Statements take effect in the order   *)
(* of the lines, those of an included file in the place of the include; a  *)
(* line with an error changes no variable but its own, is never forgotten  *)
(* in what the load returns, and does not stop the load.                   *)
(***************************************************************************)
EXTENDS Integers, Sequences, TLC

CONSTANTS
  Statements,   \* the lines there are, as statements
  Names,        \* the variables
  Roots,        \* the files that are loaded, and
  Files,        \* the files there are, as the names on the way to them
  MaxDepth,     \* "Nesting is limited to" this number of levels
  ShownDepth,   \* arrays are displayed to this depth
  Shown         \* how a float literal is displayed

VARIABLES
  env,       \* the value of each variable, or Nothing
  files,     \* the files that are being read, with the errors they had
  cur,       \* the statement being carried out, or None
  shown,     \* what was displayed last
  result,    \* what the last load returned
  short,     \* an allocation failed while cur was carried out
  spare      \* the allocations that may still fail

vars == <<env, files, cur, shown, result, short, spare>>

None == [k |-> "none"]
Nothing == [type |-> "nothing"]
NullValue == [type |-> "null"]
Str(s) == [type |-> "str", s |-> s]

-----------------------------------------------------------------------------
(* Expressions *)

LookUp(name) ==
  IF name \in Names /\ env[name] # Nothing THEN env[name] ELSE NullValue

RECURSIVE Value(_)
Value(atom) ==
  CASE atom.k = "lit" -> atom.v
    [] atom.k = "ref" -> LookUp(atom.name)
    [] atom.k = "idx" -> LET v == LookUp(atom.name)
                         IN IF v.type = "array" /\ atom.i + 1 \in DOMAIN v.items
                            THEN v.items[atom.i + 1] ELSE NullValue
    [] atom.k = "array" ->
         [type |-> "array", items |-> [i \in DOMAIN atom.items |-> Value(atom.items[i])]]

\* The text a value has in a concatenation; a lost text is one that no memory
\* was left for.
TextOf(v) ==
  CASE v.type = "str" -> v.s
    [] v.type = "int" -> <<ToString(v.i)>>
    [] v.type = "float" -> Shown[v.f]
    [] v.type = "bool" -> <<IF v.b THEN "true" ELSE "false">>
    [] v.type = "array" -> <<"[array]">>
    [] v.type \in {"null", "lost"} -> <<"null">>

RECURSIVE TextOfAll(_)
TextOfAll(atoms) ==
  IF atoms = <<>> THEN <<>> ELSE TextOf(Value(Head(atoms))) \o TextOfAll(Tail(atoms))

Result(rhs) ==
  IF rhs = <<>> THEN NullValue
  ELSE IF Len(rhs) = 1 THEN Value(rhs[1]) ELSE Str(TextOfAll(rhs))

\* What is displayed of a value: its parts down to ShownDepth.
RECURSIVE Visible(_, _)
Visible(v, depth) ==
  IF depth > ShownDepth THEN [type |-> "dots"]
  ELSE IF v.type # "array" THEN v
  ELSE [type |-> "array", items |-> [i \in DOMAIN v.items |-> Visible(v.items[i], depth + 1)]]

-----------------------------------------------------------------------------
(* Statements *)

Init ==
  /\ env = [name \in Names |-> Nothing] /\ files = <<>> /\ cur = None
  /\ shown = Nothing /\ result = 0 /\ short = FALSE

Begin(path) == files' = Append(files, [path |-> path, bad |-> FALSE])

Load(path) ==
  /\ files = <<>> /\ cur = None
  /\ \/ path \in Files /\ Begin(path) /\ UNCHANGED result
     \/ path \notin Files /\ result' = -1 /\ UNCHANGED files
  /\ UNCHANGED <<env, cur, shown, short, spare>>

Read(s) ==
  /\ files # <<>> /\ cur = None
  /\ \/ s.k # "long" /\ cur' = s /\ UNCHANGED files
     \/ s.k = "long" /\ files' = [files EXCEPT ![Len(files)].bad = TRUE] /\ UNCHANGED cur
  /\ UNCHANGED <<env, shown, result, short, spare>>

\* The file ends; its errors are those of the file that includes it, too.
Finish ==
  /\ files # <<>> /\ cur = None
  /\ LET n == Len(files) - 1
         bad == files[n + 1].bad
     IN IF n = 0
        THEN files' = <<>> /\ result' = IF bad THEN -1 ELSE 0
        ELSE /\ files' = [SubSeq(files, 1, n) EXCEPT ![n].bad = @ \/ bad]
             /\ UNCHANGED result
  /\ UNCHANGED <<env, cur, shown, short, spare>>

RunOut == cur # None /\ short' /\ spare' = spare - 1 /\ UNCHANGED <<env, files, cur, shown, result>>

\* cur has been carried out, with an error if bad.
Done(bad) ==
  /\ cur # None /\ cur' = None /\ short' = FALSE
  /\ files' = [files EXCEPT ![Len(files)].bad = @ \/ bad]
  /\ UNCHANGED result

\* Memory did not run out during cur.
Whole == ~ short /\ UNCHANGED spare

Blank == cur.k = "blank" /\ Done(FALSE) /\ UNCHANGED <<env, shown, spare>>

Assign ==
  /\ cur.k = "set" /\ Whole
  /\ env' = [env EXCEPT ![cur.name] = Result(cur.rhs)]
  /\ Done(FALSE) /\ UNCHANGED shown

AppendTo ==
  /\ cur.k = "append" /\ Whole
  /\ LET old == IF env[cur.name] = Nothing THEN <<>> ELSE TextOf(env[cur.name])
     IN env' = [env EXCEPT ![cur.name] = Str(old \o TextOf(Result(cur.rhs)))]
  /\ Done(FALSE) /\ UNCHANGED shown

Display ==
  /\ cur.k = "display" /\ Whole
  /\ shown' = Visible(Result(cur.rhs), 0)
  /\ Done(FALSE) /\ UNCHANGED env

\* The path is taken from the directory of the file that includes, unless it
\* is absolute.
Target ==
  LET here == files[Len(files)].path
  IN IF cur.absolute THEN cur.path ELSE SubSeq(here, 1, Len(here) - 1) \o cur.path

Include ==
  /\ cur.k = "include"
  /\ IF Target \in Files /\ Len(files) <= MaxDepth
     THEN Begin(Target) /\ cur' = None /\ short' = FALSE /\ UNCHANGED result
     ELSE Done(TRUE)
  /\ UNCHANGED <<env, shown, spare>>

\* Only the variable of the statement may have another value.
OnlyOwn(name) == \A n \in Names \ {name} : env'[n] = env[n]

Wrong ==
  /\ cur.k = "bad"
  /\ Done(TRUE)
  /\ OnlyOwn(cur.name)
  /\ shown' # shown => cur.name = <<>>

\* After a failed allocation, the value may be a part of the right one, and the
\* error go unreported.
Partial ==
  /\ short \/ spare' # spare
  /\ cur.k \in {"set", "append", "display", "bad"}
  /\ Done(FALSE) \/ Done(TRUE)
  /\ cur.k = "display" => env' = env
  /\ cur.k # "display" => OnlyOwn(cur.name) /\ UNCHANGED shown

Next ==
  \/ \E path \in Roots : Load(path)
  \/ \E s \in Statements : Read(s)
  \/ Finish \/ RunOut
  \/ Blank \/ Assign \/ AppendTo \/ Display \/ Include \/ Wrong \/ Partial

Spec == Init /\ [][Next]_vars
=============================================================================
