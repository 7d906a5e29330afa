---------------------------- MODULE CfgRefinement ----------------------------
(***************************************************************************)
(* CfgParser implements CfgMeaning: pointers to values are read as the     *)
(* values they point at, the line parse_line works on as the statement it  *)
(* is.  var_print_depth is here because it is recursive.                   *)
(***************************************************************************)
EXTENDS CfgParser

CONSTANTS
  Says,       \* the statement each line is
  Names,      \* the variables of the lines
  PrintMax    \* PRINT_MAX_DEPTH

\* The value a points at.
RECURSIVE ValueAt(_, _)
ValueAt(h, a) ==
  IF a = Null THEN [type |-> "nothing"]
  ELSE IF h[a] = var_str(NoText) THEN [type |-> "lost"]
  ELSE IF h[a].type # "array" THEN h[a]
  ELSE [type |-> "array", items |-> [i \in DOMAIN h[a].items |-> ValueAt(h, h[a].items[i])]]

\* What is printed of it.
RECURSIVE var_print_depth(_, _, _)
var_print_depth(h, a, depth) ==
  IF depth > PrintMax THEN [type |-> "dots"]
  ELSE IF a = Null THEN [type |-> "null"]
  ELSE IF h[a] = var_str(NoText) THEN [type |-> "lost"]
  ELSE IF h[a].type # "array" THEN h[a]
  ELSE [type |-> "array",
        items |-> [i \in DOMAIN h[a].items |-> var_print_depth(h, h[a].items[i], depth + 1)]]

kfl_cfg_get(name) == ValueAt(heap, dict_get(name))

Meaning ==
  INSTANCE CfgMeaning WITH
    Statements <- {Says[raw] : raw \in Lines},
    Roots <- {NamesOf(path) : path \in Paths},
    ShownDepth <- PrintMax,
    env <- [name \in Names |-> kfl_cfg_get(name)],
    files <- [i \in DOMAIN stack |->
                [path |-> NamesOf(stack[i].path), bad |-> stack[i].rc < 0]],
    cur <- IF pc \in {"idle", "file"} THEN [k |-> "none"] ELSE Says[ln.raw],
    shown <- IF shown = Null THEN [type |-> "nothing"] ELSE var_print_depth(heap, shown, 0),
    short <- ln.short

\* Every line does what the statement it is means, although values are shared
\* between variables and arrays, arrays and buffers move while they grow, and
\* lines with errors are stored as far as they were read; and the load returns
\* -1 exactly when a line of a file, or of a file it includes, had an error.
Means == Meaning!Spec
=============================================================================
