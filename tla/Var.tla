--------------------------------- MODULE Var ---------------------------------
(***************************************************************************)
(* The values of src/src/var.c.  A heap is the sequence of the var_t's     *)
(* that were allocated: a pointer is an index of it, Null is 0.  An array  *)
(* holds pointers, so that values are shared; items is what its items      *)
(* point at up to len, cap the room they have.                             *)
(***************************************************************************)
EXTENDS Integers, Sequences, TLC

CONSTANTS
  InitCap,   \* ARRAY_INIT_CAP
  Shown      \* what snprintf's %g shows for the text of each float literal

Null == 0

var_int(n) == [type |-> "int", i |-> n]
var_float(text) == [type |-> "float", f |-> text]
var_bool(b) == [type |-> "bool", b |-> b]
var_str(s) == [type |-> "str", s |-> s]
var_null == [type |-> "null"]
var_array == [type |-> "array", items |-> <<>>, cap |-> InitCap]

\* What a VAR_STR points at when the copy of its text could not be made.
NoText == <<"no text">>

IsArray(h, a) == a # Null /\ h[a].type = "array"

\* An array at its capacity is given twice the room, and holds item.
Full(h, a) == Len(h[a].items) = h[a].cap

\* The room of an array after a push; never grown, as a slip.
RoomSame(h, a) == h[a].cap
Room(h, a) == IF Full(h, a) THEN 2 * h[a].cap ELSE h[a].cap
var_push(h, a, item) ==
  [h EXCEPT ![a].items = Append(@, item), ![a].cap = Room(h, a)]

var_len(h, a) == IF IsArray(h, a) THEN Len(h[a].items) ELSE 0

\* Indices are size_t: a negative one is past every end.
var_get(h, a, i) ==
  IF i \in 0 .. var_len(h, a) - 1 THEN h[a].items[i + 1] ELSE Null

\* The text of a value; the conversions of snprintf are one piece of it.
var_to_str(h, a) ==
  LET x == h[a]
  IN IF a = Null THEN <<"null">>
     ELSE CASE x.type = "int" -> <<ToString(x.i)>>
            [] x.type = "float" -> Shown[x.f]
            [] x.type = "bool" -> <<IF x.b THEN "true" ELSE "false">>
            [] x.type = "str" -> IF x.s = NoText THEN <<"null">> ELSE x.s
            [] x.type = "null" -> <<"null">>
            [] x.type = "array" -> <<"[array]">>
=============================================================================
