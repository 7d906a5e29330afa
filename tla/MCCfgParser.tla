----------------------------- MODULE MCCfgParser -----------------------------
(* Model checking CfgParser: every file of these lines, each with the        *)
(* statement it is.  A letter of the model is a name or a word.              *)
EXTENDS CfgRefinement

MCLetters == {"a", "b", "g", "d", "n", "include", "display", "true", "null"}
MCDigits == ("0" :> 0) @@ ("1" :> 1) @@ ("2" :> 2)
MCShown == (<<"1", ".", "0">> :> <<"1">>)

Lit(x) == [k |-> "lit", v |-> x]
Int1 == Lit(var_int(1))
Ref(name) == [k |-> "ref", name |-> <<name>>]
Idx(name, i) == [k |-> "idx", name |-> <<name>>, i |-> i]
Arr(items) == [k |-> "array", items |-> items]

Let(name, rhs) == [k |-> "set", name |-> <<name>>, rhs |-> rhs]
Bad(name) == [k |-> "bad", name |-> name]
Inc(absolute, path) == [k |-> "include", absolute |-> absolute, path |-> path]

MCSays ==
  (<<"a", " ", "=", "1", "#", "b">> :> Let("a", <<Int1>>)) @@
  (<<"b", "=", "a">> :> Let("b", <<Ref("a")>>)) @@
  (<<"b", "=", "a", "+">> :> Let("b", <<Ref("a"), Lit(var_str(<<>>))>>)) @@
  (<<"a", "=", "true", "+", "b", "+", "\"", "\\", "n", "\"">> :>
     Let("a", <<Lit(var_bool(TRUE)), Ref("b"), Lit(var_str(<<"\n">>))>>)) @@
  (<<"a", "+", "=", "b", "\f">> :>
     [k |-> "append", name |-> <<"a">>, rhs |-> <<Ref("b")>>]) @@
  (<<"a", "=", "[", "a", ",", "[", "b", "]", "1", "]">> :>
     Let("a", <<Arr(<<Ref("a"), Arr(<<Ref("b")>>), Int1>>)>>)) @@
  (<<"b", "=", "a", "[", "1", "]">> :> Let("b", <<Idx("a", 1)>>)) @@
  (<<"b", "=", "#">> :> Let("b", <<>>)) @@
  (<<"b", "=", "1", ".", "0", "?", "+", "a">> :> Let("b", <<Lit(var_float(<<"1", ".", "0">>))>>)) @@
  (<<"b", "=", "]">> :> Let("b", <<Lit(var_null)>>)) @@
  (<<"display", " ", "a">> :> [k |-> "display", rhs |-> <<Ref("a")>>]) @@
  (<<"include", " ", "d", "/", "g">> :> Inc(FALSE, <<"d", "g">>)) @@
  (<<"include", " ", "\"", "g", "\"">> :> Inc(FALSE, <<"g">>)) @@
  (<<"include", "/", "g">> :> Inc(TRUE, <<"g">>)) @@
  (<<"include">> :> Bad(<<>>)) @@
  (<<" ", "#", "a", "=", "1">> :> [k |-> "blank"]) @@
  (<<"a", "=", "[", "1", "=", "b">> :> Bad(<<"a">>)) @@
  (<<"b", "=", "a", "[", "1">> :> Bad(<<"b">>)) @@
  (<<"b", "=", "a", "\"">> :> Bad(<<"b">>)) @@
  (<<"a", "b">> :> Bad(<<>>)) @@
  (<<"1", "=", "a">> :> Bad(<<>>)) @@
  ([i \in 1 .. 13 |-> "a"] :> [k |-> "long"])

MCLines == DOMAIN MCSays

\* One more line, which is no statement of CfgMeaning.
MCDocLines == MCLines \cup {<<"include", " ", "g", " ", "#", "b">>}

MCNames == {<<"a">>, <<"b">>}
MCFiles == {<<"a">>, <<"g">>, <<"d", "g">>}
MCPaths == {<<"a">>, <<"d", "/", "g">>, <<"b">>}
=============================================================================
