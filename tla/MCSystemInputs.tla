------------------------------ MODULE MCSystemInputs ------------------------------
(***************************************************************************)
(* The bounded inputs of MCSystem: object graphs, file name patterns and   *)
(* calls of Array methods, one section each.                               *)
(***************************************************************************)
EXTENDS Integers, Sequences, SequencesExt, TLC

-----------------------------------------------------------------------------
(***************************************************************************)
(* The object graphs that MCSystem dumps and loads (see Marshal): three    *)
(* objects that refer to one another, in circles too, one of them a leaf;  *)
(* symbols that come again; depths behind the limit; and numbers around    *)
(* every change of their length.                                           *)
(***************************************************************************)

Builtins == ("string" :> "String") @@ ("array" :> "Array") @@ ("hash" :> "Hash")
            @@ ("regexp" :> "Regexp") @@ ("float" :> "Float")
Members == "S" :> <<"m1", "m2">>

Ref(n) == <<"ref", n>>
Obj(kind, class, body, ivs) == [k |-> kind, class |-> class, body |-> body, ivs |-> ivs]
Holders(A, B) ==
  UNION {{Obj(h[1], h[2], <<x, y>>, h[3]) : x \in A, y \in B} :
         h \in {<<"array", "Array", <<>>>>, <<"array", "MyAry", <<>>>>, <<"hash", "Hash", <<>>>>,
                <<"struct", "S", <<>>>>, <<"object", "O", <<"@a", "@b">>>>}}
Leaves == {Obj("string", "String", <<"x">>, <<>>), Obj("string", "MyStr", <<"x">>, <<>>),
           Obj("user", "U", <<"x", "y">>, <<>>), Obj("big", "-", <<16, 255>>, <<>>),
           Obj("float", "Float", <<"1.5">>, <<>>), Obj("regexp", "Regexp", <<>>, <<>>),
           Obj("io", "IO", <<>>, <<>>)}

Immediate == {<<"nil">>, <<"fix", 30>>, <<"fix", -18>>, <<"mod", "M">>}
Outer == Holders({Ref(1), Ref(2), Ref(3)}, {Ref(2), Ref(3)})
         \cup Holders(Immediate, {Ref(2), <<"true">>})
Middle == {x \in Holders({Ref(1), Ref(3), <<"true">>}, {Ref(2), Ref(3)}) : x.class \in {"MyAry", "O"}}
Inside == {x \in Holders({<<"true">>, Ref(3)}, {Ref(1), Ref(3)}) : x.k = "hash"}

Numbers == {0, 1, 7, 8, 15, 16, 255, 256, -1, -8, -15, -16, -17, -256, -257, -32768, 32767}
ObjectGraphs ==
  UNION {{[root |-> Ref(1), heap |-> <<x, y, z>>, limit |-> -1] : x \in Outer, y \in Middle, z \in Leaves},
         {[root |-> Ref(1), heap |-> <<x, y, z>>, limit |-> n] :
           x \in {x \in Outer : x.k = "struct"}, y \in Inside, z \in Leaves, n \in {2, 3}},
         {[root |-> v, heap |-> <<>>, limit |-> 1] :
           v \in Immediate \cup {<<"true">>, <<"false">>} \cup {<<"fix", i>> : i \in Numbers}}}

-----------------------------------------------------------------------------
(***************************************************************************)
(* The patterns and the directories that MCSystem globs (see Glob).  A     *)
(* word is a sequence of groups, a group the alternatives between braces,  *)
(* and those are sequences of tokens: what is written, and the characters  *)
(* it stands for.                                                          *)
(***************************************************************************)

Ascii == <<" ", "!", "*", ",", "-", ".", "/", "?", "[", "\\", "]", "^", "a", "b", "c", "{", "}">>
Characters == ToSet(Ascii)

Token(text, set) == [text |-> text, star |-> FALSE, set |-> set]
Letter(c) == Token(<<c>>, {c})
Each == Token(<<"?">>, Characters)
Star == [text |-> <<"*">>, star |-> TRUE, set |-> {}]
Slash == Letter("/")
Escaped == Token(<<"\\", "a">>, {"a"})
Either == Token(<<"[", "a", "b", "]">>, {"a", "b"})
Brackets ==
  {Token(<<"[", "!", "a", "]">>, Characters \ {"a"}), Token(<<"[", "a", "-", "c", "]">>, {"a", "b", "c"}),
   Token(<<"[", "]", "b", "]">>, {"]", "b"}), Token(<<"[", "\\", "b", "a", "]">>, {"a", "b"}),
   Token(<<"[", "^", "b", "-", "c", "]">>, Characters \ {"b", "c"})}
Tokens == {Letter("a"), Letter("."), Each, Star, Either, Escaped}
OneStar(g) == \A n \in 1..Len(g) - 1 : ~(g[n].star /\ g[n + 1].star)

Directories ==
  (<<>> :> {<<"a">>, <<"b">>, <<"a", "b">>, <<".", "a">>})
  @@ (<<<<"a">>>> :> {<<"b">>, <<"b", "a">>, <<"]">>})
  @@ (<<<<"a", "b">>>> :> {})

Flat == {g \in BoundedSeq(Tokens \cup Brackets \cup {Letter("b")}, 3) : g # <<>> /\ OneStar(g)}
Deep == {g \in {t \o <<Slash>> \o u :
                 t \in {<<x>> : x \in Tokens} \cup {<<x, y>> : x \in Tokens, y \in {Star, Letter("b"), Letter(".")}},
                 u \in {<<>>, <<Letter("b"), Star>>} \cup {<<x>> : x \in Tokens}} : OneStar(g)}
Braced ==
  {<<<<x>>, <<<<Letter("a")>>, y>>, <<z>>, <<<<Letter("b")>>, <<>>>>>> :
    x \in {<<>>, <<Star>>}, y \in {<<>>, <<Letter("b")>>, <<Each, Letter("b")>>},
    z \in {<<>>, <<Letter("b")>>, <<Each>>}}

Called(words, gap) == [words |-> words, gap |-> gap, tree |-> Directories]
GlobJobs ==
  UNION {{Called(<<<<<<g>>>>>>, <<>>) : g \in Flat \cup Deep \cup {<<Letter("}"), Letter("{")>>}},
         {Called(<<w>>, <<>>) : w \in Braced},
         {Called(<<<<<<<<v>>>>>>, <<<<<<w>>>>>>>>, <<" ">>) : v \in {Letter("a"), Each}, w \in {Letter("a"), Each}}}

-----------------------------------------------------------------------------
(***************************************************************************)
(* The calls of Array methods that MCSystem makes (see ArrayOps), over     *)
(* elements that are the same, or equal, or only of the same value, and    *)
(* with indices from before the array to behind its end.                   *)
(***************************************************************************)

Nil == <<"nil">>
One == <<"int", 1>>
Atoms == {Nil, One, <<"int", 2>>, <<"float", 1>>}
Flat2 == BoundedSeq(Atoms, 2)
Flat3 == BoundedSeq(Atoms, 3)
Nested == BoundedSeq({<<"ary">> \o x : x \in Flat2} \cup {Nil, One}, 2)

ArrayCalls ==
  UNION {[op : {"compare", "diff", "and", "plus"}, a : Flat3, b : Flat2],
         [op : {"compare"}, a : Flat2, b : Flat3],
         [op : {"or"}, a : Flat2, b : Flat2, item : {Nil, One}],
         [op : {"entry"}, a : Flat3, i : -4..4],
         [op : {"subseq"}, a : Flat3, beg : -4..4, n : -1..4],
         [op : {"indexes"}, a : Flat3, at : {<<0, -1, 5>>, <<>>}],
         [op : {"index", "assoc", "rassoc"}, a : Nested, item : Atoms],
         [op : {"nitems", "compact"}, a : Flat3],
         [op : {"times"}, a : Flat3, n : -1..2],
         [op : {"join"}, a : Nested, sep : {<<<<"sep">>>>}]}

=============================================================================
