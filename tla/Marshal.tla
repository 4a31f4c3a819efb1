------------------------------ MODULE Marshal ------------------------------
(***************************************************************************)
(* ext/marshal/marshal.c: an object and all it refers to is written as a   *)
(* sequence of bytes and read back.  A type is its letter, the text of a   *)
(* symbol or a float is one byte, a number is what w_long() makes of it.   *)
(*                                                                         *)
(* A value is <<"nil">>, <<"true">>, <<"false">>, <<"fix", i>>,            *)
(* <<"mod", name>> or <<"ref", n>>, n a node of the heap; a node has a kind *)
(* k, a class and a body.                                                  *)
(***************************************************************************)
EXTENDS Integers, Sequences, SequencesExt, FiniteSets, FiniteSetsExt, Functions

CONSTANTS
  Graphs,       \* what is dumped: [root, heap, limit]; limit -1 is none
  Builtin,      \* kind -> the class w_uclass() compares with
  Member,       \* class of a struct -> its members
  LongBytes,    \* sizeof(long)
  Base          \* values of a byte

VARIABLES graph, w, r, phase
mvars == <<graph, w, r, phase>>

-----------------------------------------------------------------------------
(* Writing: s is [out, symbol, data, err] *)

w_byte(c, s) == [s EXCEPT !.out = Append(@, c)]

\* Bytes from the lowest, until only the sign is left; first how many, negative
\* for a negative number, as a byte.
LongLen(x) == Min({i \in 1..LongBytes : x \div Base^i \in {0, -1}})
w_long(x, s) ==
  IF x = 0 THEN w_byte(0, s)
  ELSE LET n == LongLen(x)
           count == IF x \div Base^n = 0 THEN n ELSE (-n) % Base
       IN  [s EXCEPT !.out = @ \o <<count>> \o [i \in 1..n |-> (x \div Base^(i - 1)) % Base]]

w_bytes(t, s) == LET s1 == w_long(Len(t), s) IN [s1 EXCEPT !.out = @ \o t]

Entry(x, t) == Min({i \in 1..Len(t) : t[i] = x}) - 1
w_symbol(id, s) ==
  IF id \in ToSet(s.symbol) THEN w_long(Entry(id, s.symbol), w_byte(";", s))
  ELSE [w_bytes(<<id>>, w_byte(":", s)) EXCEPT !.symbol = Append(@, id)]

w_uclass(o, s) == IF o.class = Builtin[o.k] THEN s ELSE w_symbol(o.class, w_byte("C", s))

Fails(e, s) == IF s.err = "" THEN [s EXCEPT !.err = e] ELSE s

\* A module, a number or a text: nothing below it
w_leaf(o, s) ==
  CASE o.k = "user"   -> w_bytes(o.body, w_symbol(o.class, w_byte("u", s)))
    [] o.k = "float"  -> w_bytes(o.body, w_byte("f", s))
    [] o.k = "big"    -> LET s1 == w_long(Len(o.body), w_byte(o.class, w_byte("l", s)))
                         IN  [s1 EXCEPT !.out = @ \o FlattenSeq([i \in 1..Len(o.body) |->
                                <<o.body[i] % Base, o.body[i] \div Base>>])]
    [] o.k = "string" -> w_bytes(o.body, w_byte("\"", w_uclass(o, s)))
    \* FL_USER1 is no flag of a Regexp: the byte is always 0
    [] o.k = "regexp" -> w_byte(0, w_bytes(o.body, w_byte("/", w_uclass(o, s))))

\* What comes before the parts of one that has parts
w_head(o, s) ==
  CASE o.k = "array"  -> w_long(Len(o.body), w_byte("[", w_uclass(o, s)))
    [] o.k = "hash"   -> w_long(Len(o.body) \div 2, w_byte("{", w_uclass(o, s)))
    [] o.k = "struct" -> w_long(Len(o.body), w_symbol(o.class, w_byte("S", s)))
    [] o.k = "object" -> w_long(Len(o.body), w_symbol(o.class, w_byte("o", s)))

\* The name written before part i, "" for none
Slot(o, i) ==
  CASE o.k = "struct" -> Member[o.class][i]
    [] o.k = "object" -> o.ivs[i]
    [] OTHER -> ""

RECURSIVE w_object(_, _, _)
w_object(v, limit, s) ==
  LET o == graph.heap[v[2]]
      known == v \in ToSet(s.data)
      s1 == [s EXCEPT !.data = Append(@, v)]
      Part(a, i) == w_object(o.body[i], limit - 1,
                             IF Slot(o, i) = "" THEN a ELSE w_symbol(Slot(o, i), a))
  IN  IF s.err # "" THEN s
      ELSE IF limit = 0 THEN Fails("exceed depth limit", s)
      ELSE CASE v[1] = "nil" -> w_byte("0", s)
             [] v[1] = "true" -> w_byte("T", s)
             [] v[1] = "false" -> w_byte("F", s)
             [] v[1] = "fix" -> w_long(v[2], w_byte("i", s))
             [] v[1] \in {"ref", "mod"} /\ known -> w_long(Entry(v, s.data), w_byte("@", s))
             [] v[1] = "mod" /\ ~known -> w_bytes(<<v[2]>>, w_byte("M", s1))
             [] v[1] = "ref" /\ ~known /\ o.k = "io" -> Fails("can't dump", s1)
             [] v[1] = "ref" /\ ~known /\ o.k \in {"user", "float", "big", "string", "regexp"} ->
                  w_leaf(o, s1)
             [] OTHER -> FoldLeft(Part, w_head(o, s1), [i \in 1..Len(o.body) |-> i])

-----------------------------------------------------------------------------
(* Reading: s is [in, symbol, data, heap, err, v]; v is what was read last *)

\* An XFrom(s) goes on from what was read last, s.v.
r_byte(s) == IF s.in = <<>> THEN [s EXCEPT !.v = "EOF"] ELSE [s EXCEPT !.v = Head(s.in), !.in = Tail(@)]

\* A byte is never negative: n is how many follow, and one above LongBytes is
\* what a negative number looks like.
LongFrom(s) ==
  LET n == IF s.v < 0 THEN -s.v ELSE s.v
      x == FoldLeft(LAMBDA a, i : a + s.in[i] * Base^(i - 1), 0, [i \in 1..n |-> i])
  IN  IF s.v = 0 THEN s
      ELSE IF n > LongBytes THEN Fails("long too big", s)
      ELSE [s EXCEPT !.v = IF s.v > 0 THEN x ELSE x - Base^n, !.in = SubSeq(@, n + 1, Len(@))]
r_long(s) == LongFrom(r_byte(s))

BytesFrom(s) ==
  IF s.err # "" THEN s
  ELSE LET n == Min({s.v, Len(s.in)})
       IN  [s EXCEPT !.v = SubSeq(s.in, 1, n), !.in = SubSeq(@, n + 1, Len(@))]
r_bytes(s) == BytesFrom(r_long(s))

SymbolLink(s) ==
  IF s.err # "" THEN s
  ELSE IF s.v + 1 \in 1..Len(s.symbol) THEN [s EXCEPT !.v = s.symbol[s.v + 1]]
  ELSE Fails("bad symbol", s)
NewSymbol(s) == [s EXCEPT !.v = s.v[1], !.symbol = Append(@, s.v[1])]
SymbolFrom(s) == IF s.v = ";" THEN SymbolLink(r_long(s)) ELSE NewSymbol(r_bytes(s))
r_symbol(s) == SymbolFrom(r_byte(s))

\* Mutant: a new node is not counted among those that can be linked to.
r_regist_uncounted(o, s) ==
  [s EXCEPT !.heap = Append(@, o), !.v = <<"ref", Len(s.heap) + 1>>]

\* A new node for a kind, registered: its link is the number of those before it
r_regist(o, s) ==
  [s EXCEPT !.heap = Append(@, o), !.data = Append(@, <<"ref", Len(s.heap) + 1>>),
            !.v = <<"ref", Len(s.heap) + 1>>]
Node(k, class, body) == [k |-> k, class |-> class, body |-> body, ivs |-> <<>>]

RECURSIVE r_object(_)
\* Part i of node me, which y is the name of, was read: z
Put(me, y, z) ==
  IF z.err # "" THEN z
  ELSE LET h == [z.heap EXCEPT ![me].body = Append(@, z.v)]
       IN  [z EXCEPT !.heap = IF h[me].k = "object" THEN [h EXCEPT ![me].ivs = Append(@, y)] ELSE h]
Behind(me, i, y) ==
  IF y.heap[me].k = "struct" /\ Member[y.heap[me].class][i] # y.v
  THEN Fails("struct not compatible", y)
  ELSE Put(me, y.v, r_object(y))
\* Parts 1 to n of node me, each behind its name if it has one
Parts(me, n, s0) ==
  LET Step(s, i) ==
        IF s.err # "" THEN s
        ELSE Behind(me, i, IF s.heap[me].k \in {"struct", "object"} THEN r_symbol(s) ELSE s)
  IN  [FoldLeft(Step, s0, [i \in 1..n |-> i]) EXCEPT !.v = <<"ref", me>>]

\* The types that begin with a number, with bytes, and with a class
Link(s) ==
  IF s.err # "" THEN s
  ELSE IF s.v + 1 \in 1..Len(s.data) THEN [s EXCEPT !.v = s.data[s.v + 1]]
  ELSE Fails("unlinked", s)
Fixnum(s) == IF s.err # "" THEN s ELSE [s EXCEPT !.v = <<"fix", s.v>>]
Counted(k, class, each, s) ==
  IF s.err # "" THEN s ELSE Parts(Len(s.heap) + 1, each * s.v, r_regist(Node(k, class, <<>>), s))
Big(sign, s) ==
  r_regist(Node("big", sign, [i \in 1..s.v |-> s.in[2 * i - 1] + Base * s.in[2 * i]]),
           [s EXCEPT !.in = SubSeq(@, 2 * s.v + 1, Len(@))])
Text(k, class, s) == IF s.err # "" THEN s ELSE r_regist(Node(k, class, s.v), s)
Regexp(s) == Text("regexp", Builtin["regexp"], [r_byte(s) EXCEPT !.v = s.v])
Recast(class, s) ==
  IF s.err # "" THEN s
  ELSE IF s.v[1] # "ref" THEN Fails("user class", s)
  ELSE [s EXCEPT !.heap[s.v[2]].class = class]
Classed(t, s) ==
  CASE t = "C" -> Recast(s.v, r_object(s))
    [] t = "S" -> Counted("struct", s.v, 1, r_long(s))
    [] t = "o" -> Counted("object", s.v, 1, r_long(s))
    [] t = "u" -> Text("user", s.v, r_bytes(s))

ObjectFrom(s) ==
  CASE s.v = "EOF" -> Fails("EOFError", s)
    [] s.v = "@" -> Link(r_long(s))
    [] s.v = "0" -> [s EXCEPT !.v = <<"nil">>]
    [] s.v = "T" -> [s EXCEPT !.v = <<"true">>]
    [] s.v = "F" -> [s EXCEPT !.v = <<"false">>]
    [] s.v = "i" -> Fixnum(r_long(s))
    [] s.v = "f" -> Text("float", Builtin["float"], r_bytes(s))
    [] s.v = "\"" -> Text("string", Builtin["string"], r_bytes(s))
    [] s.v = "/" -> Regexp(r_bytes(s))
    [] s.v = "l" -> LET sign == r_byte(s) IN Big(sign.v, r_long(sign))
    [] s.v = "[" -> Counted("array", Builtin["array"], 1, r_long(s))
    [] s.v = "{" -> Counted("hash", Builtin["hash"], 2, r_long(s))
    [] s.v \in {"C", "S", "o", "u"} -> Classed(s.v, r_symbol(s))
    \* a module is not registered
    [] s.v = "M" -> LET b == r_bytes(s) IN [b EXCEPT !.v = <<"mod", b.v[1]>>]
r_object(s) == ObjectFrom(r_byte(s))

-----------------------------------------------------------------------------
marshal_dump ==
  /\ phase = "dump"
  /\ w' = w_object(graph.root, graph.limit, [w EXCEPT !.out = <<4, 0>>])
  /\ phase' = IF w'.err = "" THEN "load" ELSE "done"
  /\ UNCHANGED <<graph, r>>

\* Nothing but the own major version is read.
marshal_load ==
  /\ phase = "load"
  /\ w.out[1] = 4
  /\ r' = r_object([r EXCEPT !.in = SubSeq(w.out, 3, Len(w.out))])
  /\ phase' = "done"
  /\ UNCHANGED <<graph, w>>

Init ==
  /\ graph \in Graphs /\ phase = "dump"
  /\ w = [out |-> <<>>, symbol |-> <<>>, data |-> <<>>, err |-> ""]
  /\ r = [in |-> <<>>, symbol |-> <<>>, data |-> <<>>, heap |-> <<>>, err |-> "", v |-> <<>>]
Next == marshal_dump \/ marshal_load
Spec == Init /\ [][Next]_mvars

-----------------------------------------------------------------------------
\* Nodes reached from the root
Refs(n) == {v[2] : v \in {x \in Range(graph.heap[n].body) : graph.heap[n].k \in
              {"array", "hash", "struct", "object"} /\ x[1] = "ref"}}
RECURSIVE ReachFrom(_)
ReachFrom(S) == LET T == S \cup UNION {Refs(n) : n \in S} IN IF T = S THEN S ELSE ReachFrom(T)
Reached == IF graph.root[1] = "ref" THEN ReachFrom({graph.root[2]}) ELSE {}
Values == {graph.root} \cup UNION {Range(graph.heap[n].body) :
            n \in {m \in Reached : graph.heap[m].k \in {"array", "hash", "struct", "object"}}}

\* What was loaded is the graph again, with its cycles and with what was shared
\* shared: some f maps the nodes one to one and everything in them.
Same ==
  /\ r.err = ""
  /\ \E f \in [Reached -> 1..Len(r.heap)] :
       LET To(v) == IF v[1] = "ref" THEN <<"ref", f[v[2]]>> ELSE v
       IN  /\ IsInjective(f)
           /\ r.v = To(graph.root)
           /\ \A n \in Reached :
                LET o == graph.heap[n]
                    p == r.heap[f[n]]
                    inner == o.k \in {"array", "hash", "struct", "object"}
                IN  /\ o.k = p.k /\ o.class = p.class /\ o.ivs = p.ivs
                    /\ p.body = IF inner THEN [i \in 1..Len(o.body) |-> To(o.body[i])] ELSE o.body

\* Whatever is dumped is loaded as the object it was: the numbers that links and
\* symbols get while writing are those they get while reading.  A module is
\* counted by the one and not by the other, a negative number is not read.
LoadsBack ==
  phase = "done" /\ w.err = ""
    /\ (\A v \in Values : v[1] # "mod" /\ (v[1] = "fix" => v[2] >= 0)) => Same

\* marshal.doc: load makes an object that is in the same state as the original.
LoadsSame == phase = "done" /\ w.err = "" => Same

=============================================================================
