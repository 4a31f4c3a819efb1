------------------------------- MODULE Class --------------------------------
(***************************************************************************)
(* Classes, modules, method tables and the method cache: class.c and the   *)
(* method part of eval.c.                                                  *)
(*                                                                         *)
(* A class or module c is followed, on the way to its superclass, by one   *)
(* T_ICLASS for every module it includes.  New ones go to the front, so    *)
(* the k-th oldest is named by the cell <<c, k>> for good, and <<c, 0>> is *)
(* c itself.  A T_ICLASS shares the method table of its module.            *)
(*                                                                         *)
(* One object and its singleton class stand for the receivers; methods are *)
(* looked up for it and, by super, for the frame of the last call.         *)
(***************************************************************************)
EXTENDS Naturals, FiniteSets, Sequences, SequencesExt

CONSTANTS
  Cls,        \* classes, Object and Single among them
  Module,
  Object,     \* cObject
  Single,     \* what singleton_class_new() returns for the object
  Mid, Body,
  None,
  MaxDefs,    \* bound on the number of definitions
  Uses,       \* a subset of {"alias_module", "alias_alias", "export_module"}
  EXPR1(_, _) \* the slot of the cache, from cell and method id

VARIABLES
  super,      \* the superclass, None for Object and classes not made yet
  incl,       \* the modules of the T_ICLASSes, oldest first
  m_tbl,      \* method tables: an entry or None for every id
  klass,      \* the class of the object, None before it is created
  cache,      \* slot -> entry or None
  call,       \* the rb_call() that looks for its method, or None
  frame,      \* last_class and last_func of the last call, None at toplevel
  adding,     \* the NODE_DEFS that calls singleton_method_added, or None
  defs,       \* number of definitions so far
  unflushed   \* ids whose tables changed in a way that spares the cache

vars == <<super, incl, m_tbl, klass, cache, call, frame, adding, defs, unflushed>>
tables == <<super, incl, m_tbl, defs, unflushed>>

Owner == Cls \cup Module
Garbage == <<"garbage", 0>>
Noex == {"public", "private"}

\* The entry of a method table: NODE_METHOD, and NODE_FBODY below it for an
\* alias (orig # None).  node is the body, "undef" for 0, or "zsuper".
Method(node, noex) == [node |-> node, noex |-> noex, orig |-> None, mid |-> None]
Fbody(node, noex, def, origin) ==
  [node |-> node, noex |-> noex, orig |-> origin, mid |-> def]

Made(c) == c \in Module \cup {Object} \/ super[c] # None

-----------------------------------------------------------------------------
\* Walking the superclass chain.

Table(cell) == IF cell[2] = 0 THEN cell[1] ELSE incl[cell[1]][cell[2]]

Segment(c) == <<<<c, 0>>>> \o [i \in 1..Len(incl[c]) |-> <<c, Len(incl[c]) + 1 - i>>]

\* The classes from c up to Object, and the cells met on the way.
Chain(c) ==
  LET up[d \in Owner] == IF super[d] = None THEN Segment(d) ELSE Segment(d) \o up[super[d]]
  IN  up[c]

Place(cell, chain) == SelectInSeq(chain, LAMBDA x : x = cell)

Super(cell) ==
  LET chain == Chain(cell[1])
      next == Place(cell, chain) + 1
  IN  IF next > Len(chain) THEN None ELSE chain[next]

\* The first cell at or above cell whose table has id; None if there is none.
search_method(cell, id) ==
  LET chain == Chain(cell[1])
      first == Place(cell, chain)
      hits == {i \in first..Len(chain) : m_tbl[Table(chain[i])][id] # None}
  IN  IF hits = {} THEN None ELSE chain[Min(hits)]

Found(cell, id) ==
  LET origin == search_method(cell, id)
  IN  origin # None /\ m_tbl[Table(origin)][id].node # "undef"

\* Mutant: the receiver's class for the class where the method is defined.
Fill_class(cell, id) ==
  LET origin == search_method(cell, id)
      e == m_tbl[Table(origin)][id]
  IN  [class |-> cell, mid |-> id, node |-> e.node, noex |-> e.noex,
       origin |-> IF klass = None THEN origin ELSE <<klass, 0>>, mid0 |-> id]

\* What rb_get_method_body() stores in the cache for a method it finds.
Fill(cell, id) ==
  LET origin == search_method(cell, id)
      e == m_tbl[Table(origin)][id]
  IN  [class |-> cell, mid |-> id, node |-> e.node, noex |-> e.noex,
       origin |-> IF e.orig = None THEN origin ELSE e.orig,
       mid0 |-> IF e.orig = None THEN id ELSE e.mid]

-----------------------------------------------------------------------------
\* The cache.  rb_get_method_body() and rb_call() fill it; rb_clear_cache()
\* is called by some of the operations that change tables.

Cached(cell, id) ==
  LET e == cache[EXPR1(cell, id)] IN e # None /\ e.class = cell /\ e.mid = id

Entry(cell, id) == IF Cached(cell, id) THEN cache[EXPR1(cell, id)] ELSE Fill(cell, id)

Store(e) == cache' = [cache EXCEPT ![EXPR1(e.class, e.mid)] = e]

Cleared == [s \in DOMAIN cache |-> None]

rb_clear_cache == cache' = Cleared /\ unflushed' = {}

\* The operation leaves the cache alone though id is new in a place where
\* calls may have passed, or changed where they end.
Spares(id, passed) ==
  UNCHANGED cache /\ unflushed' = unflushed \cup {i \in {id} : passed}

rb_add_method(c, id, e) == m_tbl' = [m_tbl EXCEPT ![c][id] = e]

Defining == defs < MaxDefs /\ defs' = defs + 1 /\ call = None

-----------------------------------------------------------------------------
\* Definitions.

\* NODE_CLASS for a new name: rb_define_class_id().
DefineClass(c, parent) ==
  /\ Defining
  /\ ~Made(c) /\ c # Single
  /\ Made(parent) /\ parent \in Cls \ {Single}
  /\ super' = [super EXCEPT ![c] = parent]
  /\ UNCHANGED <<incl, m_tbl, klass, cache, call, frame, adding, unflushed>>

\* NODE_CLASS for a class that exists.
ReopenClass ==
  /\ call = None
  /\ rb_clear_cache
  /\ UNCHANGED <<super, incl, m_tbl, klass, call, frame, adding, defs>>

\* NODE_DEFN.  A method found before keeps its visibility, and clears the
\* cache; a module, though, may be included where its name was found elsewhere.
\* A new method is public, or private when it is defined at toplevel.
NODE_DEFN(c, id, body, noex) ==
  /\ Defining /\ Made(c)
  /\ noex = "private" => c = Object
  /\ LET old == search_method(<<c, 0>>, id) IN
     /\ rb_add_method(c, id, Method(body, IF old = None THEN noex
                                          ELSE m_tbl[Table(old)][id].noex))
     /\ IF old # None THEN rb_clear_cache ELSE Spares(id, c \in Module)
  /\ UNCHANGED <<super, incl, klass, call, frame, adding>>

\* Mutant: undef leaves the cache alone.
NODE_UNDEF_uncleared(c, id) ==
  /\ Defining /\ Made(c)
  /\ Found(<<c, 0>>, id)
  /\ rb_add_method(c, id, Method("undef", "public"))
  /\ UNCHANGED <<super, incl, klass, cache, unflushed, call, frame, adding>>

\* NODE_UNDEF; the NameError for a name that is not found changes nothing.
NODE_UNDEF(c, id) ==
  /\ Defining /\ Made(c)
  /\ Found(<<c, 0>>, id)
  /\ rb_clear_cache
  /\ rb_add_method(c, id, Method("undef", "public"))
  /\ UNCHANGED <<super, incl, klass, call, frame, adding>>

\* Where rb_alias() and rb_export_method() look: a module falls back on Object.
Visible(c, id, ok) ==
  IF ~ok /\ c \in Module THEN search_method(<<Object, 0>>, id)
  ELSE search_method(<<c, 0>>, id)

\* NODE_ALIAS.  The original of an alias is taken from the wrong node: name
\* and origin are then read from the fields of the body.
rb_alias(c, name, def) ==
  /\ Defining /\ Made(c) /\ name # def
  /\ "alias_module" \in Uses \/ c \in Cls
  /\ LET origin == Visible(c, def, Found(<<c, 0>>, def))
         orig == m_tbl[Table(origin)][def]
     IN
     /\ origin # None
     /\ orig.node # "undef"
     /\ orig.orig # None => "alias_alias" \in Uses
     /\ rb_add_method(c, name,
          IF orig.orig = None THEN Fbody(orig.node, orig.noex, def, origin)
          ELSE Fbody(orig.node, orig.noex, def, Garbage))
  /\ Spares(name, c \in Module \/ search_method(<<c, 0>>, name) # None)
  /\ UNCHANGED <<super, incl, klass, call, frame, adding>>

\* public and private.  A module that changes the visibility of a method that it
\* finds in Object, or in a module that it includes, enters a NODE_ZSUPER that a
\* call may not get past when Object includes the module (export_module).
rb_export_method(c, name, noex) ==
  /\ Defining /\ Made(c)
  /\ LET origin == Visible(c, name, search_method(<<c, 0>>, name) # None) IN
     /\ origin # None
     /\ (c \in Module /\ origin # <<c, 0>>) => "export_module" \in Uses
     /\ m_tbl[Table(origin)][name].noex # noex
     /\ IF origin = <<c, 0>>
        THEN /\ rb_add_method(c, name, [m_tbl[c][name] EXCEPT !.noex = noex])
             /\ Spares(name, TRUE)
        ELSE /\ rb_add_method(c, name, Method("zsuper", noex))
             /\ rb_clear_cache
  /\ UNCHANGED <<super, incl, klass, call, frame, adding>>

\* The modules rb_include_module() puts in front of the chain, nearest first:
\* the module and what it includes itself, up to the first one that is there.
Missing(m, chain) ==
  LET had == {Table(x) : x \in {y \in Range(chain) : y[2] > 0}}
      own == [i \in 1..Len(Chain(m)) |-> Table(Chain(m)[i])]
      stop == SelectInSeq(own, LAMBDA t : t \in had)
  IN  IF stop = 0 THEN own ELSE SubSeq(own, 1, stop - 1)

rb_include_module(c, m) ==
  /\ Defining /\ Made(c) /\ c # m
  /\ rb_clear_cache
  /\ incl' = [incl EXCEPT ![c] = @ \o Reverse(Missing(m, Chain(c)))]
  /\ UNCHANGED <<super, m_tbl, klass, call, frame, adding>>

-----------------------------------------------------------------------------
\* The object and its singleton class.

class_new_instance(c) ==
  /\ call = None /\ klass = None
  /\ Made(c) /\ c \in Cls \ {Single}
  /\ klass' = c
  /\ UNCHANGED <<super, incl, m_tbl, cache, call, frame, adding, defs, unflushed>>

rb_singleton_class ==
  /\ klass # None
  /\ klass' = Single
  /\ super' = IF klass = Single THEN super ELSE [super EXCEPT ![Single] = klass]

\* NODE_SCLASS: class << obj.  Only a singleton class that exists clears the cache.
NODE_SCLASS ==
  /\ call = None
  /\ rb_singleton_class
  /\ IF klass = Single THEN rb_clear_cache ELSE UNCHANGED <<cache, unflushed>>
  /\ UNCHANGED <<incl, m_tbl, call, frame, adding, defs>>

\* NODE_DEFS: the cache is cleared, singleton_method_added runs (any Ruby
\* code), and only then is the method entered.
DefsBegin(id, body) ==
  /\ Defining /\ adding = None
  /\ rb_singleton_class
  /\ rb_clear_cache
  /\ adding' = <<id, body>>
  /\ UNCHANGED <<incl, m_tbl, call, frame>>

DefsEnd ==
  /\ call = None /\ adding # None
  /\ rb_add_method(Single, adding[1], Method(adding[2], "public"))
  /\ Spares(adding[1], TRUE)
  /\ adding' = None
  /\ UNCHANGED <<super, incl, klass, call, frame, defs>>

\* Object#extend.
rb_extend_object(m) ==
  /\ Defining
  /\ rb_singleton_class
  /\ rb_clear_cache
  /\ incl' = [incl EXCEPT ![Single] = @ \o Reverse(Missing(m, Chain(klass)))]
  /\ UNCHANGED <<m_tbl, call, frame, adding>>

-----------------------------------------------------------------------------
\* Calls.  One step is one pass of rb_call() from `again'; nothing else runs
\* while call # None.

Calls(cell, id, scope) == call' = [cell |-> cell, mid |-> id, scope |-> scope]

\* NODE_CALL and NODE_FCALL.
Call(id, scope) ==
  /\ call = None /\ klass # None
  /\ Calls(<<klass, 0>>, id, scope)
  /\ UNCHANGED <<tables, klass, cache, frame, adding>>

\* NODE_SUPER, from the frame of the method that runs.
SuperCall ==
  /\ call = None /\ frame # None
  /\ Calls(Super(frame.last_class), frame.last_func, "self")
  /\ UNCHANGED <<tables, klass, cache, frame, adding>>

Return ==
  /\ call = None /\ frame # None
  /\ frame' = None
  /\ UNCHANGED <<tables, klass, cache, call, adding>>

\* The method does not exist: rb_undefined() raises NameError.
CallUndefined ==
  /\ call # None /\ call.cell # None
  /\ ~Cached(call.cell, call.mid) /\ ~Found(call.cell, call.mid)
  /\ call' = None
  /\ UNCHANGED <<tables, klass, cache, frame, adding>>

CallFound ==
  /\ call # None /\ call.cell # None
  /\ Cached(call.cell, call.mid) \/ Found(call.cell, call.mid)
  /\ Store(Entry(call.cell, call.mid))
  /\ UNCHANGED <<tables, klass, adding>>

Hidden(e) == e.noex = "private" /\ call.scope = "recv"

CallPrivate ==
  /\ CallFound
  /\ Hidden(Entry(call.cell, call.mid))
  /\ call' = None
  /\ UNCHANGED frame

\* Mutant: the search for the method proper starts at the receiver again.
CallZsuper_self ==
  /\ CallFound
  /\ LET e == Entry(call.cell, call.mid) IN
     /\ ~Hidden(e)
     /\ e.node = "zsuper"
     /\ Calls(<<klass, 0>>, e.mid0, "self")
  /\ UNCHANGED frame

\* A NODE_ZSUPER only changes the visibility: the call goes on above the class
\* of the entry.  An entry without superclass is that of a module, whose
\* T_ICLASS is looked for in the classes of the receiver.
CallZsuper ==
  /\ CallFound
  /\ LET e == Entry(call.cell, call.mid)
         own == SelectInSeq(Chain(klass), LAMBDA x : Table(x) = Table(e.origin))
     IN
     /\ ~Hidden(e)
     /\ e.node = "zsuper"
     /\ Calls(IF Super(e.origin) # None THEN Super(e.origin)
              ELSE IF own = 0 THEN None ELSE Chain(klass)[own], e.mid0, "self")
  /\ UNCHANGED frame

CallEnters ==
  /\ CallFound
  /\ LET e == Entry(call.cell, call.mid) IN
     /\ ~Hidden(e)
     /\ e.node # "zsuper"
     /\ frame' = [last_class |-> e.origin, last_func |-> e.mid0, node |-> e.node,
                  from |-> call.cell]
  /\ call' = None

\* respond_to?, method_defined? and attr: rb_get_method_body() fills the cache.
method_boundp(c, id) ==
  /\ call = None /\ Made(c)
  /\ Found(<<c, 0>>, id)
  /\ Store(Fill(<<c, 0>>, id))
  /\ UNCHANGED <<tables, klass, call, frame, adding>>

-----------------------------------------------------------------------------
Init ==
  /\ super = [c \in Owner |-> None]
  /\ incl = [c \in Owner |-> <<>>]
  /\ m_tbl = [c \in Owner |-> [id \in Mid |-> None]]
  /\ klass = None
  /\ cache = [s \in {EXPR1(<<c, 0>>, id) : c \in Owner, id \in Mid} |-> None]
  /\ call = None /\ frame = None /\ adding = None
  /\ defs = 0 /\ unflushed = {}

Define ==
  \/ \E c \in Cls, p \in Cls : DefineClass(c, p)
  \/ \E c \in Owner, id \in Mid, b \in Body, x \in Noex : NODE_DEFN(c, id, b, x)
  \/ \E c \in Owner, id \in Mid : NODE_UNDEF(c, id)
  \/ \E c \in Owner, id \in Mid, old \in Mid : rb_alias(c, id, old)
  \/ \E c \in Owner, id \in Mid, x \in Noex : rb_export_method(c, id, x)
  \/ \E c \in Owner, m \in Module : rb_include_module(c, m)
  \/ \E id \in Mid, b \in Body : DefsBegin(id, b)
  \/ \E m \in Module : rb_extend_object(m)

Dispatch == CallUndefined \/ CallPrivate \/ CallZsuper \/ CallEnters

Next ==
  \/ Define
  \/ ReopenClass
  \/ NODE_SCLASS
  \/ DefsEnd
  \/ \E c \in Cls : class_new_instance(c)
  \/ \E id \in Mid, s \in {"recv", "self"} : Call(id, s)
  \/ SuperCall
  \/ Return
  \/ Dispatch
  \/ \E c \in Owner, id \in Mid : method_boundp(c, id)

Spec == Init /\ [][Next]_vars

-----------------------------------------------------------------------------
\* Every variable keeps its type.
TypeOK ==
  /\ super \in [Owner -> Cls \cup {None}]
  /\ DOMAIN incl = Owner /\ \A c \in Owner : incl[c] \in Seq(Module)
  /\ klass \in Cls \cup {None} /\ (klass # None => Made(klass))
  /\ defs \in 0..MaxDefs /\ unflushed \subseteq Mid
  /\ \A c \in Owner, id \in Mid :
       m_tbl[c][id] = None \/ (m_tbl[c][id].node \in Body \cup {"undef", "zsuper"}
                               /\ m_tbl[c][id].noex \in Noex)

\* An entry of the method cache is what the tables say now, for every name
\* but those that alias, private and public on an own method, a definition
\* in an included module, or def obj.name changed since the cache was cleared:
\* all other operations clear it, or change nothing calls can have passed.
CacheCurrent ==
  \A s \in DOMAIN cache :
    LET e == cache[s] IN
      (e # None /\ e.mid \notin unflushed) =>
        /\ Found(e.class, e.mid)
        /\ e = Fill(e.class, e.mid)

\* The class rb_call() notes in the frame (where super starts) is one of the
\* classes of the receiver, and not below the class where the search began:
\* a super call runs a method further up, never the same one again.
FrameInChain ==
  frame # None =>
    LET chain == Chain(klass) IN
      /\ Place(frame.from, chain) > 0
      /\ Place(frame.last_class, chain) >= Place(frame.from, chain)

\* A call that meets entries which only change the visibility goes up the
\* classes of the receiver with every pass, so that it ends; its class is
\* never 0, which the code would follow.
CallClimbs ==
  [][(call # None /\ call' # None) =>
       /\ call'.cell # None
       /\ Place(call'.cell, Chain(klass)) > Place(call.cell, Chain(klass))]_vars

=============================================================================
