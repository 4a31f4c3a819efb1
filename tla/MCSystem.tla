------------------------------ MODULE MCSystem ------------------------------
(***************************************************************************)
(* What the interpreter offers around the object system, for TLC: ARGF,    *)
(* Marshal, Dir.glob, the iterators of Enumerable and the methods of Array *)
(* that make a new one.  A behaviour exercises one of them, and the others *)
(* stay as they are.                                                       *)
(***************************************************************************)
EXTENDS Integers, Sequences, MCSystemInputs

CONSTANTS
  Exercised,                                              \* the parts to exercise
  Name, Content, Absent, Stuck, ArgvMax, BufLen, PrintMax, \* Argf
  Graphs, Builtin, Member, LongBytes, Base,               \* Marshal
  Patterns, Order,                                        \* Glob
  Num, MaxItems, MaxChanges,                              \* Enum
  Calls                                                   \* ArrayOps

VARIABLES
  which,
  argf, hist,
  graph, w, r, phase,
  glob, glob_p, todo, glob_out, state,
  op, val, ary, ary_len, counter, memo, said, changes, enum_out,
  call, answer, done

AR == INSTANCE Argf WITH a <- argf
MA == INSTANCE Marshal
GL == INSTANCE Glob WITH job <- glob, p <- glob_p, out <- glob_out, Jobs <- Patterns
EN == INSTANCE Enum WITH len <- ary_len, i <- counter, out <- enum_out
AO == INSTANCE ArrayOps WITH job <- call, out <- answer

arvars == <<argf, hist>>
mavars == <<graph, w, r, phase>>
glvars == <<glob, glob_p, todo, glob_out, state>>
envars == <<op, val, ary, ary_len, counter, memo, said, changes, enum_out>>
aovars == <<call, answer, done>>
vars == <<which, arvars, mavars, glvars, envars, aovars>>

Idle == "idle"
Init ==
  /\ which \in Exercised
  /\ IF which = "Argf" THEN AR!Init
     ELSE /\ argf = Idle /\ hist = Idle
  /\ IF which = "Marshal" THEN MA!Init
     ELSE /\ graph = Idle /\ w = Idle /\ r = Idle /\ phase = Idle
  /\ IF which = "Glob" THEN GL!Init
     ELSE /\ glob = Idle /\ glob_p = Idle /\ todo = Idle /\ glob_out = Idle
          /\ state = Idle
  /\ IF which = "Enum" THEN EN!Init
     ELSE /\ op = Idle /\ val = Idle /\ ary = Idle /\ ary_len = Idle
          /\ counter = Idle /\ memo = Idle /\ said = Idle /\ changes = Idle
          /\ enum_out = Idle
  /\ IF which = "ArrayOps" THEN AO!Init
     ELSE /\ call = Idle /\ answer = Idle /\ done = Idle

Next ==
  /\ UNCHANGED which
  /\ \/ which = "Argf" /\ AR!Next
        /\ UNCHANGED <<mavars, glvars, envars, aovars>>
     \/ which = "Marshal" /\ MA!Next
        /\ UNCHANGED <<arvars, glvars, envars, aovars>>
     \/ which = "Glob" /\ GL!Next
        /\ UNCHANGED <<arvars, mavars, envars, aovars>>
     \/ which = "Enum" /\ EN!Next
        /\ UNCHANGED <<arvars, mavars, glvars, aovars>>
     \/ which = "ArrayOps" /\ AO!Next
        /\ UNCHANGED <<arvars, mavars, glvars, envars>>

Spec == Init /\ [][Next]_vars

-----------------------------------------------------------------------------
\* The files that ARGF reads; "-" is the standard input.
Files == {"f", "g", "h", "e"}
Contents == ("f" :> <<"a", "\n">>) @@ ("g" :> <<"\n", "a", "x">>) @@ ("-" :> <<"a">>)
            @@ ("h" :> <<>>) @@ ("e" :> <<>>)

-----------------------------------------------------------------------------
\* What must hold of each part, as its module states it; a property of the run
\* puts together what belongs together.

\* ARGF reads its files in order, by whole lines, and -i writes to the file it
\* reads (io.c, Argf).
ArgfInOrder == which = "Argf" => AR!ArgfInOrder /\ AR!LineExact /\ AR!InplaceOwn
\* Marshal.load makes again what Marshal.dump was given (marshal.c, Marshal).
LoadsBack == which = "Marshal" => MA!LoadsBack
\* Dir.glob finds the names its patterns stand for (dir.c, glob.c, fnmatch.c, Glob).
GlobExact == which = "Glob" => GL!GlobExact
\* The iterators and the new arrays are what the elements say (enum.c, array.c).
CallsAgree ==
  /\ which = "Enum" => EN!EnumAgrees
  /\ which = "ArrayOps" => AO!ArrayMeans

=============================================================================
