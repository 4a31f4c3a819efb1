------------------------------ MODULE Regexp -------------------------------
(***************************************************************************)
(* re.c: Regexp objects and $~.  regex.c compiles a pattern under settings *)
(* that are global (the character code, in re_syntax_options) or the       *)
(* object's (translate, for ignoring case).  Both may have changed when    *)
(* the pattern is used: $KCODE and $= are variables.  So a search brings   *)
(* the settings back, or compiles once more.  What the program does is     *)
(* module Regex; here it is the settings it was compiled under.            *)
(***************************************************************************)
EXTENDS Integers, Sequences, FiniteSets

CONSTANTS
  Pattern,      \* sources of patterns
  FoldBad,      \* those that cannot be compiled with translate, such as [Z-a]
  Kcode,        \* character codes: "NONE", "EUC", "SJIS"
  MaxRegexp,    \* objects made
  Line          \* strings to search

VARIABLES
  ignorecase, reg_kcode,   \* $=, $KCODE
  options,                 \* the code in re_syntax_options
  regs,                    \* the objects: source, flags, what they are compiled for
  reg_cache,               \* the last pattern made of a string: object and $=
  backref,                 \* $~: the text searched and the settings used, or nil
  raised
rxvars == <<ignorecase, reg_kcode, options, regs, reg_cache, backref, raised>>

Nil == [text |-> "nil"]
Settings == [fold : BOOLEAN, kcode : Kcode]
Compiles(src, s) == ~(s.fold /\ src \in FoldBad)

-----------------------------------------------------------------------------
\* reg_new_1(): the flags, then make_regexp() under them, and the options back.
\* code = "none" asks for the code of the moment, which is not fixed.
Made(src, ign, code) ==
  [src |-> src, ign |-> ign, fixed |-> code # "none",
   kcode |-> IF code = "none" THEN reg_kcode ELSE code,
   translate |-> ign, broken |-> FALSE,
   code |-> [fold |-> ign, kcode |-> IF code = "none" THEN options ELSE code]]

reg_new_1(src, ign, code) ==
  /\ options' = reg_kcode
  /\ IF Compiles(src, [fold |-> ign, kcode |-> code])
     THEN regs' = Append(regs, Made(src, ign, code)) /\ raised' = FALSE
     ELSE raised' = TRUE /\ UNCHANGED regs

reg_s_new ==
  /\ Len(regs) < MaxRegexp
  /\ \E src \in Pattern \cup {r.src : r \in {regs[i] : i \in DOMAIN regs}} :
       \E ign \in BOOLEAN, code \in Kcode \cup {"none"} : reg_new_1(src, ign, code)
  /\ UNCHANGED <<ignorecase, reg_kcode, reg_cache, backref>>

\* The flag of a copy is FL_USER0, where reg_new_1() looks for 1: with it the
\* case is not ignored, and the code is not fixed.
reg_clone ==
  /\ Len(regs) < MaxRegexp
  /\ \E i \in DOMAIN regs :
       reg_new_1(regs[i].src, FALSE,
                 IF regs[i].fixed /\ ~regs[i].ign THEN regs[i].kcode ELSE "none")
  /\ UNCHANGED <<ignorecase, reg_kcode, reg_cache, backref>>

\* A string where a pattern is expected
reg_regcomp ==
  \E src \in Pattern :
    IF reg_cache.at # 0 /\ regs[reg_cache.at].src = src /\ reg_cache.ign = ignorecase
    THEN UNCHANGED rxvars
    ELSE /\ Len(regs) < MaxRegexp
         /\ reg_new_1(src, ignorecase, "none")
         \* ign_cache is set before, reg_cache after it may have raised.
         /\ reg_cache' = [at |-> IF raised' THEN reg_cache.at ELSE Len(regs'), ign |-> ignorecase]
         /\ UNCHANGED <<ignorecase, reg_kcode, backref>>

\* reg_search(): which settings are wanted, whether that takes a compilation
Wanted(r) ==
  [fold |-> ignorecase \/ r.ign, kcode |-> IF r.fixed THEN r.kcode ELSE reg_kcode]
\* Mutant: a new $KCODE is no reason to compile again.
NeedRecompile_kcode(r) == r.translate # Wanted(r).fold

NeedRecompile(r) ==
  r.translate # Wanted(r).fold \/ (~r.fixed /\ r.kcode # reg_kcode)
Refitted(r) ==
  [r EXCEPT !.translate = Wanted(r).fold, !.kcode = Wanted(r).kcode,
            !.broken = ~Compiles(r.src, Wanted(r)),
            !.code = IF Compiles(r.src, Wanted(r)) THEN Wanted(r) ELSE @]

reg_search ==
  \E i \in DOMAIN regs, line \in Line, hit \in BOOLEAN :
    LET r  == regs[i]
        r2 == IF NeedRecompile(r) THEN Refitted(r) ELSE r
    IN  /\ regs' = [regs EXCEPT ![i] = r2]
        /\ options' = reg_kcode                              \* kcode_reset_option()
        /\ raised' = (NeedRecompile(r) /\ r2.broken)
        /\ backref' = IF raised' THEN backref
                      ELSE IF hit THEN [text |-> line, wanted |-> Wanted(r), code |-> r2.code,
                                        options |-> Wanted(r).kcode, broken |-> r2.broken]
                      ELSE Nil
        /\ UNCHANGED <<ignorecase, reg_kcode, reg_cache>>

-----------------------------------------------------------------------------
kcode_setter ==
  /\ reg_kcode' \in Kcode /\ options' = reg_kcode' /\ raised' = FALSE
  /\ UNCHANGED <<ignorecase, regs, reg_cache, backref>>
IgnorecaseSet ==
  /\ ignorecase' \in BOOLEAN /\ raised' = FALSE
  /\ UNCHANGED <<reg_kcode, options, regs, reg_cache, backref>>

Init ==
  /\ ignorecase = FALSE /\ reg_kcode = "EUC" /\ options = "EUC"
  /\ regs = <<>> /\ reg_cache = [at |-> 0, ign |-> FALSE]
  /\ backref = Nil /\ raised = FALSE

Next == reg_s_new \/ reg_clone \/ reg_regcomp \/ reg_search \/ kcode_setter \/ IgnorecaseSet
Spec == Init /\ [][Next]_rxvars

-----------------------------------------------------------------------------
\* Whatever was assigned to $= and $KCODE since it was made, and whichever
\* pattern was used in between, a pattern is run as compiled for the settings it
\* is used under, and the settings are $KCODE's again afterwards.  (Not a pattern
\* whose compilation failed half way: its translate says that it is done.)
CompiledFor ==
  /\ options = reg_kcode
  /\ backref # Nil /\ ~backref.broken => backref.code = backref.wanted

=============================================================================
