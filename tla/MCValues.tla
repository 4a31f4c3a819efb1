------------------------------ MODULE MCValues ------------------------------
(***************************************************************************)
(* Values and their methods, for TLC: numbers and hashes, and what is made *)
(* of strings: compiled regular expressions, the methods of String, pack,  *)
(* Kconv, sprintf and Time.  A behaviour exercises one of them, and the    *)
(* others stay as they are.                                                *)
(***************************************************************************)
EXTENDS Integers, Sequences, FiniteSetsExt, MCTextInputs

CONSTANTS
  Exercised,                                                  \* the parts to exercise
  DigitBits, Form, Literals, Shifts, Powers,                  \* Bignum
  Key, Stored, InitBins, MaxDensity, Load, MaxEntries,        \* Hash
  MaxIter,
  Subjects, Texts, MaxNest, MaxExact, DupMax, MaxFailures,    \* Regex
  Strings,                                                    \* StrOps
  Templates, Size,                                            \* Pack
  Conversions, Cv, Dv, Ev, MimePattern, MimeEncode, HoldSize, \* Kconv
  Formats, WordBits,                                          \* Sprintf
  Dates, Nows, Offset(_), MaxTime, Spans, MaxOps              \* Time

VARIABLES
  which,
  num, did,
  bins, ent, num_entries, rehashed, iters, map, upset,
  subject, at, buf, comp, walk, text, startpos, m,
  job, out, done,
  p_job, packed, unpacked, phase,
  k_job, call, k,
  call_f, p, flags, width, prec, buf_f, argv, f_pc,
  t_pc, args, gmt_fn, guess, obj, answer, ops

\* Digits of four bits.  Base 3 is to them what 10 is to the code's (9 < 16, as
\* 10000 < 65536), base 4 what 16 is (a remainder is a whole digit), and 2 what
\* 8 is.
Bases ==
  [b \in {2, 3, 4} |->
    CASE b = 2 -> [chunk |-> 2, num |-> 1, den |-> 1, wide |-> 1]
      [] b = 3 -> [chunk |-> 2, num |-> 631, den |-> 1000, wide |-> 2]
      [] b = 4 -> [chunk |-> 2, num |-> 1, den |-> 2, wide |-> 2]]

\* Zero and one, the ends of Fixnum, ends of digits, and operands whose
\* quotients are estimated too large by one and by two.
Numbers ==
  LET pos == {0, 1, 3, 7, 15, 16, 17, 35, 63, 64, 65, 127, 142, 240, 255, 256, 257, 384, 417,
              2048, 4093, 4095, 4096}
  IN  pos \cup {-n : n \in pos}
\* Within a digit, whole digits, over the width of an int, and backwards.
Widths == {-5, -1, 0, 1, 3, 4, 5, 7, 8, 9, 12, 13}

N == INSTANCE Bignum WITH BITSPERDIG <- DigitBits
H == INSTANCE Hash WITH Val <- Stored
RE == INSTANCE Regex
SO == INSTANCE StrOps WITH Jobs <- Strings
PK == INSTANCE Pack WITH Jobs <- Templates, job <- p_job
KC == INSTANCE Kconv WITH Jobs <- Conversions, job <- k_job
SP == INSTANCE Sprintf
TI == INSTANCE Time

nvars == <<num, did>>
hvars == <<bins, ent, num_entries, rehashed, iters, map, upset>>
revars == <<subject, at, buf, comp, walk, text, startpos, m>>
sovars == <<job, out, done>>
pkvars == <<p_job, packed, unpacked, phase>>
kcvars == <<k_job, call, k>>
spvars == <<call_f, p, flags, width, prec, buf_f, argv, f_pc>>
tivars == <<t_pc, args, gmt_fn, guess, obj, answer, ops>>
textvars == <<revars, sovars, pkvars, kcvars, spvars, tivars>>
vars == <<which, nvars, hvars, textvars>>

Idle == "idle"
Init ==
  /\ which \in Exercised
  /\ N!Init /\ H!Init
  /\ which # "Bignum" => num = N!Literal(0)
  /\ IF which = "Regex" THEN RE!Init
     ELSE /\ subject = Idle /\ at = Idle /\ buf = Idle /\ comp = Idle
          /\ walk = Idle /\ text = Idle /\ startpos = Idle /\ m = Idle
  /\ IF which = "StrOps" THEN SO!Init ELSE job = Idle /\ out = Idle /\ done = Idle
  /\ IF which = "Pack" THEN PK!Init
     ELSE p_job = Idle /\ packed = Idle /\ unpacked = Idle /\ phase = Idle
  /\ IF which = "Kconv" THEN KC!Init ELSE k_job = Idle /\ call = Idle /\ k = Idle
  /\ IF which = "Sprintf" THEN SP!Init
     ELSE /\ call_f = Idle /\ p = Idle /\ flags = Idle /\ width = Idle
          /\ prec = Idle /\ buf_f = Idle /\ argv = Idle /\ f_pc = Idle
  /\ IF which = "Time" THEN TI!Init
     ELSE /\ t_pc = Idle /\ args = Idle /\ gmt_fn = Idle /\ guess = Idle
          /\ obj = Idle /\ answer = Idle /\ ops = Idle

TextNext ==
  /\ UNCHANGED <<nvars, hvars>>
  /\ \/ which = "Regex" /\ RE!Next /\ UNCHANGED <<sovars, pkvars, kcvars, spvars, tivars>>
     \/ which = "StrOps" /\ SO!Next /\ UNCHANGED <<revars, pkvars, kcvars, spvars, tivars>>
     \/ which = "Pack" /\ PK!Next /\ UNCHANGED <<revars, sovars, kcvars, spvars, tivars>>
     \/ which = "Kconv" /\ KC!Next /\ UNCHANGED <<revars, sovars, pkvars, spvars, tivars>>
     \/ which = "Sprintf" /\ SP!Next /\ UNCHANGED <<revars, sovars, pkvars, kcvars, tivars>>
     \/ which = "Time" /\ TI!Next /\ UNCHANGED <<revars, sovars, pkvars, kcvars, spvars>>

Next ==
  /\ UNCHANGED which
  /\ \/ which = "Bignum" /\ N!Next /\ UNCHANGED <<hvars, textvars>>
     \/ which = "Hash" /\ H!Next /\ UNCHANGED <<nvars, textvars>>
     \/ TextNext

Spec == Init /\ [][Next]_vars

-----------------------------------------------------------------------------
\* What must hold of the parts, as their modules state it; a property puts together
\* what belongs together.

\* Integers are what arithmetic says, and come back from their digits (bignum.c).
IntegersExact == which = "Bignum" => N!TypeOK /\ N!IntegersExact /\ N!RoundTrip
\* A table holds what was stored, and keeps the entries an iteration stands on
\* (st.c, hash.c).
HashAgrees  == which = "Hash" => H!TypeOK /\ H!HashAgrees /\ H!EntryHeld
\* An iteration that ends by itself has yielded what stayed in the table (hash.c).
EachVisits  == H!EachVisits
\* A compiled pattern matches where its meaning says, or refuses (regex.c).
MatchExact  == which = "Regex" => RE!MatchExact
\* The methods of String, pack and unpack, Kconv, sprintf and Time return what their
\* definitions say of their arguments (string.c, pack.c, kconv.c, sprintf.c, time.c).
ResultExact ==
  /\ which = "StrOps" => SO!EditExact /\ SO!PiecesExact
  /\ which = "Pack" => PK!Unpacks
  /\ which = "Kconv" => KC!Converts
  /\ which = "Sprintf" => SP!SprintfExact
  /\ which = "Time" => TI!SearchExact /\ TI!TimeExact

=============================================================================
