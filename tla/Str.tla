-------------------------------- MODULE Str --------------------------------
(***************************************************************************)
(* string.c: String objects and the memory they share.  A string has a     *)
(* buffer of its own, or that of the string orig is: the literal it was    *)
(* evaluated from, or the copy $~ keeps of a text that was searched.       *)
(* Nothing counts the users of a buffer: the string without an orig frees  *)
(* it, and whatever changes a string must call str_modify() before.        *)
(***************************************************************************)
EXTENDS Integers, Sequences, SequencesExt, FiniteSets, FiniteSetsExt

CONSTANTS
  Byte,         \* contents
  Up,           \* what upcase! and the like make of one
  MaxStr,       \* objects
  MaxBuf,       \* buffers
  MaxStrLen

VARIABLES
  strs,         \* the objects: ptr, len, orig (0 for none), frozen, and role
  mem,          \* the buffers, Freed or a sequence of bytes
  val           \* what each string should read
svars == <<strs, mem, val>>

Id   == 1..MaxStr
Ptr  == 1..MaxBuf
Freed == <<"freed">>
Gone == [role |-> "free", ptr |-> 0, len |-> 0, orig |-> 0, frozen |-> FALSE]

\* The roles: a literal in the syntax tree, what the program has, the text in $~,
\* and garbage the collector has yet to find.
Roles == {"lit", "user", "match", "garbage", "free"}
Live  == {i \in Id : strs[i].role # "free"}
Users == {i \in Id : strs[i].role = "user"}
Values == UNION {[1..n -> Byte] : n \in 0..MaxStrLen}

Room == Live # Id
NewId == Min(Id \ Live)
Buffers == {p \in Ptr : mem[p] # Freed}
RoomMem == Buffers # Ptr
Fresh == Min(Ptr \ Buffers)

Text(i) == SubSeq(mem[strs[i].ptr], 1, strs[i].len)
Object(p, n, o, role, frozen) ==
  [role |-> role, ptr |-> p, len |-> n, orig |-> o, frozen |-> frozen]

-----------------------------------------------------------------------------
(* Making strings *)

\* str_new(): a buffer of its own
Copied(v, role, frozen) ==
  /\ Room /\ RoomMem
  /\ mem' = [mem EXCEPT ![Fresh] = v]
  /\ strs' = [strs EXCEPT ![NewId] = Object(Fresh, Len(v), 0, role, frozen)]
  /\ val' = [val EXCEPT ![NewId] = v]

str_new == \E v \in Values : Copied(v, "user", FALSE)

\* str_dup(), str_s_new(), and str_dup_freezed() for the key of a hash
str_dup == \E i \in Users, f \in BOOLEAN : Copied(Text(i), "user", f)

\* str_new3(): the value of a literal
str_new3(o) ==
  /\ Room
  /\ strs' = [strs EXCEPT ![NewId] = Object(strs[o].ptr, strs[o].len, o, "user", FALSE)]
  /\ val' = [val EXCEPT ![NewId] = val[o]]
  /\ UNCHANGED mem
NODE_STR == \E o \in Id : strs[o].role = "lit" /\ str_new3(o)

\* CLONESETUP() copies the flags, frozen among them.
str_clone ==
  \E i \in Users :
    IF strs[i].orig # 0
    THEN /\ Room
         /\ LET o == strs[i].orig
            IN  strs' = [strs EXCEPT ![NewId] =
                          Object(strs[o].ptr, strs[o].len, o, "user", strs[i].frozen)]
         /\ val' = [val EXCEPT ![NewId] = val[i]] /\ UNCHANGED mem
    ELSE Copied(Text(i), "user", strs[i].frozen)

\* str_new4(), for $~: the string gives its buffer away, unless it is another's.
str_new4(i) ==
  LET o == strs[i].orig
      s == [strs EXCEPT ![NewId] = Object(strs[i].ptr, strs[i].len, o, "match", FALSE)]
  IN  IF o # 0 THEN s ELSE [s EXCEPT ![i].orig = NewId]
reg_search ==
  \E i \in Users :
    /\ Room
    /\ strs' = [j \in Id |-> IF strs[j].role = "match"
                             THEN [str_new4(i)[j] EXCEPT !.role = "garbage"] ELSE str_new4(i)[j]]
    /\ val' = [val EXCEPT ![NewId] = val[i]] /\ UNCHANGED mem

str_freeze ==
  \E i \in Users : strs' = [strs EXCEPT ![i].frozen = TRUE] /\ UNCHANGED <<mem, val>>

-----------------------------------------------------------------------------
(* Changing them: each begins with str_modify(), which raises for a frozen  *)
(* string and gives one that shares a buffer one of its own.                *)

Owner(i, p) == [strs EXCEPT ![i].ptr = p, ![i].orig = 0]
\* Mutant: the bytes are changed where another string has them too.
str_modify_shared(i) == [s |-> strs, m |-> mem]

\* The string and the memory behind str_modify(), as [s, m]
str_modify(i) ==
  IF strs[i].orig = 0 THEN [s |-> strs, m |-> mem]
  ELSE [s |-> Owner(i, Fresh), m |-> [mem EXCEPT ![Fresh] = Text(i)]]
CanModify(i) == i \in Users /\ ~strs[i].frozen /\ RoomMem

\* REALLOC_N(): the block may move, and the old one is free then.
Moved(r, i, v, p) ==
  IF p = r.s[i].ptr THEN [r.m EXCEPT ![p] = v]
  ELSE [r.m EXCEPT ![r.s[i].ptr] = Freed, ![p] = v]
Places(r, i) == {r.s[i].ptr} \cup {p \in Ptr : r.m[p] = Freed}

\* upcase!, downcase!, swapcase!, capitalize!, tr!, []= with a number.  Not reverse!,
\* which has no str_modify(), and copies back what lies behind its work space.
InPlace ==
  \E i \in Id :
    /\ CanModify(i)
    /\ LET r == str_modify(i)
           v == [k \in 1..Len(val[i]) |-> Up[val[i][k]]]
           p == r.s[i].ptr
       IN  /\ strs' = r.s /\ val' = [val EXCEPT ![i] = v]
           /\ mem' = Moved(r, i, v \o SubSeq(r.m[p], Len(v) + 1, Len(r.m[p])), p)

\* str_cat(), with a text that is not in the buffer that grows
str_cat ==
  \E i, j \in Id :
    /\ CanModify(i) /\ j \in Users \ {i} /\ Len(val[j]) > 0
    /\ Len(val[i]) + Len(val[j]) <= MaxStrLen
    /\ LET r == str_modify(i)
           v == SubSeq(r.m[r.s[i].ptr], 1, strs[i].len) \o Text(j)
       IN  \E p \in Places(r, i) :
             /\ mem' = Moved(r, i, v, p)
             /\ strs' = [r.s EXCEPT ![i].ptr = p, ![i].len = Len(v)]
             /\ val' = [val EXCEPT ![i] = val[i] \o val[j]]

\* chop!, delete!, squeeze!, and str_resize() to less: the rest of the buffer stays.
Shrink ==
  \E i \in Id :
    /\ CanModify(i) /\ strs[i].len > 0
    /\ strs' = [str_modify(i).s EXCEPT ![i].len = @ - 1]
    /\ mem' = str_modify(i).m /\ val' = [val EXCEPT ![i] = Front(@)]

\* Where the head is cut off, into a new buffer, and the old one is freed
str_strip_bang ==
  \E i \in Id :
    /\ CanModify(i) /\ strs[i].len > 0
    /\ LET r == str_modify(i)
           v == Tail(SubSeq(r.m[r.s[i].ptr], 1, strs[i].len))
           new == Min({p \in Ptr : r.m[p] = Freed})
       IN  /\ \E p \in Ptr : r.m[p] = Freed
           /\ mem' = [r.m EXCEPT ![new] = v, ![r.s[i].ptr] = Freed]
           /\ strs' = [r.s EXCEPT ![i].ptr = new, ![i].len = Len(v)]
           /\ val' = [val EXCEPT ![i] = Tail(@)]

-----------------------------------------------------------------------------
\* A variable is assigned, a method returns.
Drop ==
  \E i \in Id : strs[i].role \in {"user", "match"}
             /\ strs' = [strs EXCEPT ![i].role = "garbage"] /\ UNCHANGED <<mem, val>>

\* gc.c marks what orig names with the string, and frees the buffer of a string
\* that has no orig.
Marked ==
  {i \in Live : \A S \in SUBSET Live :
     /\ \A j \in Live : strs[j].role # "garbage" => j \in S
     /\ \A j \in S : strs[j].orig \in S \cup {0}
     => i \in S}
gc ==
  LET dead == Live \ Marked
      freed == {strs[i].ptr : i \in {j \in dead : strs[j].orig = 0}}
  IN  /\ dead # {}
      /\ strs' = [i \in Id |-> IF i \in dead THEN Gone ELSE strs[i]]
      /\ mem' = [p \in Ptr |-> IF p \in freed THEN Freed ELSE mem[p]]
      /\ val' = [i \in Id |-> IF i \in dead THEN <<>> ELSE val[i]]

Init ==
  \E v \in Values :
    /\ strs = [i \in Id |-> IF i = 1 THEN Object(1, Len(v), 0, "lit", FALSE) ELSE Gone]
    /\ mem = [p \in Ptr |-> IF p = 1 THEN v ELSE Freed]
    /\ val = [i \in Id |-> IF i = 1 THEN v ELSE <<>>]

Next ==
  \/ str_new \/ str_dup \/ NODE_STR \/ str_clone \/ reg_search \/ str_freeze
  \/ InPlace \/ str_cat \/ Shrink \/ str_strip_bang \/ Drop \/ gc
Spec == Init /\ [][Next]_svars

-----------------------------------------------------------------------------
\* Changing a string, or collecting one, changes no other: what each string reads
\* is what was put into it, from a buffer that nobody has freed, and no buffer has
\* two strings to free it, or is left to none.  Literals read what they were.
StrIntact ==
  LET owners(p) == {i \in Live : strs[i].ptr = p /\ strs[i].orig = 0}
  IN  /\ \A i \in Live : strs[i].role # "garbage" => mem[strs[i].ptr] # Freed /\ Text(i) = val[i]
      /\ \A p \in Buffers : Cardinality(owners(p)) = 1

=============================================================================
