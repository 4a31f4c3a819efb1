-------------------------------- MODULE Glob ---------------------------------
(***************************************************************************)
(* Dir.glob: the words and braces of dir.c, the directories of glob.c and  *)
(* the patterns of fnmatch.c.  Texts are sequences of characters.  A job   *)
(* is written as what its pattern means: a word is a sequence of groups, a *)
(* group a sequence of alternatives (braces, when there are several), an   *)
(* alternative a sequence of tokens, and a token carries its text and the  *)
(* characters it stands for.  The code sees nothing but the text.          *)
(*                                                                         *)
(* readdir() has no order, so what one directory scan gives is a set.      *)
(***************************************************************************)
EXTENDS Integers, Sequences, SequencesExt, FiniteSets, FiniteSetsExt

CONSTANTS
  Jobs,       \* [words, gap, tree]: tree maps a directory to the names in it
  Order       \* the characters, by code

VARIABLES job, p, todo, out, state
dvars == <<job, p, todo, out, state>>

Concat(parts) == FoldLeft(LAMBDA x, y : x \o y, <<>>, parts)
Text(tokens) == Concat([i \in 1..Len(tokens) |-> tokens[i].text])
GroupText(g) ==
  IF Len(g) = 1 THEN Text(g[1])
  ELSE <<"{">> \o FoldLeft(LAMBDA x, y : x \o <<",">> \o y, Text(g[1]), [i \in 1..Len(g) - 1 |-> Text(g[i + 1])])
       \o <<"}">>
WordText(w) == Concat([i \in 1..Len(w) |-> GroupText(w[i])])
str == Concat([i \in 1..Len(job.words) |-> WordText(job.words[i]) \o job.gap])

Ord(c) == CHOOSE i \in DOMAIN Order : Order[i] = c
Char(s, i) == IF i \in DOMAIN s THEN s[i] ELSE ""       \* "" is the final NUL
From(s, i) == SubSeq(s, i, Len(s))

-----------------------------------------------------------------------------
(* fnmatch(), with FNM_PATHNAME, and with FNM_PERIOD except below a star    *)

Close(pat, i) == \E j \in i..Len(pat) : pat[j] = "]"

\* Behind "[": one character or range after the other, up to one that has c.  at
\* is the character behind the last one looked at, or -1 if the bracket breaks off.
Bracket(pat, i0, c) ==
  LET end(i) == IF Char(pat, i) = "\\" THEN i + 1 ELSE i
      f[i \in 1..Len(pat) + 4] ==
        LET first == end(i)
            sep == Char(pat, first + 1)
            range == sep = "-" /\ Char(pat, first + 2) # "]"
            last == IF range THEN end(first + 2) ELSE first
            next == last + 1
        IN  IF Char(pat, i) = "" \/ sep = "/" \/ Char(pat, last) = "" THEN [hit |-> FALSE, at |-> -1]
            ELSE IF Ord(Char(pat, first)) <= Ord(c) /\ Ord(c) <= Ord(Char(pat, last))
                 THEN [hit |-> TRUE, at |-> next]
            ELSE IF Char(pat, next) = "]" THEN [hit |-> FALSE, at |-> next]
            ELSE f[next]
  IN  f[i0]

\* The rest of a bracket that has matched is skipped to its "]": an escaped one
\* does not count, unless the escape comes right behind what matched.
Skip(pat, i0) ==
  LET f[i \in 1..Len(pat) + 3] ==
        CASE Char(pat, i) = "]" -> i
          [] Char(pat, i) = "" -> -1
          [] Char(pat, i) = "\\" -> f[i + 2]
          [] OTHER -> f[i + 1]
  IN  IF Char(pat, i0) = "]" THEN i0 ELSE f[i0 + 1]

\* Each "?" or "*" that follows a star passes one character; it need not be there
\* for a star.
Run(pat, i) == CHOOSE k \in 0..Len(pat) :
  /\ \A j \in i..i + k - 1 : Char(pat, j) \in {"?", "*"}
  /\ Char(pat, i + k) \notin {"?", "*"}

fnmatch(pat, name) ==
  LET hidden(n, period) == period /\ n = 1 /\ Char(name, 1) = "."
      f[i \in 1..Len(pat) + 4, n \in 1..Len(name) + Len(pat) + 1, period \in BOOLEAN] ==
        LET c == Char(pat, i)
            ch == Char(name, n)
            not == Char(pat, i + 1) \in {"!", "^"}
        IN
        CASE c = "" -> ch = ""
          [] c = "?" -> ch \notin {"", "/"} /\ ~hidden(n, period) /\ f[i + 1, n + 1, period]
          [] c = "\\" -> ch = Char(pat, i + 1) /\ f[i + 2, n + 1, period]
          [] c = "*" ->
               LET k == Run(pat, i + 1)
                   rest == i + 1 + k
                   next == Char(pat, rest)
                   wanted == IF next = "\\" THEN Char(pat, rest + 1) ELSE next
               IN  /\ ~hidden(n, period)
                   /\ \A j \in 0..k - 1 : /\ Char(name, n + j) # "/"
                                          /\ Char(pat, i + 1 + j) = "?" => Char(name, n + j) # ""
                   /\ \/ next = ""
                      \/ \E m \in n + k..Len(name) :
                           (next = "[" \/ name[m] = wanted) /\ f[rest, m, FALSE]
          [] c = "[" ->
               /\ ch # "" /\ ~hidden(n, period)
               /\ IF ~Close(pat, i + 1) THEN ch = "[" /\ f[i + 1, n + 1, period]
                  ELSE LET b == Bracket(pat, IF not THEN i + 2 ELSE i + 1, ch)
                           end == IF b.hit THEN Skip(pat, b.at) ELSE b.at
                       IN  end # -1 /\ b.hit # not /\ f[end + 1, n + 1, period]
          [] OTHER -> c = ch /\ f[i + 1, n + 1, period]
  IN  f[1, 1, TRUE]

-----------------------------------------------------------------------------
(* Directories.  A path is a text; the tree is asked for its components.    *)

Components(path) ==
  LET f == FoldLeft(LAMBDA acc, c : IF c = "/" THEN Append(acc, <<>>)
                                    ELSE Front(acc) \o <<Append(Last(acc), c)>>, <<<<>>>>, path)
  IN  SelectSeq(f, LAMBDA x : x \notin {<<>>, <<".">>})
Up(names) == FoldLeft(LAMBDA acc, x : IF x = <<".", ".">> THEN (IF acc = <<>> THEN acc ELSE Front(acc))
                                      ELSE Append(acc, x), <<>>, names)
Place(path) == Up(Components(path))
opendir(path) == path # <<>> /\ Place(path) \in DOMAIN job.tree
Listing(path) == job.tree[Place(path)] \cup {<<".">>, <<".", ".">>}

Escaped(s) ==
  LET f[i \in 0..Len(s)] == i > 1 /\ s[i - 1] = "\\" /\ ~f[i - 1] IN {i \in DOMAIN s : f[i]}
glob_pattern_p(s) ==
  \E i \in DOMAIN s \ Escaped(s) :
    s[i] \in {"?", "*"} \/ (s[i] = "]" /\ \E j \in 1..i - 1 : j \notin Escaped(s) /\ s[j] = "[")

\* Mutant: a name without pattern characters is taken with its backslashes.
dequote_pathname_not(s) == s

dequote_pathname(s) ==
  Concat([i \in DOMAIN s |-> IF s[i] = "\\" /\ i \notin Escaped(s) THEN <<>> ELSE <<s[i]>>])

\* No names, too, when the directory cannot be opened.  An empty pattern stands
\* for the directory itself.
glob_vector(pat, dir) ==
  IF ~opendir(dir) THEN {}
  ELSE IF pat = <<>> THEN {<<>>}
  ELSE {d \in Listing(dir) : (d[1] = "." => pat[1] = ".") /\ fnmatch(pat, d)}

glob_dir_to_array(dir, names) ==
  IF dir = <<>> THEN names
  ELSE {dir \o (IF Last(dir) = "/" THEN <<>> ELSE <<"/">>) \o x : x \in names}

\* The directory is globbed first when it has a pattern in it; a name that cannot
\* be opened as a directory is passed over.  A directory without a pattern and
\* without a name behind it is given back as it is, whether it exists or not.
glob_filename(pathname) ==
  LET f[k \in 0..Len(pathname)] ==      \* the first k characters
        LET s == SubSeq(pathname, 1, k)
            slash == {i \in 1..k : s[i] = "/"}
            cut == IF slash = {} THEN 0 ELSE Max(slash)
            dir == SubSeq(s, 1, cut)
            file == From(s, cut + 1)
            bare == dequote_pathname(dir)
        IN  IF glob_pattern_p(dir)
            THEN UNION {glob_dir_to_array(d, glob_vector(file, d)) : d \in f[cut - 1]}
            ELSE IF file = <<>> THEN {dir}
            ELSE glob_dir_to_array(bare, glob_vector(file, IF cut = 0 THEN <<".">> ELSE bare))
  IN  f[Len(pathname)]

-----------------------------------------------------------------------------
(* Words and braces                                                        *)

\* push_braces(): the text in front of the first "{", an alternative, and what
\* follows the first "}" behind it; then the same with the result.  Braces inside
\* an alternative are passed over when the alternatives are told apart, but the
\* end of the group is taken to be the first "}" all the same.
FirstAt(s, c, i) == LET S == {j \in i..Len(s) : s[j] = c} IN IF S = {} THEN 0 ELSE Min(S)
Alternatives(s, l) ==        \* the ends of the alternatives behind position l
  LET f[i \in 1..Len(s) + 1] ==
        IF Char(s, i) \in {"", "}"} THEN <<i>>
        ELSE IF s[i] = "," THEN <<i>> \o f[i + 1]
        ELSE IF s[i] = "{" THEN f[Max({FirstAt(s, "}", i), i}) + 1]
        ELSE f[i + 1]
  IN  f[l + 1]
Expand(s, l) ==
  LET r == FirstAt(s, "}", l)
      ends == Alternatives(s, l)
      begins == <<l>> \o ends
  IN  [i \in 1..Len(ends) |->
         SubSeq(s, 1, l - 1) \o SubSeq(s, begins[i] + 1, ends[i] - 1) \o From(s, r + 1)]

isdelim(c) == c \in {" ", "\n"}
Nest(w) == FoldLeft(LAMBDA n, c : n + (IF c = "{" THEN 2 ELSE IF c = "}" THEN 3 ELSE 0), 0, w)

\* dir_s_glob(): the next word, which is empty behind delimiters at the end.
\* Words whose braces do not add up are left out.
Word ==
  /\ state = "runs" /\ todo = <<>> /\ p <= Len(str)
  /\ LET b == CHOOSE i \in p..Len(str) + 1 :
                /\ \A j \in p..i - 1 : isdelim(str[j])
                /\ i <= Len(str) => ~isdelim(str[i])
         e == CHOOSE i \in b..Len(str) + 1 :
                /\ \A j \in b..i - 1 : ~isdelim(str[j])
                /\ i <= Len(str) => isdelim(str[i])
         w == SubSeq(str, b, e - 1)
     IN  p' = e /\ todo' = IF Nest(w) % 5 = 0 THEN <<w>> ELSE <<>>
  /\ UNCHANGED <<job, out, state>>

push_braces ==
  /\ state = "runs" /\ todo # <<>>
  /\ LET s == Head(todo)
         l == FirstAt(s, "{", 1)
     IN  /\ l # 0
         /\ IF FirstAt(s, "}", l) = 0       \* "}" in front of "{": a null pointer is read
            THEN state' = "crash" /\ UNCHANGED todo
            ELSE todo' = Expand(s, l) \o Tail(todo) /\ UNCHANGED state
  /\ UNCHANGED <<job, p, out>>

push_globs ==
  /\ state = "runs" /\ todo # <<>> /\ FirstAt(Head(todo), "{", 1) = 0
  /\ out' = Append(out, glob_filename(Head(todo)))
  /\ todo' = Tail(todo)
  /\ UNCHANGED <<job, p, state>>

Ends ==
  /\ state = "runs" /\ todo = <<>> /\ p > Len(str)
  /\ state' = "done"
  /\ UNCHANGED <<job, p, todo, out>>

Init == job \in Jobs /\ p = 1 /\ todo = <<>> /\ out = <<>> /\ state = "runs"
Next == Word \/ push_braces \/ push_globs \/ Ends
Spec == Init /\ [][Next]_dvars

-----------------------------------------------------------------------------
(* What the tokens mean                                                    *)

\* A token stands for one character of its set, a star for any number of any.
Means(tokens, name) ==
  \E cut \in [0..Len(tokens) -> 0..Len(name)] :
    /\ cut[0] = 0 /\ cut[Len(tokens)] = Len(name)
    /\ \A i \in 1..Len(tokens) :
         /\ cut[i - 1] <= cut[i]
         /\ ~tokens[i].star => cut[i] = cut[i - 1] + 1 /\ name[cut[i]] \in tokens[i].set
    /\ name[1] = "." => tokens[1].text = <<".">>

Special(tokens) == \E i \in 1..Len(tokens) : tokens[i].star \/ Cardinality(tokens[i].set) > 1

Parts(tokens) ==
  FoldLeft(LAMBDA acc, t : IF t.text = <<"/">> THEN Append(acc, <<>>)
                           ELSE Front(acc) \o <<Append(Last(acc), t)>>, <<<<>>>>, tokens)
PathText(names) == FoldLeft(LAMBDA x, y : x \o <<"/">> \o y, names[1], Tail(names))
Paths(tokens) ==
  LET parts == Parts(tokens)
      below(acc, part) ==
        {Append(q, x) : <<q, x>> \in {<<q, x>> \in acc \X UNION {job.tree[d] \cup {<<".">>, <<".", ".">>} : d \in DOMAIN job.tree} :
           /\ Up(SelectSeq(q, LAMBDA y : y # <<".">>)) \in DOMAIN job.tree
           /\ x \in job.tree[Up(SelectSeq(q, LAMBDA y : y # <<".">>))] \cup {<<".">>, <<".", ".">>}
           /\ Means(part, x)}}
      named == FoldLeft(below, {<<>>}, IF Last(parts) = <<>> THEN Front(parts) ELSE parts)
  IN  IF Last(parts) # <<>> THEN {PathText(q) : q \in named}
      ELSE IF ~Special(tokens) THEN {Text(tokens)}
      ELSE {Append(PathText(q), "/") : q \in {q \in named : Up(SelectSeq(q, LAMBDA y : y # <<".">>)) \in DOMAIN job.tree}}

\* The alternatives of all groups, the first group varying slowest
Expansions(w) ==
  FoldLeft(LAMBDA acc, g : Concat([i \in 1..Len(acc) |-> [k \in 1..Len(g) |-> acc[i] \o g[k]]]), <<<<>>>>, w)

\* Dir.glob finds, for every alternative in turn, exactly the paths whose names
\* match it part by part: hidden names only by a written dot, a slash at the end
\* only directories, and no name that a bracket, an escape or a star does not
\* stand for.  Blanks at the end are one more, empty, name.
GlobExact ==
  state = "done" =>
    out = Concat([i \in 1..Len(job.words) |->
                    LET e == Expansions(job.words[i]) IN [k \in 1..Len(e) |-> Paths(e[k])]])
          \o (IF job.gap # <<>> THEN <<{<<>>}>> ELSE <<>>)

=============================================================================
