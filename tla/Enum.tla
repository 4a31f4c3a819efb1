-------------------------------- MODULE Enum ---------------------------------
(***************************************************************************)
(* enum.c: the methods of Enumerable, over the array iterators of array.c. *)
(* A behaviour is one call.  Each visit hands one item to the method's     *)
(* block function, which calls the program's block, === , == or <=>; what  *)
(* is called may change the array the iterator stands in.                  *)
(***************************************************************************)
EXTENDS Integers, Sequences, SequencesExt, FiniteSets, FiniteSetsExt

CONSTANTS
  Num,          \* items: numbers; nil is -1
  MaxItems,     \* length of the arrays at the start
  MaxChanges    \* bound on how often the array is changed

VARIABLES
  op,      \* the method called
  val,     \* its argument: what find calls, index and member look for
  ary,     \* the cells of the array, those behind its end included
  len,     \* its length
  i,       \* the iterator's counter
  memo,    \* what the block function is passed: result, counter or candidate
  said,    \* history: the items visited, each with the answer
  changes,
  out      \* what the call came to: "runs", "ended", "broken", "raised"

evars == <<op, val, ary, len, i, memo, said, changes, out>>

nil == -1
Item == Num \cup {nil}
Answer == {"true", "false"}
Filters == {"grep", "find_all"}
Collects == Filters \cup {"collect", "to_a", "sort", "reverse", "each", "each_index", "reverse_each"}
Extremes == {"min", "max", "min_by", "max_by"}
Looks == {"index", "member"}
Method == Collects \cup Extremes \cup Looks \cup {"find", "length"}

Items == [n \in 1..Len(said) |-> said[n][1]]
Runs == out = "runs"

-----------------------------------------------------------------------------
\* The array in the block's hands: push, pop and clear.  Cells behind the end
\* keep what they held.
Untouched == UNCHANGED <<ary, len, changes>>
Touched ==
  /\ changes < MaxChanges
  /\ changes' = changes + 1
  /\ \/ \E x \in Num : /\ ary' = SubSeq(ary, 1, len) \o <<x>>
                       /\ len' = len + 1
     \/ len > 0 /\ len' \in {0, len - 1} /\ UNCHANGED ary

\* The iterators of Array: reverse_each counts down from the length the array
\* had at the start, the others look at the length before every item.
Backwards == op = "reverse_each"
At == IF Backwards THEN i - 1 ELSE i
More == IF Backwards THEN i > 0 ELSE i < len
Item_i == IF op = "each_index" THEN i ELSE ary[At + 1]
Step == i' = IF Backwards THEN i - 1 ELSE i + 1

-----------------------------------------------------------------------------
(* The block functions: the answer, and what becomes of memo.              *)

Says(x, ans) == said' = Append(said, <<x, ans>>)
Goes(m, o) == memo' = m /\ out' = o

grep_i(x) == \E ans \in Answer :      \* also find_all_i: === and the block answer alike
  Says(x, ans) /\ Goes(IF ans = "true" THEN Append(memo, x) ELSE memo, "runs")

find_i(x) == \E ans \in Answer :
  Says(x, ans) /\ IF ans = "true" THEN Goes(<<x>>, "broken") ELSE Goes(memo, "runs")

\* What the block gives is collected unless it is nil (or false).
collect_i(x) == \E v \in Item :
  Says(x, v) /\ Goes(IF v # nil THEN Append(memo, v) ELSE memo, "runs")

reverse_i(x) == Says(x, nil) /\ Goes(<<x>> \o memo, "runs")
enum_all(x) == Says(x, nil) /\ Goes(Append(memo, x), "runs")

\* nil as the candidate stands for "none yet".  nil has no <=>.  A block may
\* compare as it likes; this one has nil below every number.
Less(x, y) == x < y
MinMax(x) ==
  LET by == op \in {"min_by", "max_by"}
      better == IF op \in {"min", "min_by"} THEN Less(x, memo[1]) ELSE Less(memo[1], x)
  IN  /\ Says(x, nil)
      /\ IF memo = <<nil>> THEN Goes(<<x>>, "runs")
         ELSE IF x = nil /\ ~by THEN Goes(memo, "raised")
         ELSE Goes(IF better THEN <<x>> ELSE memo, "runs")

index_i(x) ==
  /\ Says(x, nil)
  /\ IF x = val THEN Goes(memo, "broken") ELSE Goes(<<memo[1] + 1>>, "runs")
member_i(x) ==
  /\ Says(x, nil)
  /\ IF x = val THEN Goes(<<1>>, "broken") ELSE Goes(memo, "runs")
\* Mutant: the count starts again.
length_i_one(x) == Says(x, nil) /\ Goes(<<1>>, "runs")

length_i(x) == Says(x, nil) /\ Goes(<<memo[1] + 1>>, "runs")

-----------------------------------------------------------------------------
Visit ==
  /\ Runs /\ More
  /\ Step
  /\ Untouched \/ Touched
  /\ \/ op \in Filters /\ grep_i(Item_i)
     \/ op = "find" /\ find_i(Item_i)
     \/ op = "collect" /\ collect_i(Item_i)
     \/ op = "reverse" /\ reverse_i(Item_i)
     \/ op \in {"to_a", "sort", "each", "each_index", "reverse_each"} /\ enum_all(Item_i)
     \/ op \in Extremes /\ MinMax(Item_i)
     \/ op = "index" /\ index_i(Item_i)
     \/ op = "member" /\ member_i(Item_i)
     \/ op = "length" /\ length_i(Item_i)
  /\ UNCHANGED <<op, val>>

\* enum_sort() sorts the array it has collected; find calls its argument when it
\* has found nothing, and is nil all the same.
Sorted(s) == SortSeq(s, LAMBDA x, y : x < y)
Last_of_all ==
  /\ Runs /\ ~More
  /\ out' = "ended"
  /\ memo' = CASE op = "sort" -> Sorted(memo)
               [] op = "index" -> <<nil>>
               [] op = "find" -> <<nil>>
               [] OTHER -> memo
  /\ UNCHANGED <<op, val, ary, len, i, said, changes>>

Init ==
  /\ op \in Method
  /\ val \in IF op \in Looks THEN Item ELSE {nil}
  /\ ary \in SeqOf(Item, MaxItems)
  /\ op = "sort" => \A n \in DOMAIN ary : ary[n] # nil
  /\ len = Len(ary)
  /\ i = IF Backwards THEN len ELSE 0
  /\ memo = CASE op \in Collects -> <<>>
              [] op \in Extremes \cup {"find"} -> <<nil>>
              [] OTHER -> <<0>>
  /\ said = <<>> /\ changes = 0 /\ out = "runs"

Next == Visit \/ Last_of_all
Spec == Init /\ [][Next]_evars

-----------------------------------------------------------------------------
Answered(a) == LET ok == SelectSeq(said, LAMBDA p : p[2] = a) IN [n \in 1..Len(ok) |-> ok[n][1]]
Given == LET all == [n \in 1..Len(said) |-> said[n][2]] IN SelectSeq(all, LAMBDA v : v # nil)

\* What a method of Enumerable returns is what the items it was handed and the
\* answers it got say, whatever the block did to the array meanwhile; and an
\* array left alone is handed over whole, in order, up to where the method stops.
\* (min with a block that has nil lowest forgets the nil at the next item.)
EnumAgrees ==
  out # "runs" =>
    /\ changes = 0 =>
         LET all == SubSeq(ary, 1, len)
             seen == IF op = "each_index" THEN [n \in 1..len |-> n - 1]
                     ELSE IF Backwards THEN Reverse(all) ELSE all
         IN  IF out = "ended" THEN Items = seen ELSE IsPrefix(Items, seen)
    /\ CASE op \in Filters -> memo = Answered("true")
         [] op = "find" ->
              IF Answered("true") = <<>> THEN memo = <<nil>>
              ELSE memo = Answered("true") /\ Last(said)[2] = "true"
         [] op = "collect" -> memo = Given
         [] op = "reverse" -> memo = Reverse(Items)
         [] op = "sort" ->
              /\ \A n \in 1..Len(memo) - 1 : memo[n] <= memo[n + 1]
              /\ \A x \in Item : Len(SelectSeq(memo, LAMBDA y : y = x)) = Len(SelectSeq(Items, LAMBDA y : y = x))
         [] op \in {"min", "min_by"} ->
              /\ op = "min" => (memo = <<nil>> <=> ToSet(Items) \subseteq {nil})
              /\ memo # <<nil>> /\ (op = "min" \/ ~Contains(Items, nil)) =>
                   memo[1] = Min(ToSet(Items) \ {nil})
         [] op \in {"max", "max_by"} ->
              memo[1] = IF Items = <<>> THEN nil ELSE Max(ToSet(Items))
         [] op \in Looks ->
              LET found == Contains(Items, val)
              IN  /\ found <=> out = "broken"
                  /\ found => val = Last(Items) /\ ~Contains(Front(Items), val)
                  /\ memo = IF op = "member" THEN <<IF found THEN 1 ELSE 0>>
                            ELSE <<IF found THEN Len(Items) - 1 ELSE nil>>
         [] op = "length" -> memo = <<Len(Items)>>
         [] OTHER -> memo = Items

=============================================================================
