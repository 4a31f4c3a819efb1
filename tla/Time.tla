------------------------------- MODULE Time ---------------------------------
(***************************************************************************)
(* time.c: Time objects.  Time.gm and Time.local look for the second that  *)
(* the C library would show as the date asked for, by steps of years and   *)
(* of months that cannot go too far.  The object keeps the seconds, and    *)
(* what gmtime() or localtime() made of them once it was asked for.        *)
(* strftime() and the names of zones are left out.                         *)
(***************************************************************************)
EXTENDS Integers, Sequences

CONSTANTS
  Dates,      \* what Time.gm and Time.local are called with: year, mon, then mday,
              \* hour, min, sec; mon is <<"nil">>, <<"name", i>>, <<"text", n>>, <<"num", n>>
  Nows,       \* what gettimeofday() may answer
  Offset(_),  \* the local time is Offset(t) seconds ahead at t
  MaxTime,    \* the last time_t
  Spans,      \* what is added and taken away: [type, sec, usec]
  MaxOps

VARIABLES t_pc, args, gmt_fn, guess, obj, answer, ops
tmvars == <<t_pc, args, gmt_fn, guess, obj, answer, ops>>

Day == 24 * 3600
Million == 1000000
NoObj == [sec |-> 0, usec |-> 0, tm_got |-> FALSE, gmt |-> FALSE, tm |-> <<>>]

-----------------------------------------------------------------------------
\* gmtime() and localtime() of the C library

\* Days from 1970 to the year 1900 + y, and from its first day to the month m
YearStart(y) == 365 * (y - 70) + (y - 69) \div 4
Leap(y) == y % 4 = 0
MonthStart(y, m) ==
  <<0, 31, 59, 90, 120, 151, 181, 212, 243, 273, 304, 334, 365>>[m + 1] + IF Leap(y) /\ m > 1 THEN 1 ELSE 0
gmtime(t) ==
  LET d == t \div Day
      y == CHOOSE y \in 1..139 : YearStart(y) <= d /\ d < YearStart(y + 1)
      m == CHOOSE m \in 0..11 : MonthStart(y, m) <= d - YearStart(y) /\ d - YearStart(y) < MonthStart(y, m + 1)
  IN  [year |-> y, mon |-> m, mday |-> d - YearStart(y) - MonthStart(y, m) + 1,
       hour |-> (t % Day) \div 3600, min |-> (t % 3600) \div 60, sec |-> t % 60]
localtime(t) == gmtime(t + Offset(t))
tm == IF gmt_fn THEN gmtime(guess) ELSE localtime(guess)

-----------------------------------------------------------------------------
\* Time.gm and Time.local

Year(y) == LET c == IF y < 70 THEN y + 100 ELSE y IN IF c > 1900 THEN c - 1900 ELSE c
\* A month that is a number counts from 0, one that is a text from 1.
Month(m) ==
  CASE m[1] = "nil" -> 0
    [] m[1] = "name" -> m[2]
    [] m[1] = "text" -> m[2] - 1
    [] m[1] = "num" -> m[2]
\* The upper limit of the year is asked of the month.
Valid(a) ==
  /\ a[1] >= 70 /\ a[2] <= 137
  /\ a[2] \in 0..11 /\ a[3] \in 1..31 /\ a[4] \in 0..23 /\ a[5] \in 0..60 /\ a[6] \in 0..61

Fails == t_pc' = "failed" /\ UNCHANGED <<guess, obj>>
\* g + d in a time_t
Wrap(g, d) == IF d > 0 /\ g > MaxTime - d THEN (g - MaxTime - 1) + (d - MaxTime - 1) ELSE g + d

time_arg ==
  /\ t_pc = "call"
  /\ \E d \in Dates, f \in BOOLEAN, now \in Nows :
       LET a == <<Year(d[1]), Month(d[2]), d[3], d[4], d[5], d[6]>> IN
       /\ args' = a /\ gmt_fn' = f
       /\ IF Valid(a) THEN t_pc' = "year" /\ guess' = now /\ UNCHANGED obj ELSE Fails
  /\ UNCHANGED <<answer, ops>>

\* Beyond MaxTime the guess is negative: "too far future".
YearStep ==
  LET diff == args[1] - tm.year
      next == Wrap(guess, diff * 364 * Day)
  IN
  /\ t_pc = "year" /\ diff # 0
  /\ IF next < 0 THEN Fails ELSE guess' = next /\ UNCHANGED <<t_pc, obj>>
  /\ UNCHANGED <<args, gmt_fn, answer, ops>>

\* Here nothing asks whether the guess is still in range.
MonthStep ==
  LET diff == args[2] - tm.mon IN
  /\ t_pc = "month" /\ diff # 0
  /\ guess' = Wrap(guess, diff * 27 * Day)
  /\ UNCHANGED <<t_pc, args, gmt_fn, obj, answer, ops>>

YearFound ==
  /\ t_pc = "year" /\ args[1] = tm.year /\ t_pc' = "month"
  /\ UNCHANGED <<args, gmt_fn, guess, obj, answer, ops>>

time_new(sec, usec) == obj' = [NoObj EXCEPT !.sec = sec, !.usec = usec]

\* Mutant: the guess's time of day stays in the result.
time_gm_or_local_day ==
  /\ t_pc = "month" /\ args[2] = tm.mon /\ t_pc' = "made"
  /\ time_new(Wrap(guess, (args[3] - tm.mday) * Day + args[4] * 3600 + args[5] * 60 + args[6]), 0)
  /\ UNCHANGED <<args, gmt_fn, guess, answer, ops>>

time_gm_or_local ==
  /\ t_pc = "month" /\ args[2] = tm.mon /\ t_pc' = "made"
  /\ time_new(Wrap(guess, (args[3] - tm.mday) * Day + (args[4] - tm.hour) * 3600
                            + (args[5] - tm.min) * 60 + args[6] - tm.sec), 0)
  /\ UNCHANGED <<args, gmt_fn, guess, answer, ops>>

-----------------------------------------------------------------------------
\* Objects

Made(pc) == t_pc = pc /\ ops < MaxOps /\ ops' = ops + 1 /\ UNCHANGED <<args, gmt_fn, guess>>

time_s_at ==
  /\ Made("call") /\ UNCHANGED answer
  /\ \/ \E s \in Spans : IF s.sec < 0 THEN t_pc' = "failed" /\ UNCHANGED obj
                         ELSE t_pc' = "uses" /\ time_new(s.sec, s.usec)
     \/ \E now \in Nows : t_pc' = "uses" /\ time_new(now, 0)

Got(o, gmt) == [o EXCEPT !.tm_got = TRUE, !.gmt = gmt, !.tm = IF gmt THEN gmtime(o.sec) ELSE localtime(o.sec)]
time_localtime == Made("uses") /\ obj' = Got(obj, FALSE) /\ UNCHANGED <<t_pc, answer>>
time_gmtime == Made("uses") /\ obj' = Got(obj, TRUE) /\ UNCHANGED <<t_pc, answer>>

\* year, mon, mday, hour, min, sec, to_a
time_to_a ==
  /\ Made("uses") /\ UNCHANGED t_pc
  /\ LET o == IF obj.tm_got THEN obj ELSE Got(obj, FALSE) IN
     obj' = o /\ answer' = <<"to_a", o.sec, o.usec, o.gmt, o.tm>>

\* Mutant: the sum keeps what the first operand was shown as.
time_plus_tm ==
  /\ Made("uses") /\ UNCHANGED t_pc
  /\ \E s \in Spans :
       LET usec == obj.usec + s.usec
           over == usec >= Million
       IN  /\ obj' = [obj EXCEPT !.sec = @ + s.sec + (IF over THEN 1 ELSE 0), !.usec = IF over THEN usec - Million ELSE usec]
           /\ answer' = <<"plus", obj.sec, obj.usec, s>>

\* A Float is not negative here: (unsigned int) of a negative one is undefined.
time_plus ==
  /\ Made("uses") /\ UNCHANGED t_pc
  /\ \E s \in Spans :
       LET usec == obj.usec + s.usec
           over == usec >= Million
       IN  /\ time_new(obj.sec + s.sec + (IF over THEN 1 ELSE 0), IF over THEN usec - Million ELSE usec)
           /\ answer' = <<"plus", obj.sec, obj.usec, s>>

\* The whole part of a Float is taken to be the seconds of the result; far from 0
\* the product is more than an int.  The difference of two Times is a Float.
time_minus ==
  /\ Made("uses") /\ UNCHANGED t_pc
  /\ \E s \in Spans :
       LET sec == obj.sec - s.sec
           usec == CASE s.type = "Integer" -> obj.usec
                     [] s.type = "Float" -> obj.usec - ((s.sec - sec) * Million + s.usec)
           under == usec < 0
       IN
       /\ s.type = "Float" => obj.sec < 1000
       /\ IF s.type = "Time"
          THEN UNCHANGED obj /\ answer' = <<"since", sec, obj.usec - s.usec, s>>
          ELSE /\ time_new(IF under THEN sec - 1 ELSE sec, IF under THEN usec + Million ELSE usec)
               /\ answer' = <<"minus", obj.sec, obj.usec, s>>

\* <=>: a number is compared with the seconds alone.
time_cmp ==
  /\ Made("uses") /\ UNCHANGED <<t_pc, obj>>
  /\ \E s \in Spans :
       answer' = <<"cmp", s, CASE obj.sec > s.sec -> 1
                               [] obj.sec < s.sec -> -1
                               [] s.type # "Time" -> 0
                               [] obj.usec = s.usec -> 0
                               [] obj.usec > s.usec -> 1
                               [] OTHER -> -1>>

-----------------------------------------------------------------------------
Init ==
  /\ t_pc = "call" /\ args = <<>> /\ gmt_fn = FALSE /\ guess = 0
  /\ obj = NoObj /\ answer = <<>> /\ ops = 0
Next ==
  \/ time_arg \/ YearStep \/ YearFound \/ MonthStep \/ time_gm_or_local
  \/ time_s_at \/ time_localtime \/ time_gmtime \/ time_to_a \/ time_plus \/ time_minus \/ time_cmp
Spec == Init /\ [][Next]_tmvars

-----------------------------------------------------------------------------
Asked == (YearStart(args[1]) + MonthStart(args[1], args[2]) + args[3] - 1) * Day
           + args[4] * 3600 + args[5] * 60 + args[6]
\* Midnight of the first day of the month asked for, and of the next one
First == (YearStart(args[1]) + MonthStart(args[1], args[2])) * Day
Behind == First + 32 * Day

\* Whatever the time of the call, the search ends at the second asked for.  Local
\* time is exact in a month whose offset does not change, and else wrong by no more
\* than the change: the offset is that of the last guess.  (Not in 2038, where a step
\* of months may wrap round to 1902.)
SearchExact ==
  (t_pc = "made" /\ args[1] < 138) =>
    LET off == obj.sec + (IF gmt_fn THEN 0 ELSE Offset(obj.sec)) - Asked
        changes == Offset(First - Day) # Offset(Behind)
    IN  IF gmt_fn \/ ~changes THEN off = 0 ELSE off \in {0, 3600, -3600}

\* Microseconds stay below a million and sums are exact; an object shows the time it
\* has, in the zone asked for last, local time if none was.  (Not one made by taking
\* away a Float.)
TimeExact ==
  t_pc = "uses" =>
    /\ obj.tm_got => obj.tm = IF obj.gmt THEN gmtime(obj.sec) ELSE localtime(obj.sec)
    /\ (answer # <<>> /\ answer[1] = "plus" /\ answer[3] \in 0..(Million - 1)) =>
         /\ obj.usec \in 0..(Million - 1)
         /\ obj.usec - answer[3] - answer[4].usec = (answer[2] + answer[4].sec - obj.sec) * Million

=============================================================================
