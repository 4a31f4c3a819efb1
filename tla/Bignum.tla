------------------------------- MODULE Bignum -------------------------------
(***************************************************************************)
(* Integers of numeric.c and bignum.c.  A Fixnum is a number in a VALUE,   *)
(* one bit shorter than an int; a Bignum is a sign and digits, the lowest  *)
(* first, of BITSPERDIG bits, two to an int as in the code.  A program     *)
(* keeps one number and calls the methods on it; did is the last call.     *)
(***************************************************************************)
EXTENDS Integers, Sequences, FiniteSets, Bitwise

CONSTANTS
  BITSPERDIG,  \* sizeof(USHORT) * CHAR_BIT, 16 in the code
  Form,        \* what big2str() and str2inum() know of each base, see there
  Literals,    \* the numbers a program works with: a result is kept if it is one
  Shifts, Powers

VARIABLES
  num,         \* the number
  did          \* the call: op, its receiver x and argument y, its result z, and
               \* for divmod the remainder m

vars == <<num, did>>

-----------------------------------------------------------------------------
\* ruby.h and the macros of bignum.c

BIGRAD == 2 ^ BITSPERDIG
BIGLO(n) == n % BIGRAD
BIGDN(n) == n \div BIGRAD
LONG == BIGRAD * BIGRAD
FIXNUM_MAX == LONG \div 4 - 1
FIXNUM_MIN == - (LONG \div 4)
POSFIXABLE(n) == n <= FIXNUM_MAX
NEGFIXABLE(n) == n >= FIXNUM_MIN

\* An assignment to an int of this width.
Wrap(n, width) == ((n + width \div 2) % width) - width \div 2
int(n) == Wrap(n, LONG)
Fix(n) == [type |-> "T_FIXNUM", n |-> n]
INT2FIX(n) == Fix(Wrap(n, LONG \div 2))
FIXNUM_P(x) == x.type = "T_FIXNUM"
Big(sign, ds) == [type |-> "T_BIGNUM", sign |-> sign, ds |-> ds]

abs(n) == IF n < 0 THEN -n ELSE n
\* Division in C goes to zero.
CDiv(a, b) == IF (a < 0) = (b < 0) THEN abs(a) \div abs(b) ELSE -(abs(a) \div abs(b))

-----------------------------------------------------------------------------
\* Loops over digits

digit(ds, i) == IF i <= Len(ds) THEN ds[i] ELSE 0

\* num += t[i]; ds[i] = BIGLO(num); num = BIGDN(num); from a first num.
Carry(t, first) ==
  LET c[i \in 0..Len(t)] == IF i = 0 THEN first ELSE BIGDN(c[i - 1] + t[i])
  IN  [ds |-> [i \in 1..Len(t) |-> BIGLO(c[i - 1] + t[i])], num |-> c[Len(t)]]

\* From the highest digit: t2 = BIGUP(t2) + ds[i]; ds[i] = t2 / dd; t2 %= dd.
Short(ds, dd) ==
  LET t[i \in 0..Len(ds)] ==
        IF i = Len(ds) THEN 0 ELSE (t[i + 1] * BIGRAD + ds[i + 1]) % dd
  IN  [ds |-> [i \in 1..Len(ds) |-> (t[i] * BIGRAD + ds[i]) \div dd], rem |-> t[0]]

Magnitude(ds) ==
  LET m[i \in 0..Len(ds)] == IF i = Len(ds) THEN 0 ELSE m[i + 1] * BIGRAD + ds[i + 1]
  IN  m[0]

Strip(ds) ==
  LET top == {i \in 1..Len(ds) : ds[i] # 0}
  IN  SubSeq(ds, 1, IF top = {} THEN 0 ELSE CHOOSE i \in top : \A j \in top : j <= i)

\* Mutant: leading zeros are counted.
bignorm_len(x) ==
  LET n == Magnitude(x.ds) IN
    IF Len(x.ds) < 2 /\ x.sign THEN INT2FIX(n) ELSE IF Len(x.ds) < 2 THEN INT2FIX(-n) ELSE x

\* Two digits may fit if the higher is at most 0x3fff.
bignorm(x) ==
  LET ds == Strip(x.ds)
      n == Magnitude(ds)
      short == Len(ds) < 2 \/ (Len(ds) = 2 /\ ds[2] <= BIGRAD \div 4 - 1)
  IN  IF short /\ x.sign /\ POSFIXABLE(n) THEN INT2FIX(n)
      ELSE IF short /\ ~x.sign /\ NEGFIXABLE(-n) THEN INT2FIX(-n)
      ELSE Big(x.sign, ds)

uint2big(n) == Big(TRUE, Strip(<<BIGLO(n), BIGLO(BIGDN(n))>>))
int2big(n) == [uint2big(abs(n)) EXCEPT !.sign = n >= 0]
int2inum(n) == IF POSFIXABLE(n) /\ NEGFIXABLE(n) THEN INT2FIX(n) ELSE int2big(n)

\* num_coerce_bin() with big_coerce(), and the T_FIXNUM cases of the big_ methods.
coerce(x) == IF FIXNUM_P(x) THEN int2big(x.n) ELSE x

-----------------------------------------------------------------------------
\* Sums and products

bigsub(x, y) ==
  LET swap == \/ Len(x.ds) < Len(y.ds)
              \/ /\ Len(x.ds) = Len(y.ds)
                 /\ \E i \in 1..Len(x.ds) :
                      x.ds[i] < y.ds[i] /\ \A j \in (i + 1)..Len(x.ds) : x.ds[j] = y.ds[j]
      a == IF swap THEN y.ds ELSE x.ds
      b == IF swap THEN x.ds ELSE y.ds
  IN  bignorm(Big(~swap, Carry([i \in 1..Len(a) |-> a[i] - digit(b, i)], 0).ds))

\* x + y, or x - y if sign is false.
bigadd(x, y, sign) ==
  IF x.sign = (y.sign # sign)
  THEN IF y.sign = sign THEN bigsub(y, x) ELSE bigsub(x, y)
  ELSE LET n == IF Len(x.ds) > Len(y.ds) THEN Len(x.ds) ELSE Len(y.ds)
           sum == Carry([i \in 1..n |-> digit(x.ds, i) + digit(y.ds, i)], 0)
       IN  bignorm(Big(sign = y.sign, Append(sum.ds, sum.num)))

plus(x, y) ==
  LET c == x.n + y.n IN
    IF FIXNUM_P(x) /\ FIXNUM_P(y) /\ INT2FIX(c).n = c THEN INT2FIX(c)
    ELSE bigadd(coerce(x), coerce(y), TRUE)

minus(x, y) ==
  LET c == x.n - y.n IN
    IF FIXNUM_P(x) /\ FIXNUM_P(y) /\ INT2FIX(c).n = c THEN INT2FIX(c)
    ELSE bigadd(coerce(x), coerce(y), FALSE)

\* One row per digit of x, added to what is there.
big_mul(x, y) ==
  LET n == Len(y.ds)
      Row(z, i) ==
        LET row == Carry([j \in 1..n |-> z[i + j - 1] + x.ds[i] * y.ds[j]], 0) IN
          [k \in DOMAIN z |-> IF k \in i..(i + n - 1) THEN row.ds[k - i + 1]
                              ELSE IF k = i + n /\ row.num # 0 THEN row.num ELSE z[k]]
      rows[i \in 0..Len(x.ds)] ==
        IF i = 0 THEN [k \in 1..(Len(x.ds) + n + 1) |-> 0]
        ELSE IF x.ds[i] = 0 THEN rows[i - 1] ELSE Row(rows[i - 1], i)
  IN  bignorm(Big(x.sign = y.sign, rows[Len(x.ds)]))

\* The product of two ints may wrap; the division shows it.
mul(x, y) ==
  LET c == int(x.n * y.n) IN
    IF FIXNUM_P(x) /\ FIXNUM_P(y)
    THEN IF x.n = 0 THEN x
         ELSE IF INT2FIX(c).n = c /\ CDiv(c, x.n) = y.n THEN INT2FIX(c)
         ELSE big_mul(int2big(x.n), int2big(y.n))
    ELSE big_mul(coerce(x), coerce(y))

uminus(x) == IF FIXNUM_P(x) THEN int2inum(-x.n) ELSE bignorm([x EXCEPT !.sign = ~@])
absolute(x) == IF FIXNUM_P(x) THEN int2inum(abs(x.n)) ELSE [x EXCEPT !.sign = TRUE]

\* The loop of big_pow(): y counts down, and by halves while it is even.
RECURSIVE raise_to(_, _, _)
raise_to(x, y, z) ==
  IF y = 1 THEN z
  ELSE LET RECURSIVE halved(_, _)
           halved(b, e) == IF e % 2 = 0 THEN halved(mul(b, b), e \div 2) ELSE <<b, e>>
           h == halved(x, y - 1)
       IN  raise_to(h[1], h[2], big_mul(coerce(z), coerce(h[1])))

\* For a positive first power the Bignum made of a Fixnum comes back as it is.
pow(x, y) == IF y = 0 THEN INT2FIX(1) ELSE raise_to(coerce(x), y, coerce(x))

-----------------------------------------------------------------------------
\* Division

\* Mutant: the quotient digit is taken as estimated.
QuotientDigit_est(z, y, j) ==
  LET ny == Len(y)
      est == IF z[j + 1] = y[ny] THEN BIGRAD - 1
             ELSE ((z[j + 1] * BIGRAD + z[j]) \div y[ny]) % BIGRAD
      t2 == Carry([i \in 1..ny |-> y[i] * est], 0)
      sub == Carry([i \in 1..ny |-> z[j - ny + i] - t2.ds[i]], 0)
  IN  [k \in DOMAIN z |-> IF k \in (j - ny + 1)..j THEN sub.ds[k - j + ny]
                          ELSE IF k = j + 1 THEN est ELSE z[k]]

\* One digit of the quotient: the estimate q, multiply and subtract at the
\* digits below j, and add back as long as the borrow is not made up for.
\* z is zds after it; C's zds[j] is z[j + 1].
QuotientDigit(z, y, j) ==
  LET ny == Len(y)
      est == IF z[j + 1] = y[ny] THEN BIGRAD - 1
             ELSE ((z[j + 1] * BIGRAD + z[j]) \div y[ny]) % BIGRAD
      low(zz) == SubSeq(zz, j - ny + 1, j)
      put(ds, q) == [k \in DOMAIN z |-> IF k \in (j - ny + 1)..j THEN ds[k - j + ny]
                                        ELSE IF k = j + 1 THEN q ELSE z[k]]
      t2 == Carry([i \in 1..ny |-> y[i] * est], 0)
      sub == Carry([i \in 1..ny |-> low(z)[i] - t2.ds[i]], 0)
      back[k \in 0..BIGRAD] ==
        IF k = 0 THEN [ds |-> sub.ds, q |-> est, num |-> sub.num + z[j + 1] - t2.num]
        ELSE LET b == back[k - 1]
                 sum == Carry([i \in 1..ny |-> b.ds[i] + y[i]], 0)
             IN  IF b.num = 0 THEN b ELSE [ds |-> sum.ds, q |-> b.q - 1, num |-> sum.num - 1]
      last == back[BIGRAD]
  IN  IF est = 0 THEN put(low(z), 0) ELSE put(last.ds, last.q)

\* divmod by a Bignum: nothing to divide, one digit, or Knuth's algorithm on
\* operands scaled by dd.
bigdivmod(x, y) ==
  LET nx == Len(x.ds)
      ny == Len(y.ds)
      dd == BIGRAD \div (y.ds[ny] + 1)
      yds == Carry([i \in 1..ny |-> y.ds[i] * dd], 0).ds
      scaled == Carry([i \in 1..nx |-> x.ds[i] * dd], 0)
      from == IF nx = ny THEN nx + 1 ELSE nx
      zds == scaled.ds \o (IF nx = ny THEN <<scaled.num, 0>> ELSE <<scaled.num>>)
      done[j \in ny..(from + 1)] ==
        IF j = from + 1 THEN zds ELSE QuotientDigit(done[j + 1], yds, j)
      z == done[ny]
  IN  IF nx < ny \/ (nx = ny /\ x.ds[nx] < y.ds[ny]) THEN [div |-> INT2FIX(0), mod |-> bignorm(x)]
      ELSE IF ny = 1
      THEN LET s == Short(x.ds, y.ds[1])
           IN  [div |-> bignorm(Big(x.sign, s.ds)), mod |-> INT2FIX(IF y.sign THEN s.rem ELSE -s.rem)]
      ELSE [div |-> bignorm(Big(x.sign = y.sign, SubSeq(z, ny + 1, Len(z)))),
            mod |-> bignorm(Big(y.sign, Short(SubSeq(z, 1, ny), dd).ds))]

divmod(x, y) ==
  IF FIXNUM_P(x) /\ FIXNUM_P(y)
  THEN LET q == CDiv(x.n, y.n) IN [div |-> INT2FIX(q), mod |-> INT2FIX(x.n - q * y.n)]
  ELSE bigdivmod(coerce(x), coerce(y))

IsZero(y) == IF FIXNUM_P(y) THEN y.n = 0 ELSE y.ds = <<>>

-----------------------------------------------------------------------------
\* Order

big_cmp(x, y) ==
  LET less == IF x.sign THEN -1 ELSE 1
      nx == Len(x.ds)
      differ == {i \in 1..nx : x.ds[i] # y.ds[i]}
      top == CHOOSE i \in differ : \A j \in differ : j <= i
  IN  IF x.sign # y.sign THEN (IF x.sign THEN 1 ELSE -1)
      ELSE IF nx # Len(y.ds) THEN (IF nx < Len(y.ds) THEN less ELSE -less)
      ELSE IF differ = {} THEN 0
      ELSE IF x.ds[top] > y.ds[top] THEN -less ELSE less

cmp(x, y) ==
  IF FIXNUM_P(x) /\ FIXNUM_P(y) THEN (IF x.n = y.n THEN 0 ELSE IF x.n > y.n THEN 1 ELSE -1)
  ELSE big_cmp(coerce(x), coerce(y))

-----------------------------------------------------------------------------
\* Bits

Complement(ds) == [i \in DOMAIN ds |-> BIGRAD - 1 - ds[i]]

\* A result of 0 or 1 gets a further digit 1.
big_2comp(ds) ==
  LET c == IF ds = <<>> THEN <<>> ELSE Carry(Complement(ds), 1).ds
  IN  IF digit(c, 1) \in {0, 1} /\ \A i \in 2..Len(c) : c[i] = 0 THEN Append(c, 1) ELSE c

twos(x) == IF x.sign THEN x.ds ELSE big_2comp(x.ds)
signed(sign, ds) == bignorm(Big(sign, IF sign THEN ds ELSE big_2comp(ds)))

BitOp(op, a, b) == CASE op = "and" -> a & b [] op = "or" -> a | b [] op = "xor" -> a ^^ b

\* big_and(), big_or() and big_xor(): the longer operand's further digits meet
\* the sign of the shorter.
big_bits(op, x, y) ==
  LET xds == twos(x)
      yds == twos(y)
      swap == Len(xds) > Len(yds)
      ds1 == IF swap THEN yds ELSE xds
      ds2 == IF swap THEN xds ELSE yds
      sign == IF swap THEN y.sign ELSE x.sign
      Rest(d) == CASE op = "and" -> IF sign THEN 0 ELSE d
                   [] op = "or" -> IF sign THEN d ELSE BIGRAD - 1
                   [] op = "xor" -> IF sign THEN d ELSE BIGRAD - 1 - d
      zsign == CASE op = "and" -> x.sign /\ y.sign
                 [] op = "or" -> x.sign \/ y.sign
                 [] op = "xor" -> x.sign = y.sign
  IN  signed(zsign, [i \in 1..Len(ds2) |->
                       IF i <= Len(ds1) THEN BitOp(op, ds1[i], ds2[i]) ELSE Rest(ds2[i])])

fix_bits(op, a, b) == INT2FIX(int(BitOp(op, a % LONG, b % LONG)))

bits(op, x, y) ==
  IF FIXNUM_P(x) /\ FIXNUM_P(y) THEN fix_bits(op, x.n, y.n)
  ELSE IF FIXNUM_P(x) THEN big_bits(op, y, int2big(x.n)) ELSE big_bits(op, x, coerce(y))

\* ~x
invert(x) ==
  IF FIXNUM_P(x) THEN INT2FIX(-x.n - 1)
  ELSE IF x.sign THEN bignorm(Big(FALSE, big_2comp(Complement(x.ds))))
  ELSE LET c == big_2comp(x.ds)
       IN  bignorm(Big(TRUE, [i \in DOMAIN c |-> IF i <= Len(x.ds) THEN BIGRAD - 1 - c[i] ELSE c[i]]))

bit(x, i) ==
  IF FIXNUM_P(x)
  THEN IF i < 0 \/ i > 2 * BITSPERDIG - 1 THEN 0 ELSE ((x.n % LONG) \div 2 ^ i) % 2
  ELSE IF i < 0 THEN 0
  ELSE LET s1 == i \div BITSPERDIG IN
         IF s1 >= Len(x.ds) THEN (IF x.sign THEN 0 ELSE 1)
         ELSE (twos(x)[s1 + 1] \div 2 ^ (i % BITSPERDIG)) % 2

Zeros(n) == [i \in 1..n |-> 0]

big_lshift(x, shift) ==
  LET c == Carry([i \in 1..Len(x.ds) |-> x.ds[i] * 2 ^ (shift % BITSPERDIG)], 0)
  IN  bignorm(Big(x.sign, Append(Zeros(shift \div BITSPERDIG) \o c.ds, c.num)))

big_rshift(x, shift) ==
  LET s1 == shift \div BITSPERDIG
      s2 == shift % BITSPERDIG
      n == Len(x.ds)
  IN  IF s1 > n THEN INT2FIX(IF x.sign THEN 0 ELSE -1)
      ELSE bignorm(Big(x.sign, [j \in 1..(n - s1) |->
             BIGLO((x.ds[j + s1] + digit(x.ds, j + s1 + 1) * BIGRAD) \div 2 ^ s2)]))

\* A Fixnum is shifted by s >= 0; other shifts are undefined in C.
lshift(x, s) ==
  IF ~FIXNUM_P(x) THEN (IF s < 0 THEN big_rshift(x, -s) ELSE big_lshift(x, s))
  ELSE IF s > 2 * BITSPERDIG - 1 \/ (x.n % LONG) \div 2 ^ (2 * BITSPERDIG - 1 - s) > 0
  THEN big_lshift(int2big(x.n), s) ELSE int2inum(x.n * 2 ^ s)

\* The width is compared as a VALUE, 2 s + 1, and negative ones are large.
rshift(x, s) ==
  IF ~FIXNUM_P(x) THEN (IF s < 0 THEN big_lshift(x, -s) ELSE big_rshift(x, s))
  ELSE IF s >= 0 /\ 2 * s + 1 < 2 * BITSPERDIG THEN INT2FIX(x.n \div 2 ^ s) ELSE INT2FIX(0)

-----------------------------------------------------------------------------
\* Text.  A number is written as its sign and its digits, the highest first.
\* Form[b] has, for the base b, the digits that are got at a time (4 in the
\* code), the characters per bit that big2str() reserves, as a fraction, and
\* the bits per character that str2inum() reserves.

Reversed(s) == [i \in 1..Len(s) |-> s[Len(s) + 1 - i]]

\* The characters of one remainder n; the last remainder is not filled up.
Chars(n, base, last) ==
  LET full == Form[base].chunk
      some == CHOOSE k \in 1..full : n < base ^ k /\ (k = 1 \/ n >= base ^ (k - 1))
  IN  [k \in 1..(IF last THEN some ELSE full) |-> (n \div base ^ (k - 1)) % base]

\* Mutant: every remainder is written with as few characters as it needs.
big2str_fill(x, base) ==
  LET RECURSIVE rest(_)
      rest(ds) == IF ds = <<>> THEN <<>>
                  ELSE LET s == Short(ds, base ^ Form[base].chunk)
                       IN  Chars(s.rem, base, TRUE) \o rest(Strip(s.ds))
  IN  [sign |-> x.sign, chars |-> Reversed(Strip(rest(x.ds))), room |-> TRUE]

big2str(x, base) ==
  LET j == (BITSPERDIG * Len(x.ds) * Form[base].num) \div Form[base].den + 2
      RECURSIVE rest(_)
      rest(ds) ==
        LET s == Short(ds, base ^ Form[base].chunk)
            i == IF s.ds[Len(ds)] = 0 THEN Len(ds) - 1 ELSE Len(ds)
        IN  Chars(s.rem, base, i = 0) \o (IF i = 0 THEN <<>> ELSE rest(SubSeq(s.ds, 1, i)))
      chars == rest(x.ds)
  IN  [sign |-> x.sign, chars |-> Reversed(Strip(chars)), room |-> Len(chars) < j]

\* The digits of z are multiplied by the base and the next character added; what
\* is carried out of the last one would be written behind it.
str2inum(s, base) ==
  LET len == Len(s.chars) * Form[base].wide
      Value[i \in 0..Len(s.chars)] == IF i = 0 THEN 0 ELSE Value[i - 1] * base + s.chars[i]
      val == Value[Len(s.chars)]
      zeros == Zeros(len \div BITSPERDIG + 1)
      z[i \in 0..Len(s.chars)] ==
        IF i = 0 THEN [ds |-> zeros, num |-> 0]
        ELSE LET ds == z[i - 1].ds IN Carry([k \in DOMAIN ds |-> ds[k] * base], s.chars[i])
  IN  IF len <= 2 * BITSPERDIG
      THEN IF POSFIXABLE(val) THEN INT2FIX(IF s.sign THEN val ELSE -val)
           ELSE [uint2big(val) EXCEPT !.sign = s.sign]
      ELSE bignorm(Big(s.sign, z[Len(s.chars)].ds))

-----------------------------------------------------------------------------
\* The program

ValueOf(x) == IF FIXNUM_P(x) THEN x.n ELSE IF x.sign THEN Magnitude(x.ds) ELSE -Magnitude(x.ds)

None == Fix(0)

\* A method was called: its result is kept if it is one of the Literals.
Call(op, y, z, m) ==
  /\ did.op = "none"
  /\ did' = [op |-> op, x |-> num, y |-> y, z |-> z, m |-> m]
  /\ num' = IF ValueOf(z) \in Literals THEN z ELSE num

\* A number in the program's text.
Literal(n) ==
  IF abs(n) < LONG \div 2 THEN int2inum(n)
  ELSE Big(n >= 0, Strip([i \in 1..4 |-> BIGLO(abs(n) \div BIGRAD ^ (i - 1))]))
Operand == {Literal(n) : n \in Literals}

Plus == \E y \in Operand : Call("+", y, plus(num, y), None)
Minus == \E y \in Operand : Call("-", y, minus(num, y), None)
Mul == \E y \in Operand : Call("*", y, mul(num, y), None)
\* The bound on what is raised to more than the second power is TLC's.
Pow == \E e \in Powers :
         (e > 2 => abs(ValueOf(num)) < LONG) /\ Call("**", Fix(e), pow(num, e), None)
Uminus == Call("-@", None, uminus(num), None)
Abs == Call("abs", None, absolute(num), None)
DivMod == \E y \in Operand :
            ~IsZero(y) /\ LET d == divmod(num, y) IN Call("divmod", y, d.div, d.mod)
Compare == \E y \in Operand : Call("<=>", y, Fix(cmp(num, y)), None)
BitAnd == \E y \in Operand : Call("&", y, bits("and", num, y), None)
BitOr == \E y \in Operand : Call("|", y, bits("or", num, y), None)
BitXor == \E y \in Operand : Call("^", y, bits("xor", num, y), None)
Invert == Call("~", None, invert(num), None)
Aref == \E i \in Shifts : Call("[]", Fix(i), Fix(bit(num, i)), None)
Lshift == \E s \in Shifts : (s >= 0 \/ ~FIXNUM_P(num)) /\ Call("<<", Fix(s), lshift(num, s), None)
Rshift == \E s \in Shifts : Call(">>", Fix(s), rshift(num, s), None)
ToS == ~FIXNUM_P(num) /\ num.ds # <<>> /\
         \E b \in DOMAIN Form : LET s == big2str(num, b) IN
           Call("to_s", Fix(b), str2inum(s, b), Fix(IF s.room THEN 1 ELSE 0))

Nothing == [op |-> "none", x |-> None, y |-> None, z |-> None, m |-> None]

Returned == did.op # "none" /\ did' = Nothing /\ UNCHANGED num

Init == num \in Operand /\ did = Nothing

Next ==
  \/ Plus \/ Minus \/ Mul \/ Pow \/ Uminus \/ Abs \/ DivMod \/ Compare
  \/ BitAnd \/ BitOr \/ BitXor \/ Invert \/ Aref \/ Lshift \/ Rshift \/ ToS \/ Returned

Spec == Init /\ [][Next]_vars

-----------------------------------------------------------------------------
X == ValueOf(did.x)
Y == ValueOf(did.y)
Z == ValueOf(did.z)
M == ValueOf(did.m)
positive == X >= 0 /\ Y >= 0

\* Every number is a Fixnum in its range, or a Bignum of digits without a
\* leading zero.
TypeOK ==
  \A x \in {num, did.z, did.m} :
    IF FIXNUM_P(x) THEN POSFIXABLE(x.n) /\ NEGFIXABLE(x.n)
    ELSE /\ \A i \in DOMAIN x.ds : x.ds[i] \in 0..(BIGRAD - 1)
         /\ x.ds = Strip(x.ds)

\* A result that fits is a Fixnum, so that equal numbers are equal as hash keys:
\* but for x ** 1, which is x made into a Bignum, for the least Fixnum, which
\* bignorm() and str2inum() leave a Bignum, and for what is made of those.
Canonical ==
  (did.op \notin {"none", "**"} /\ Z # FIXNUM_MIN /\ did.x = Literal(X))
     => (FIXNUM_P(did.z) <=> POSFIXABLE(Z) /\ NEGFIXABLE(Z))

\* Sums, products, powers and left shifts are those of the integers, however
\* the operands and the result are represented.
SumsExact ==
  /\ did.op = "+" => Z = X + Y
  /\ did.op = "-" => Z = X - Y
  /\ did.op = "*" => Z = X * Y
  /\ did.op = "**" => Z = IF Y = 0 THEN 1 ELSE X ^ Y
  /\ did.op = "-@" => Z = -X
  /\ did.op = "abs" => Z = abs(X)
  /\ (did.op = "<<" /\ Y >= 0) => Z = X * 2 ^ Y

\* <=> orders the integers, whatever represents them.
OrderExact == did.op = "<=>" => Z = IF X < Y THEN -1 ELSE IF X > Y THEN 1 ELSE 0

\* divmod() gives the integer quotient and remainder of the magnitudes, and for
\* positive operands their values; only the least Fixnum by -1 does not fit.
DivExact ==
  (did.op = "divmod" /\ ~(X = FIXNUM_MIN /\ Y = -1 /\ FIXNUM_P(did.x)))
    => /\ abs(X) = abs(Z) * abs(Y) + abs(M) /\ abs(M) < abs(Y)
       /\ positive => Z >= 0 /\ M >= 0

\* The integer with these bits, in more bits than any operand has.
Wide == BIGRAD ^ 5
OfBits(op, a, b) == Wrap(BitOp(op, a % Wide, b % Wide), Wide)
\* big_2comp() takes 1 for an overflow: of a magnitude of ones, and of -1.
Ones(x) == LET b == coerce(x) IN ~b.sign /\ \A i \in DOMAIN b.ds : b.ds[i] = BIGRAD - 1

\* Bits are those of two's complement: of any Fixnums, and of Bignums of one
\* sign, as long as big_2comp() does not meet a 1.
BitsExact ==
  LET short == FIXNUM_P(did.x) /\ FIXNUM_P(did.y)
      same == (X >= 0) = (Y >= 0) /\ ~Ones(did.x) /\ ~Ones(did.y)
      meant == OfBits(CASE did.op = "&" -> "and" [] did.op = "|" -> "or" [] OTHER -> "xor", X, Y)
  IN
  /\ (did.op \in {"&", "|", "^"} /\ (short \/ (same /\ meant # -1))) => Z = meant
  /\ (did.op = "~" /\ (FIXNUM_P(did.x) \/ ~Ones(did.x))) => Z = -X - 1
  /\ (did.op = "[]" /\ Y >= 0 /\ (FIXNUM_P(did.x) => Y < 2 * BITSPERDIG)) => Z = (X \div 2 ^ Y) % 2
  /\ (did.op = ">>" /\ Y >= 0 /\ X >= 0 /\ (FIXNUM_P(did.x) => Y < BITSPERDIG)) => Z = X \div 2 ^ Y

\* The methods compute with digits and words what they mean on integers, and a
\* number has one representation.
IntegersExact == Canonical /\ SumsExact /\ OrderExact /\ DivExact /\ BitsExact

\* What big2str() writes fits into the string it has made for it, and str2inum()
\* reads the same number back.
RoundTrip == did.op = "to_s" => Z = X /\ M = 1

=============================================================================
