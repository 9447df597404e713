------------------------------- MODULE Float -------------------------------
(***************************************************************************)
(* The numbers of C's type float (external: IEEE 754 in single precision,  *)
(* each operation rounded for itself to the nearest, halves to even, as on *)
(* the board's processor): m * 2^e with a significand m of 24 bits, or 0.  *)
(* Integers stay below 2^31 on the way: bits too many for that are kept as *)
(* one odd bit far below the last that counts.  Left out: infinities, NaN  *)
(* and numbers so small that they lose bits.                               *)
(***************************************************************************)
EXTENDS Integers

Zero == [m |-> 0, e |-> 0]

Abs(n) == IF n < 0 THEN -n ELSE n

\* how many bits a positive number has
Size(n) == CHOOSE k \in 1 .. 31 : 2^(k - 1) <= n /\ (k = 31 \/ n < 2^k)

\* toward zero, as C divides
ToZero(n, d) == IF (n < 0) = (d < 0) THEN Abs(n) \div Abs(d) ELSE -(Abs(n) \div Abs(d))

\* n * 2^e, where n has more than 26 bits if it is not exact
Rounded(n, e) ==
  LET s == Size(Abs(n)) - 24
      q == Abs(n) \div 2^s
      r == Abs(n) % 2^s
      up == 2 * r > 2^s \/ (2 * r = 2^s /\ q % 2 = 1)
      m == IF up THEN q + 1 ELSE q
      Signed(k) == IF n < 0 THEN -k ELSE k
  IN  CASE n = 0 -> Zero
        [] n # 0 /\ s <= 0 -> [m |-> n * 2^(-s), e |-> e + s]
        [] n # 0 /\ s > 0 /\ m = 2^24 -> [m |-> Signed(2^23), e |-> e + s + 1]
        [] OTHER -> [m |-> Signed(m), e |-> e + s]

\* the odd bit: the true value is strictly between n and n + 1
Sticky(n, inexact) == IF inexact /\ n % 2 = 0 THEN n + 1 ELSE n

OfInt(n) == Rounded(n, 0)

p (+) q ==
  LET hi == IF p.e >= q.e THEN p ELSE q
      lo == IF p.e >= q.e THEN q ELSE p
      d  == hi.e - lo.e
      k  == 2^(IF d > 30 THEN 25 ELSE d - 5)
  IN  CASE p.m = 0 -> q
        [] p.m # 0 /\ q.m = 0 -> p
        [] p.m # 0 /\ q.m # 0 /\ d <= 5 -> Rounded(hi.m * 32 + lo.m * 2^(5 - d), hi.e - 5)
        [] OTHER -> Rounded(Sticky(hi.m * 32 + lo.m \div k, lo.m % k # 0), hi.e - 5)

p (-) q == p (+) [q EXCEPT !.m = -@]

p (.) q ==
  LET a == Abs(p.m)
      b == Abs(q.m)
      low  == (a % 2^12) * (b % 2^12)
      mid  == (a \div 2^12) * (b % 2^12) + (a % 2^12) * (b \div 2^12) + low \div 2^12
      high == (a \div 2^12) * (b \div 2^12) * 2^5 + mid \div 2^7
      n == Sticky(high, mid % 2^7 # 0 \/ low % 2^12 # 0)
  IN  Rounded(IF (p.m < 0) = (q.m < 0) THEN n ELSE -n, p.e + q.e + 19)

\* seven bits of the quotient at a time; q is not 0
p (/) q ==
  LET b == Abs(q.m)
      step[k \in 0 .. 4] ==
        IF k = 0 THEN [n |-> Abs(p.m) \div b, rest |-> Abs(p.m) % b]
        ELSE LET s == step[k - 1]
             IN [n |-> s.n * 2^7 + (s.rest * 2^7) \div b, rest |-> (s.rest * 2^7) % b]
      n == Sticky(step[4].n, step[4].rest # 0)
  IN  IF p.m = 0 THEN Zero
      ELSE Rounded(IF (p.m < 0) = (q.m < 0) THEN n ELSE -n, p.e - q.e - 28)

\* (int): toward zero; what is too large is undefined in C, and the board's
\* processor gives the integer nearest to it
ToInt(p) ==
  CASE p.e > 7 /\ p.m > 0 -> 2147483647
    [] p.e > 7 /\ p.m < 0 -> -2147483647 - 1
    [] p.e \in 0 .. 7 -> p.m * 2^p.e
    [] p.e < 0 -> ToZero(p.m, 2^(IF p.e < -24 THEN 24 ELSE -p.e))
    [] OTHER -> 0

\* nearer to 0 than a tenth
Tiny(p) == p.m = 0 \/ p.e < -27 \/ (p.e = -27 /\ 10 * Abs(p.m) < 2^27)
=============================================================================
