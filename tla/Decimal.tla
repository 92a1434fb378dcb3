-------------------------------- MODULE Decimal --------------------------------
(***************************************************************************)
(* Double to text and back (idris2rc2_numeric.c): the runtime's own        *)
(* conversion, in exact integer arithmetic.                                *)
(*                                                                         *)
(* A Double is [m, e], the number m * 2^e with m below 2^Precision, or Inf.*)
(* A literal is [int, frac, exp]: the digits before and after the point    *)
(* and the exponent that follows.  53, -1074, 971 and 17 are scaled to     *)
(* Precision, MinExp, MaxExp and MaxDigits.                                *)
(***************************************************************************)
EXTENDS Integers, Sequences, SequencesExt

CONSTANTS Precision,   \* bits of a significand (53)
          MinExp,      \* exponent of the smallest subnormal (-1074)
          MaxExp,      \* exponent of the largest Double (971)
          MaxDigits,   \* decimal digits that tell all Doubles apart (17)
          MaxMagnitude,\* decimal magnitudes not worth converting (340)
          PlainLow, PlainHigh   \* magnitudes written without an exponent (-6, 21)

Full == 2^Precision
Inf == [m |-> Full, e |-> MaxExp]
Zero == [m |-> 0, e |-> MinExp]
Doubles ==
  {[m |-> m, e |-> MinExp] : m \in 0..Full - 1}
    \cup {[m |-> m, e |-> e] : m \in Full \div 2 .. Full - 1, e \in MinExp + 1 .. MaxExp}

\* mpz_sizeinbase(n, base)
RECURSIVE Size(_, _)
Size(n, base) == IF n < base THEN 1 ELSE 1 + Size(n \div base, base)
Digits(n) == LET k == Size(n, 10) IN [i \in 1..k |-> (n \div 10^(k - i)) % 10]

\* Whether q, of which rest/den is left, is rounded up: to nearest, ties to even.
RoundsUp(q, rest, den) == 2 * rest > den \/ (2 * rest = den /\ q % 2 = 1)
RoundQuotient(num, den) ==
  LET q == num \div den IN IF RoundsUp(q, num % den, den) THEN q + 1 ELSE q

\* ldexp: exact within the range, rounded below the smallest normal number.
Ldexp(q, e) ==
  IF e < MinExp
  THEN LET m == RoundQuotient(q, 2^(MinExp - e))
       IN IF m = Full THEN [m |-> Full \div 2, e |-> MinExp + 1] ELSE [m |-> m, e |-> MinExp]
  ELSE IF e > MaxExp THEN Inf
  ELSE [m |-> q, e |-> e]

(***************************************************************************)
(* idris2rc2_ratio_to_double: scale by 2^s until the quotient has exactly  *)
(* Precision bits, starting from an estimate, then round once.             *)
(***************************************************************************)
RECURSIVE Pin(_, _, _)
Pin(num, den, s) ==
  LET bits == Size(num \div den, 2)
  IN IF bits < Precision THEN Pin(2 * num, den, s + 1)
     ELSE IF bits > Precision THEN Pin(num, 2 * den, s - 1)
     ELSE [num |-> num, den |-> den, s |-> s]

RatioToDouble(num, den) ==
  IF num = 0 THEN Zero
  ELSE LET s == Precision - (Size(num, 2) - Size(den, 2))
           pin == IF s >= 0 THEN Pin(num * 2^s, den, s) ELSE Pin(num, den * 2^(-s), s)
           q == RoundQuotient(pin.num, pin.den)
       IN IF q = Full THEN Ldexp(q \div 2, 1 - pin.s) ELSE Ldexp(q, -pin.s)

\* idris2rc2_scan_decimal: the digits as one number, and a power of ten.
ScanDecimal(lit) ==
  [sig |-> FoldLeft(LAMBDA n, digit : 10 * n + digit, 0, lit.int \o lit.frac),
   dexp |-> lit.exp - Len(lit.frac)]

\* idris2rc2_parse_double; mpz_sizeinbase(_, 10) may count one digit too many.
ParseDouble(lit, extra) ==
  LET dec == ScanDecimal(lit)
      mag == Size(dec.sig, 10) + extra + dec.dexp
  IN IF dec.sig = 0 THEN Zero
     ELSE IF mag > MaxMagnitude THEN Inf
     ELSE IF mag < -MaxMagnitude THEN Zero
     ELSE IF dec.dexp >= 0 THEN RatioToDouble(dec.sig * 10^dec.dexp, 1)
     ELSE RatioToDouble(dec.sig, 10^(-dec.dexp))

(***************************************************************************)
(* idris2rc2_place_point: the number 0.<ds> * 10^k as a literal.           *)
(***************************************************************************)
Lit(int, frac, exp) == [int |-> int, frac |-> frac, exp |-> exp]
Zeros(n) == [i \in 1..n |-> 0]
(* Mutant: the exponent counts the digit before the point too.             *)
PlaceOneTooHigh(ds, k) ==
  IF k <= PlainLow \/ k > PlainHigh THEN Lit(<<Head(ds)>>, Tail(ds), k)
  ELSE IF k <= 0 THEN Lit(<<0>>, Zeros(-k) \o ds, 0)
  ELSE IF k >= Len(ds) THEN Lit(ds \o Zeros(k - Len(ds)), <<0>>, 0)
  ELSE Lit(SubSeq(ds, 1, k), SubSeq(ds, k + 1, Len(ds)), 0)

PlacePoint(ds, k) ==
  IF k <= PlainLow \/ k > PlainHigh THEN Lit(<<Head(ds)>>, Tail(ds), k - 1)
  ELSE IF k <= 0 THEN Lit(<<0>>, Zeros(-k) \o ds, 0)
  ELSE IF k >= Len(ds) THEN Lit(ds \o Zeros(k - Len(ds)), <<0>>, 0)
  ELSE Lit(SubSeq(ds, 1, k), SubSeq(ds, k + 1, Len(ds)), 0)

(***************************************************************************)
(* idris2rc2_shortest_double: for 1, 2, .. digits, the number rounded to   *)
(* that many digits, until one is read back as the same number.  e10, from *)
(* a floating-point log10, may be one off.                                 *)
(***************************************************************************)
Scaled(v, q10) ==
  LET m == IF q10 >= 0 THEN v.m * 5^q10 ELSE v.m
      d == IF q10 >= 0 THEN 1 ELSE 5^(-q10)
      sh == v.e + q10
  IN IF sh >= 0 THEN RoundQuotient(m * 2^sh, d) ELSE RoundQuotient(m, d * 2^(-sh))

StripZeros(ds) ==
  LET strip == CHOOSE i \in 0..Len(ds) - 1 :
        /\ \A j \in Len(ds) - i + 1 .. Len(ds) : ds[j] = 0
        /\ i = Len(ds) - 1 \/ ds[Len(ds) - i] # 0
  IN SubSeq(ds, 1, Len(ds) - strip)

Candidate(v, p, e10) ==
  LET q10 == p - 1 - e10
      ds == Digits(Scaled(v, q10))
  IN PlacePoint(StripZeros(ds), Len(ds) - q10)

Attempts(v, e10, extra) ==
  {p \in 1..MaxDigits : Scaled(v, p - 1 - e10) # 0 /\ ParseDouble(Candidate(v, p, e10), extra) = v}
ShortestDouble(v, e10, extra) ==
  LET p == CHOOSE p \in Attempts(v, e10, extra) : \A r \in Attempts(v, e10, extra) : p <= r
  IN Candidate(v, p, e10)

-----------------------------------------------------------------------------
(***************************************************************************)
(* Reference: numbers as fractions n / d, d positive.                      *)
(***************************************************************************)
Power(b, k) == IF k >= 0 THEN [n |-> b^k, d |-> 1] ELSE [n |-> 1, d |-> b^(-k)]
Value(v) == [n |-> v.m * Power(2, v.e).n, d |-> Power(2, v.e).d]
ValueOf(dec) == [n |-> dec.sig * Power(10, dec.dexp).n, d |-> Power(10, dec.dexp).d]
AtMost(a, b) == a.n * b.d <= b.n * a.d

\* The Double next above v (Inf after the largest), and the point half way to it.
After(v) == IF v.m + 1 < Full THEN [v EXCEPT !.m = @ + 1]
            ELSE [m |-> Full \div 2, e |-> v.e + 1]
Middle(v) == LET u == Value(v) IN [n |-> 2 * u.n * Power(2, v.e - 1).d + Power(2, v.e - 1).n * 2 * u.d,
                                   d |-> 2 * u.d * Power(2, v.e - 1).d]
\* floor(log10(v)), and what a rounded log10 may give next to a power of ten.
Log10(v) ==
  CHOOSE k \in -MaxMagnitude..MaxMagnitude - 1 :
    AtMost(Power(10, k), Value(v)) /\ ~AtMost(Power(10, k + 1), Value(v))
Before(v) == IF v.m = Full \div 2 /\ v.e > MinExp THEN [m |-> Full - 1, e |-> v.e - 1]
             ELSE [v EXCEPT !.m = @ - 1]
Estimates(v) ==
  LET k == Log10(v)
  IN {k} \cup (IF AtMost(Power(10, k + 1), Value(After(v))) THEN {k + 1} ELSE {})
         \cup (IF AtMost(Value(Before(v)), Power(10, k)) THEN {k - 1} ELSE {})

Nearest(x) ==
  CHOOSE v \in Doubles :
    /\ AtMost(x, Middle(v)) /\ (AtMost(Middle(v), x) => v.m % 2 = 0)
    /\ v = Zero \/ LET u == CHOOSE u \in Doubles : After(u) = v
                   IN AtMost(Middle(u), x) /\ (AtMost(x, Middle(u)) => v.m % 2 = 0)

\* A finite positive Double is written as a literal that is read back as the
\* same number, whatever the estimates: the loop over the digit counts always
\* ends with an answer.
RoundTrips(v) ==
  \A e10 \in Estimates(v), extra \in {0, 1} :
    /\ Attempts(v, e10, extra) # {}
    /\ ParseDouble(ShortestDouble(v, e10, extra), extra) = v

\* A literal in the range of the normal Doubles is read as the nearest one,
\* ties to even.
ParsesToNearest(lit) ==
  LET x == ValueOf(ScanDecimal(lit))
  IN /\ AtMost(Value([m |-> Full \div 2, e |-> MinExp]), x)
     /\ AtMost(x, Value([m |-> Full - 1, e |-> MaxExp]))
     => \A extra \in {0, 1} : ParseDouble(lit, extra) = Nearest(x)
================================================================================
