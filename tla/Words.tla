--------------------------------- MODULE Words ---------------------------------
(***************************************************************************)
(* Machine words in the rc2 runtime: the C conversions, the division,      *)
(* shifts and wrapping arithmetic of Idris's fixed-width types, and the    *)
(* two layouts of an immediate (idris2rc2_numeric.h, idris2rc2_datatypes.h,*)
(* idris2rc2_memory.h).                                                    *)
(*                                                                         *)
(* A type is [signed, bits].  W is the width of the machine word: 64 in    *)
(* the code, where int has 32 bits; the widths of a model keep that order. *)
(***************************************************************************)
EXTENDS Integers

Abs(n) == IF n < 0 THEN -n ELSE n
Sgn(n) == IF n < 0 THEN -1 ELSE 1

(***************************************************************************)
(* Conversion to a type of C: two's complement at its width.               *)
(***************************************************************************)
Unsigned(n, bits) == n % 2^bits
Signed(n, bits) ==
  LET u == n % 2^bits IN IF u < 2^(bits - 1) THEN u ELSE u - 2^bits

Type(signed, bits) == [signed |-> signed, bits |-> bits]
Convert(ty, n) == IF ty.signed THEN Signed(n, ty.bits) ELSE Unsigned(n, ty.bits)
Members(ty) ==
  IF ty.signed THEN -(2^(ty.bits - 1)) .. 2^(ty.bits - 1) - 1 ELSE 0 .. 2^ty.bits - 1

(***************************************************************************)
(* C division truncates toward zero; the remainder takes the dividend's    *)
(* sign.  Idris's division is Euclidean: the code corrects the quotient by *)
(* one, and the remainder by the divisor's size, when it is negative.      *)
(***************************************************************************)
CDiv(a, b) == Sgn(a) * Sgn(b) * (Abs(a) \div Abs(b))
CRem(a, b) == a - b * CDiv(a, b)

EuclidQuotient(n, d) ==
  CDiv(n, d) + (IF CRem(n, d) < 0 THEN (IF d < 0 THEN 1 ELSE -1) ELSE 0)
EuclidRemainder(n, d) ==
  LET r == CRem(n, d) IN IF r < 0 THEN r + Abs(d) ELSE r

\* idris2rc2_ediv_i8 .. i64: a type as wide as int or wider would trap on the
\* least number divided by -1; a narrower one is promoted to int and cut back.
EDiv(n, d, bits, intBits) ==
  IF bits >= intBits /\ d = -1 THEN Signed(0 - n, bits)
  ELSE Signed(EuclidQuotient(n, d), bits)

\* idris2rc2_emod_i8 .. i32 work at the word's width, where |d| fits; i64 has
\* no wider type and adds |d| without a sign.
EMod(n, d, bits, W) ==
  IF bits < W THEN Signed(EuclidRemainder(n, d), bits)
  ELSE IF d = -1 THEN 0
  ELSE LET r == CRem(n, d)
       IN IF r >= 0 THEN r ELSE Signed(Unsigned(r, W) + Unsigned(Abs(d), W), W)

\* idris2rc2_shl_<type>, idris2rc2_shr_<type>: the count is an unsigned word.
Shl(ty, x, y, W) ==
  IF y >= ty.bits THEN 0 ELSE Convert(ty, Unsigned(Unsigned(x, W) * 2^y, W))
Shr(ty, x, y) ==
  IF y >= ty.bits THEN (IF x < 0 THEN -1 ELSE 0) ELSE Convert(ty, x \div 2^y)

\* The boxed operators: + - * run on unsigned words and are cut back; the
\* count of a shift, of the type itself, is seen as an unsigned word.
Arith(op, ty, a, b, W, intBits) ==
  CASE op = "add" -> Convert(ty, Unsigned(Unsigned(a, W) + Unsigned(b, W), W))
    [] op = "sub" -> Convert(ty, Unsigned(Unsigned(a, W) - Unsigned(b, W), W))
    [] op = "mul" -> Convert(ty, Unsigned(Unsigned(a, W) * Unsigned(b, W), W))
    [] op = "div" -> IF ty.signed THEN EDiv(a, b, ty.bits, intBits) ELSE a \div b
    [] op = "mod" -> IF ty.signed THEN EMod(a, b, ty.bits, W) ELSE a % b
    [] op = "shiftl" -> Shl(ty, a, Unsigned(b, W), W)
    [] op = "shiftr" -> Shr(ty, a, Unsigned(b, W))
    [] op = "negate" -> Convert(ty, Unsigned(0 - Unsigned(a, W), W))
ArithOps == {"add", "sub", "mul", "div", "mod", "shiftl", "shiftr", "negate"}

(***************************************************************************)
(* Immediates: bit 0 of the word is set.  A type of at most half a word    *)
(* sits in the upper half; a word-wide number is shifted left by one.      *)
(***************************************************************************)
IsUnboxed(w) == w % 2 = 1
(* Mutant: a negative number is not cut to its width before it is packed.  *)
PackSignExtended(ty, n, W) == (n * 2^(W \div 2) + 1) % 2^(W + 1)

Pack(ty, n, W) == Unsigned(n, ty.bits) * 2^(W \div 2) + 1
Unpack(ty, w, W) == Convert(ty, w \div 2^(W \div 2))
ImmWord(n, W) == Unsigned(Unsigned(n, W) * 2, W) + 1
ImmSigned(w, W) == Signed(w, W) \div 2
ImmUnsigned(w) == w \div 2

\* idris2rc2_mkInt64 and idris2rc2_mkBits64 box what their immediate cannot hold.
FitsImm(ty, n, W) ==
  IF ty.signed THEN n >= -(2^(W - 2)) /\ n < 2^(W - 2) ELSE n < 2^(W - 1)

(***************************************************************************)
(* Casts: unbox, convert, box.                                             *)
(***************************************************************************)
CastNum(from, to, n) == Convert(to, Convert(from, n))

\* idris2rc2_charFromCodepoint
IsScalar(n) == 0 <= n /\ n <= 1114111 /\ ~(55296 <= n /\ n <= 57343)
CharFromCodepoint(n) ==
  IF \/ n >= 0 /\ n <= 55295
     \/ n >= 57344 /\ n <= 1114111
  THEN n ELSE 0
CastToChar(from, n, W) == CharFromCodepoint(Signed(Convert(from, n), W))

\* idris2rc2_double_to_wrapped, of a Double given in halves ("nan" and the
\* infinities are not finite): fmod takes the sign of the dividend.
Trunc(halves) == CDiv(halves, 2)
DoubleToWrapped(finite, halves, W) ==
  IF ~finite THEN 0
  ELSE LET d == Trunc(halves)
           m == CRem(d, 2^W)
       IN IF d > -(2^(W - 1)) /\ d < 2^(W - 1) THEN Unsigned(d, W)
          ELSE IF m < 0 THEN m + 2^W ELSE m
CastDouble(to, finite, halves, W) == Convert(to, DoubleToWrapped(finite, halves, W))

-----------------------------------------------------------------------------
(***************************************************************************)
(* What the operators promise.                                             *)
(***************************************************************************)
Congruent(ty, n) == CHOOSE r \in Members(ty) : (n - r) % 2^ty.bits = 0
Meant(op, ty, a, b, W) ==
  LET count == IF b < 0 \/ b > 2 * W THEN 2 * W ELSE b
  IN Congruent(ty,
       CASE op = "add" -> a + b
         [] op = "sub" -> a - b
         [] op = "mul" -> a * b
         [] op = "div" -> CHOOSE q \in -Abs(a) - 1 .. Abs(a) + 1 :
                            a - q * b \in 0 .. Abs(b) - 1
         [] op = "mod" -> CHOOSE r \in 0 .. Abs(b) - 1 : (a - r) % Abs(b) = 0
         [] op = "shiftl" -> a * 2^count
         [] op = "shiftr" -> a \div 2^count
         [] op = "negate" -> -a)

\* Two operands of every type: the arithmetic of the unbounded integers, cut to
\* the type, at the least number, the divisor -1 and counts past the width.
ArithmeticExact(ty, a, b, W, intBits) ==
  \A op \in ArithOps :
    \/ op \in {"div", "mod"} /\ b = 0
    \/ op = "negate" /\ ~ty.signed
    \/ Arith(op, ty, a, b, W, intBits) = Meant(op, ty, a, b, W)

\* Immediates: the reader of a type gets back what was packed, the tag bit is
\* set, and words are equal, or for wide numbers ordered, as the numbers are.
ImmediatesFaithful(ty, a, b, W) ==
  /\ 2 * ty.bits <= W =>
       /\ IsUnboxed(Pack(ty, a, W)) /\ Pack(ty, a, W) < 2^W
       /\ Unpack(ty, Pack(ty, a, W), W) = a
       /\ (Pack(ty, a, W) = Pack(ty, b, W)) <=> (a = b)
  /\ ty.bits = W /\ FitsImm(ty, a, W) =>
       /\ IsUnboxed(ImmWord(a, W)) /\ ImmWord(a, W) < 2^W
       /\ (IF ty.signed THEN ImmSigned(ImmWord(a, W), W) ELSE ImmUnsigned(ImmWord(a, W))) = a
       /\ ty.signed /\ FitsImm(ty, b, W) =>
            ((Signed(ImmWord(a, W), W) < Signed(ImmWord(b, W), W)) <=> (a < b))

\* Casts keep the number modulo the width of the target, and the integer part
\* of a Double, given in halves, too.
CastsAgree(from, to, n, halves, W) ==
  /\ CastNum(from, to, n) = Congruent(to, n)
  /\ CastDouble(to, TRUE, halves, W) = Congruent(to, Sgn(halves) * (Abs(halves) \div 2))
  /\ CastDouble(to, FALSE, halves, W) = 0

\* A cast makes a Char of scalar values only, and keeps those.
MakesScalars(n, W) ==
  \A ty \in {Type(TRUE, W), Type(FALSE, W)} :
    /\ IsScalar(CastToChar(ty, n, W))
    /\ IsScalar(n) => CastToChar(ty, n, W) = n
================================================================================
