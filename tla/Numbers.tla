-------------------------------- MODULE Numbers --------------------------------
(***************************************************************************)
(* Boxed arithmetic of the rc2 runtime: Integer, Int64 and Bits64          *)
(* (idris2rc2_numeric.h, idris2rc2_numeric.c, idris2rc2_memory.c).  The    *)
(* operators on Double, which round, are not modelled.                     *)
(*                                                                         *)
(* A number is an immediate, kept in the value word itself, or a counted   *)
(* heap cell.  Integer is unbounded and has ONE form for each number: a    *)
(* cell only for what does not fit an immediate.  Int64 and Bits64 wrap at *)
(* the word, and a cell may hold a small number.  An operator consumes its *)
(* operands: a cell with no other reference becomes the result, so a       *)
(* shared number must never be the one that is written.                    *)
(*                                                                         *)
(* Limit stands for 2^62 and Word for 2^64; everything else follows.       *)
(* `means` is what the source program means by each of its variables.      *)
(***************************************************************************)
EXTENDS Words, FiniteSets

CONSTANTS LimitBits,    \* an immediate has LimitBits + 1 bits (62 in the code)
          Names,        \* the variables of the program
          Cells,        \* memory for boxed numbers
          NoCell,       \* in the word of a variable that is not in use
          Literals,     \* the numbers a program may start from
          MaxSize       \* bound: the largest magnitude computed

ASSUME NumberConstants ==
  /\ LimitBits \in Nat \ {0}
  /\ IsFiniteSet(Names)
  /\ Literals \subseteq Int
  /\ NoCell \notin Cells
  /\ MaxSize \in Nat

Limit == 2^LimitBits
Word == 4 * Limit
WordBits == LimitBits + 2
Kinds == {"Integer", "Int64", "Bits64"}

VARIABLES kind,    \* the type of the program's numbers
          heap,    \* cell -> [rc, val]; rc = 0 when free
          word,    \* variable -> the word it holds, or NoWord
          means    \* variable -> the number it stands for

nvars == <<kind, heap, word, means>>

Imm(n) == [imm |-> TRUE, n |-> n]
Ptr(c) == [imm |-> FALSE, n |-> c]
NoWord == Ptr(NoCell)
ValueIn(h, w) == IF w.imm THEN w.n ELSE h[w.n].val
Unique(h, w) == ~w.imm /\ h[w.n].rc = 1
BothImm(x, y) == x.imm /\ y.imm

Bit(n, i) == (n \div 2^i) % 2
BitOp(op, a, b) ==
  CASE op = "and" -> a * b
    [] op = "or"  -> a + b - a * b
    [] op = "xor" -> (a + b) % 2
\* The bitwise operators of C and of GMP agree on numbers of `bits` bits: f[i]
\* is what they make of the i upper ones, and the sign goes on above them.
Bitwise(op, a, b, bits) ==
  LET f[i \in 0..bits] ==
        IF i = 0 THEN -BitOp(op, Bit(a, bits), Bit(b, bits))
        ELSE BitOp(op, Bit(a, bits - i), Bit(b, bits - i)) + 2 * f[i - 1]
  IN f[bits]
\* Bits that hold both numbers.
Wide(a, b) == IF Abs(a) < Abs(b) THEN Abs(b) ELSE Abs(a)

(***************************************************************************)
(* Memory.                                                                 *)
(***************************************************************************)
Free(h) == {c \in Cells : h[c].rc = 0}
Result(h, w) == [heap |-> h, word |-> w]
New(h, v) == LET c == CHOOSE c \in Free(h) : TRUE
             IN Result([h EXCEPT ![c] = [rc |-> 1, val |-> v]], Ptr(c))
Dup(h, w) == IF w.imm THEN h ELSE [h EXCEPT ![w.n].rc = @ + 1]
Drop(h, w) ==
  IF w.imm THEN h
  ELSE IF h[w.n].rc = 1 THEN [h EXCEPT ![w.n] = [rc |-> 0, val |-> 0]]
  ELSE [h EXCEPT ![w.n].rc = @ - 1]
Store(h, w, v) == [h EXCEPT ![w.n].val = v]

\* idris2rc2_mkInt64, idris2rc2_mkIntegerI64, idris2rc2_mkBits64
InImmediate(n) == -Limit <= n /\ n < Limit
Make(k, h, n) ==
  IF \/ k \in {"Integer", "Int64"} /\ InImmediate(n)
     \/ k = "Bits64" /\ n < 2 * Limit
  THEN Result(h, Imm(n))
  ELSE New(h, n)

\* idris2rc2_integerNormalize: by the number of limbs, then by the limb.
Limbs(n) == IF n = 0 THEN 0 ELSE IF Abs(n) < Word THEN Sgn(n) ELSE 2 * Sgn(n)
(* Mutant: -Limit, which an immediate can hold, is left in its cell.       *)
NormalizeSymmetric(h, w) ==
  LET n == h[w.n].val
  IN IF Abs(n) >= Limit THEN Result(h, w) ELSE Result(Drop(h, w), Imm(n))

Normalize(h, w) ==
  LET n == h[w.n].val
      size == Limbs(n)
      mag == Abs(n)
  IN CASE size = 0 -> Result(Drop(h, w), Imm(0))
       [] size \notin {-1, 0, 1} -> Result(h, w)
       [] size = 1 /\ mag >= Limit -> Result(h, w)
       [] size = -1 /\ mag > Limit -> Result(h, w)
       [] OTHER -> Result(Drop(h, w), Imm(size * mag))

(***************************************************************************)
(* Integer.  GMP functions are exact; the result goes to a cell that only  *)
(* this operation holds.                                                   *)
(***************************************************************************)
(* Mutant: the left operand is written although another variable has it.   *)
BinopAnyCell(h, x, y, n) ==
  LET dst == IF ~x.imm /\ x # y THEN Result(Store(h, x, n), x)
             ELSE IF Unique(h, y) THEN Result(Store(h, y, n), y)
             ELSE New(h, n)
      h1 == IF dst.word = x THEN dst.heap ELSE Drop(dst.heap, x)
      h2 == IF dst.word = y THEN h1 ELSE Drop(h1, y)
  IN Normalize(h2, dst.word)

BinopSlow(h, x, y, n) ==
  LET dst == IF Unique(h, x) THEN Result(Store(h, x, n), x)
             ELSE IF Unique(h, y) THEN Result(Store(h, y, n), y)
             ELSE New(h, n)
      h1 == IF dst.word = x THEN dst.heap ELSE Drop(dst.heap, x)
      h2 == IF dst.word = y THEN h1 ELSE Drop(h1, y)
  IN Normalize(h2, dst.word)

UnarySlow(h, x, n) ==
  LET dst == IF Unique(h, x) THEN Result(Store(h, x, n), x) ELSE New(h, n)
      h1 == IF dst.word = x THEN dst.heap ELSE Drop(dst.heap, x)
  IN Normalize(h1, dst.word)

\* mpz_get_ui: the low word of the magnitude.
Count(y) == Abs(y) % Word
ShiftSlow(h, x, y, n) ==
  LET dst == IF Unique(h, x) THEN Result(Store(h, x, n), x) ELSE New(h, n)
      h1 == IF dst.word = x THEN dst.heap ELSE Drop(dst.heap, x)
  IN Normalize(Drop(h1, y), dst.word)

Mpz(op, a, b) ==
  CASE op = "add" -> a + b
    [] op = "sub" -> a - b
    [] op = "mul" -> a * b
    [] op = "mod" -> a % Abs(b)
    [] op = "shiftl" -> a * 2^Count(b)
    [] op = "shiftr" -> a \div 2^Count(b)
    [] op \in {"and", "or", "xor"} -> Bitwise(op, a, b, Wide(a, b))

\* What an operator does on two immediates, in int64_t arithmetic; the guards
\* under which it does it rather than call GMP are FastPath.
FastPath(op, a, b) ==
  CASE op = "mul" -> a * b = Signed(a * b, WordBits)
    [] op = "mod" -> b # 0
    [] op = "shiftl" ->
         /\ Abs(b) < LimitBits
         /\ Signed(a * 2^Abs(b), WordBits) \div 2^Abs(b) = a
    [] OTHER -> TRUE

Fast(op, a, b) ==
  CASE op = "add" -> a + b
    [] op = "sub" -> a - b
    [] op = "mul" -> a * b
    [] op = "mod" -> LET r == CRem(a, b) IN IF r < 0 THEN r + Abs(b) ELSE r
    [] op = "shiftl" -> Signed(a * 2^Abs(b), WordBits)
    [] op = "shiftr" -> a \div 2^(IF Abs(b) > WordBits - 1 THEN WordBits - 1 ELSE Abs(b))
    [] op \in {"and", "or", "xor"} -> Bitwise(op, a, b, WordBits - 1)

IntegerOps == {"add", "sub", "mul", "mod", "and", "or", "xor", "shiftl", "shiftr"}

IntegerOp(h, op, x, y) ==
  LET a == ValueIn(h, x)
      b == ValueIn(h, y)
  IN IF BothImm(x, y) /\ FastPath(op, a, b)
     THEN Make("Integer", h, Fast(op, a, b))
     ELSE IF op \in {"shiftl", "shiftr"}
     THEN ShiftSlow(h, x, y, Mpz(op, a, b))
     ELSE BinopSlow(h, x, y, Mpz(op, a, b))

\* idris2rc2_div_Integer keeps its operands.
IntegerDiv(h, x, y) ==
  LET a == ValueIn(h, x)
      b == ValueIn(h, y)
      q == CDiv(a, b)
      exact == New(h, CDiv(a - (a % Abs(b)), b))
  IN IF BothImm(x, y)
     THEN Make("Integer", h, IF CRem(a, b) < 0 THEN q + (IF b > 0 THEN -1 ELSE 1) ELSE q)
     ELSE Normalize(exact.heap, exact.word)

IntegerNegate(h, x) ==
  IF x.imm THEN Make("Integer", h, -x.n) ELSE UnarySlow(h, x, -h[x.n].val)

(***************************************************************************)
(* Int64 and Bits64 wrap at the word; a count of the width or more shifts  *)
(* everything out; signed division is Euclidean.                           *)
(***************************************************************************)
WordType(k) == Type(k = "Int64", WordBits)

WordOp(k, op, a, b) ==
  IF op \in {"and", "or", "xor"} THEN Convert(WordType(k), Bitwise(op, a, b, WordBits))
  ELSE Arith(op, WordType(k), a, b, WordBits, LimitBits)

WordOps == IntegerOps \cup {"div"}

(* Mutant: an operand whose cell is reused keeps the other one alive.      *)
ReuseAndKeep(k, h, x, y, n) ==
  IF Unique(h, x) THEN Result(Store(h, x, n), x)
  ELSE IF Unique(h, y) THEN Result(Drop(Store(h, y, n), x), y)
  ELSE LET dst == Make(k, h, n) IN Result(Drop(Drop(dst.heap, x), y), dst.word)

\* The reuse of an operand's cell (IDRIS2RC2_DEFOP_REUSE_RESULT).
ReuseResult(k, h, x, y, n) ==
  IF Unique(h, x) THEN Result(Drop(Store(h, x, n), y), x)
  ELSE IF Unique(h, y) THEN Result(Drop(Store(h, y, n), x), y)
  ELSE LET dst == Make(k, h, n) IN Result(Drop(Drop(dst.heap, x), y), dst.word)

ReuseUnary(k, h, x, n) ==
  IF Unique(h, x) THEN Result(Store(h, x, n), x) ELSE Make(k, Drop(h, x), n)

Operate(k, h, op, x, y) ==
  IF k = "Integer" THEN IntegerOp(h, op, x, y)
  ELSE ReuseResult(k, h, x, y, WordOp(k, op, ValueIn(h, x), ValueIn(h, y)))

Negate(k, h, x) ==
  IF k = "Integer" THEN IntegerNegate(h, x)
  ELSE LET n == ValueIn(h, x)
       IN ReuseUnary(k, h, x, Arith("negate", WordType(k), n, 0, WordBits, LimitBits))

(***************************************************************************)
(* What the operators mean: exact on Integer, exact modulo the word on     *)
(* Int64 and Bits64, the Euclidean quotient and remainder.                 *)
(***************************************************************************)
IsWord(k) == k \in {"Int64", "Bits64"}
Carried(k) == IF IsWord(k) THEN Members(WordType(k)) ELSE -MaxSize .. MaxSize
Cut(k, n) == IF IsWord(k) THEN Congruent(WordType(k), n) ELSE n
Remainder(a, b) == CHOOSE r \in 0..Abs(b) - 1 : (a - r) % Abs(b) = 0
Quotient(a, b) == CHOOSE q \in -Abs(a) - 1 .. Abs(a) + 1 : a = q * b + Remainder(a, b)
ByBits(op, a, b) ==
  CHOOSE r \in -(Abs(a) + Abs(b)) .. Abs(a) + Abs(b) :
    \A i \in 0..Wide(a, b) + 1 : Bit(r, i) = BitOp(op, Bit(a, i), Bit(b, i))
\* The count of an Integer shift is a magnitude; Int64 and Bits64 shift by the
\* count seen as unsigned.
Amount(k, b) == IF k = "Integer" THEN Abs(b) % Word ELSE b % Word

Meaning(k, op, a, b) ==
  Cut(k,
    CASE op = "add" -> a + b
      [] op = "sub" -> a - b
      [] op = "mul" -> a * b
      [] op = "div" -> Quotient(a, b)
      [] op = "mod" -> Remainder(a, b)
      [] op = "shiftl" -> a * 2^Amount(k, b)
      [] op = "shiftr" -> a \div 2^Amount(k, b)
      [] OTHER -> ByBits(op, a, b))

\* The inputs the model follows: no division by zero (the process stops), no
\* result beyond MaxSize, no power of two that TLC cannot compute.
Followed(k, op, a, b) ==
  /\ op \in {"div", "mod"} => b # 0
  /\ op \in {"shiftl", "shiftr"} => Amount(k, b) < 2 * WordBits + 2
  /\ k = "Integer" => Abs(Meaning(k, op, a, b)) <= MaxSize

-----------------------------------------------------------------------------
Empty ==
  /\ heap = [c \in Cells |-> [rc |-> 0, val |-> 0]]
  /\ word = [p \in Names |-> NoWord]
  /\ means = [p \in Names |-> 0]
NumbersInit == kind \in Kinds /\ Empty

Live(p) == word[p] # NoWord
Put(p, r, n) ==
  /\ heap' = r.heap
  /\ word' = [word EXCEPT ![p] = r.word]
  /\ means' = [means EXCEPT ![p] = n]

\* idris2rc2_mkIntegerLiteral and the other constructors of constants.
Literal(p, n) ==
  /\ ~Live(p) /\ n \in Carried(kind) /\ Free(heap) # {}
  /\ IF kind = "Integer"
     THEN LET r == New(heap, n) IN Put(p, Normalize(r.heap, r.word), n)
     ELSE Put(p, Make(kind, heap, n), n)
  /\ UNCHANGED kind

Copy(p, q) ==
  /\ Live(p) /\ ~Live(q)
  /\ Put(q, Result(Dup(heap, word[p]), word[p]), means[p])
  /\ UNCHANGED kind

Forget(p) ==
  /\ Live(p)
  /\ Put(p, Result(Drop(heap, word[p]), NoWord), 0)
  /\ UNCHANGED kind

\* An operator takes the two references and gives one.
Binary(op, p, q) ==
  /\ Live(p) /\ Live(q) /\ p # q /\ Free(heap) # {}
  /\ op \in IF kind = "Integer" THEN IntegerOps ELSE WordOps
  /\ Followed(kind, op, means[p], means[q])
  /\ LET r == Operate(kind, heap, op, word[p], word[q])
     IN /\ heap' = r.heap
        /\ word' = [word EXCEPT ![p] = r.word, ![q] = NoWord]
        /\ means' = [means EXCEPT ![p] = Meaning(kind, op, means[p], means[q]), ![q] = 0]
  /\ UNCHANGED kind

\* Integer division keeps its operands; compiled code stores the quotient.
Divide(p, q, s) ==
  /\ kind = "Integer"
  /\ Live(p) /\ Live(q) /\ ~Live(s) /\ Free(heap) # {}
  /\ Followed(kind, "div", means[p], means[q])
  /\ Put(s, IntegerDiv(heap, word[p], word[q]), Quotient(means[p], means[q]))
  /\ UNCHANGED kind

Unary(p) ==
  /\ Live(p) /\ Free(heap) # {} /\ kind # "Bits64"
  /\ Put(p, Negate(kind, heap, word[p]), Cut(kind, -means[p]))
  /\ UNCHANGED kind

NumbersNext ==
  \E p, q \in Names :
    \/ \E n \in Literals : Literal(p, n)
    \/ Copy(p, q)
    \/ Forget(p)
    \/ \E op \in IntegerOps \cup {"div"} : Binary(op, p, q)
    \/ \E s \in Names : Divide(p, q, s)
    \/ Unary(p)

NumbersSpec == NumbersInit /\ [][NumbersNext]_nvars
-----------------------------------------------------------------------------
(***************************************************************************)
(* Readers: what compiled code asks of an Integer.                         *)
(***************************************************************************)
\* The order of two immediates is the order of their words.
Compare(x, y) ==
  LET a == IF BothImm(x, y) THEN 2 * x.n + 1 ELSE ValueIn(heap, x)
      b == IF BothImm(x, y) THEN 2 * y.n + 1 ELSE ValueIn(heap, y)
  IN IF a < b THEN -1 ELSE IF a > b THEN 1 ELSE 0

\* idris2rc2_eq_Integer_raw: an immediate never equals a boxed Integer.
Equal(x, y) == IF x.imm \/ y.imm THEN x = y ELSE Compare(x, y) = 0

\* idris2rc2_integerEqualsLiteral, called for a literal that needs a cell.
EqualsLiteral(x, lit) == ~x.imm /\ heap[x.n].val = lit

\* idris2rc2_integerLsb, then the narrowing to the type.
LowBits(x, bits) == IF x.imm THEN Unsigned(x.n, WordBits) ELSE Unsigned(heap[x.n].val, bits)
ToSigned(x, bits) == Signed(LowBits(x, bits), bits)
ToUnsigned(x, bits) == Unsigned(LowBits(x, bits), bits)

-----------------------------------------------------------------------------
NumbersExact ==
  \A p \in Names : Live(p) => ValueIn(heap, word[p]) = means[p]
CellsCounted ==
  \A c \in Cells : heap[c].rc = Cardinality({p \in Names : word[p] = Ptr(c)})

\* However long a sequence of operators, and whichever cells they reuse, every
\* variable holds the number the program computed, and the count of a cell is
\* the number of variables that hold it: an operand that another variable
\* shares is never the cell that is written, an operator gives up both operands
\* and keeps one reference for its result, and the fast path on immediates, GMP
\* and the wrapping types all give the exact result (integerBinopSlow,
\* integerShiftSlow, IDRIS2RC2_DEFOP_REUSE_RESULT).
ProgramsExact == NumbersExact /\ CellsCounted

\* Every reader of an Integer answers as the numbers do: equality by words,
\* order, the test for a literal too large for an immediate, and the casts to
\* each width.  This needs the single form of each Integer, which the
\* arithmetic must restore after every operation (integerNormalize).
ProgramsRead ==
  kind = "Integer" =>
    \A p, q \in {n \in Names : Live(n)} :
      /\ Equal(word[p], word[q]) <=> means[p] = means[q]
      /\ Compare(word[p], word[q]) =
           (IF means[p] < means[q] THEN -1 ELSE IF means[p] > means[q] THEN 1 ELSE 0)
      /\ \A lit \in Literals :
           ~InImmediate(lit) => (EqualsLiteral(word[p], lit) <=> means[p] = lit)
      /\ \A bits \in 1..WordBits :
           /\ (ToUnsigned(word[p], bits) - means[p]) % 2^bits = 0
           /\ (ToSigned(word[p], bits) - means[p]) % 2^bits = 0
           /\ ToSigned(word[p], bits) \in -(2^(bits - 1)) .. 2^(bits - 1) - 1
================================================================================
