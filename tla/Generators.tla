------------------------------- MODULE Generators -------------------------------
(***************************************************************************)
(* The two random generators of rc2base and their jumps                    *)
(* (idris2rc2_rc2base_xoroshiro64starstar.c,                               *)
(* idris2rc2_rc2base_xoroshiro128plusplus.c, idris2rc2_rc2base_f2x.c).     *)
(*                                                                         *)
(* A word is the set of its bits, a state a pair of words <<s0, s1>>, a    *)
(* polynomial over GF(2) the set of its exponents.  A generator g is a     *)
(* record: the width of a word, the log2 of the width of a polynomial, the *)
(* rotations a and c, the shift b, the characteristic polynomial without   *)
(* its leading term, the constants of jump() and long_jump() with the      *)
(* exponents of the distances 2^e they stand for, and a seed to run it on. *)
(* What next() returns is a function of the state and is left out.         *)
(***************************************************************************)
EXTENDS Integers, Sequences

CONSTANT MaxSteps   \* bound: how many calls of next() are made one by one

\* A 64-bit or 32-bit constant, by its hexadecimal digits.
Hex(digits) ==
  {k \in 0..4 * Len(digits) - 1 :
     (digits[Len(digits) - k \div 4] \div 2^(k % 4)) % 2 = 1}
\* An array of words, low word first.
Words2(lo, hi, width) == lo \cup {k + width : k \in hi}

Xor(x, y) == (x \ y) \cup (y \ x)
Rotl(x, k, width) == {(i + k) % width : i \in x}
ShiftL(x, k, width) == {i + k : i \in {j \in x : j + k < width}}

Degree(g) == 2 * g.width

Xoroshiro64StarStar ==
  [width |-> 32, log |-> 6, a |-> 26, b |-> 9, c |-> 13,
   charpoly |-> Hex(<<0, 5, 3, 11, 14, 9, 13, 10, 6, 14, 2, 2, 8, 6, 12, 1>>),
   jump |-> Words2(Hex(<<7, 7, 15, 12, 13, 1, 10, 0>>), Hex(<<4, 12, 11, 15, 9, 9, 11, 13>>), 32),
   jumpExp |-> 32,
   longJump |-> Words2(Hex(<<3, 15, 1, 15, 8, 11, 9, 5>>), Hex(<<11, 4, 14, 7, 14, 4, 6, 3>>), 32),
   longExp |-> 48,
   seed |-> <<Hex(<<8, 9, 0, 2, 5, 12, 12, 1>>), Hex(<<9, 1, 0, 10, 2, 13, 14, 12>>)>>]

Xoroshiro128PlusPlus ==
  [width |-> 64, log |-> 7, a |-> 49, b |-> 21, c |-> 28,
   charpoly |-> Words2(Hex(<<8, 13, 10, 14, 7, 0, 7, 7, 9, 7, 6, 0, 11, 0, 8, 1>>),
                       Hex(<<0, 0, 3, 1, 11, 12, 15, 2, 15, 8, 5, 5, 13, 6, 14, 5>>), 64),
   jump |-> Words2(Hex(<<2, 11, 13, 7, 10, 6, 10, 6, 14, 9, 9, 12, 2, 13, 13, 12>>),
                   Hex(<<0, 9, 9, 2, 12, 12, 10, 15, 6, 10, 6, 15, 12, 10, 0, 5>>), 64),
   jumpExp |-> 64,
   longJump |-> Words2(Hex(<<3, 6, 0, 15, 13, 5, 15, 2, 12, 15, 8, 13, 5, 13, 9, 9>>),
                       Hex(<<9, 12, 6, 14, 6, 8, 7, 7, 7, 3, 6, 12, 4, 6, 14, 3>>), 64),
   longExp |-> 96,
   seed |-> <<Hex(<<9, 1, 0, 10, 2, 13, 14, 12, 8, 9, 0, 2, 5, 12, 12, 1>>),
              Hex(<<11, 14, 14, 11, 8, 13, 10, 1, 6, 5, 8, 14, 14, 12, 6, 7>>)>>]

Gen(name) == IF name = "64**" THEN Xoroshiro64StarStar ELSE Xoroshiro128PlusPlus

(***************************************************************************)
(* next(), and the pure functions pure_s0 and pure_s1 of the same step.    *)
(***************************************************************************)
PureS0(g, s0, s1) ==
  LET x == Xor(s1, s0)
  IN Xor(Xor(Rotl(s0, g.a, g.width), x), ShiftL(x, g.b, g.width))
PureS1(g, s0, s1) == Rotl(Xor(s1, s0), g.c, g.width)

Next(g, s) ==
  LET s1 == Xor(s[2], s[1])
  IN <<Xor(Xor(Rotl(s[1], g.a, g.width), s1), ShiftL(s1, g.b, g.width)),
       Rotl(s1, g.c, g.width)>>

WordsOf(g) == SUBSET (0..g.width - 1)
States(g) == WordsOf(g) \X WordsOf(g)

\* The body of a loop over the bits of a polynomial: run[k, x] is 2^k rounds.
Loop(g, Body(_), Locals, start) ==
  LET run[k \in 0..g.log, x \in Locals] ==
        IF k = 0 THEN Body(x) ELSE run[k - 1, run[k - 1, x]]
  IN run[g.log, start]

\* jump(), long_jump(), jump_apply(): step, and add up the states where a bit
\* of the polynomial is set.
Add(s, t) == <<Xor(s[1], t[1]), Xor(s[2], t[2])>>
JumpApply(g, s, poly) ==
  Loop(g,
       LAMBDA l : [sum |-> IF l.b \in poly THEN Add(l.sum, l.s) ELSE l.sum,
                   s |-> Next(g, l.s), b |-> l.b + 1],
       [sum : States(g), s : States(g), b : 0..Degree(g)],
       [sum |-> <<{}, {}>>, s |-> s, b |-> 0]).sum
Jump(g, s) == JumpApply(g, s, g.jump)
LongJump(g, s) == JumpApply(g, s, g.longJump)

(***************************************************************************)
(* Arithmetic modulo the characteristic polynomial.                        *)
(***************************************************************************)
MulX(g, a) ==
  LET up == {k + 1 : k \in a}
  IN IF Degree(g) \in up THEN Xor(up \ {Degree(g)}, g.charpoly) ELSE up

Polynomials(g) == SUBSET (0..Degree(g) - 1)

(* Mutant: the product is shifted after its term is added, not before.     *)
MulModLateShift(g, a, b) ==
  Loop(g,
       LAMBDA l : [r |-> MulX(g, IF l.k - 1 \in a THEN Xor(l.r, b) ELSE l.r),
                   k |-> l.k - 1],
       [r : Polynomials(g), k : 0..Degree(g)],
       [r |-> {}, k |-> Degree(g)]).r

\* f2x_mulmod: Horner's scheme, from the highest coefficient of a down.
MulMod(g, a, b) ==
  Loop(g,
       LAMBDA l : LET x == MulX(g, l.r)
                  IN [r |-> IF l.k - 1 \in a THEN Xor(x, b) ELSE x, k |-> l.k - 1],
       [r : Polynomials(g), k : 0..Degree(g)],
       [r |-> {}, k |-> Degree(g)]).r

(***************************************************************************)
(* f2x_jumppoly_ce and f2x_jumppoly_n: square and multiply.  `jump` is one *)
(* call: n has the bits of the distance, k of which are left; e squarings  *)
(* follow, of the `of` asked for; poly is x to the distance so far, and    *)
(* `far` that distance, a number of steps no longer counted past MaxSteps. *)
(***************************************************************************)
VARIABLE jump

Far == MaxSteps + 1
Capped(n) == IF n > MaxSteps THEN Far ELSE n
Squared(j) == [j EXCEPT !.poly = MulMod(Gen(j.gen), @, @), !.far = Capped(2 * @)]
TimesX(j) == [j EXCEPT !.poly = MulX(Gen(j.gen), @), !.far = Capped(@ + 1)]

JumpPolyCE(gen, c, e) == [gen |-> gen, n |-> c, k |-> 64, e |-> e, of |-> e, poly |-> {0}, far |-> 0]
JumpPolyN(gen, n) == [gen |-> gen, n |-> n, k |-> Degree(Gen(gen)), e |-> 0, of |-> 0, poly |-> {0}, far |-> 0]

NextBit ==
  /\ jump.k > 0
  /\ LET j == Squared([jump EXCEPT !.k = @ - 1])
     IN jump' = IF j.k \in j.n THEN TimesX(j) ELSE j
Square ==
  /\ jump.k = 0 /\ jump.e > 0
  /\ jump' = Squared([jump EXCEPT !.e = @ - 1])

-----------------------------------------------------------------------------
Steps(g, s, n) ==
  LET run[k \in 0..n, x \in States(g)] == IF k = 0 THEN x ELSE run[k - 1, Next(g, x)]
  IN run[n, s]

\* What the polynomial does to the seed is that many calls of next(), as long
\* as they can be made one by one; past that, doing it twice is doing what its
\* square does.  A finished jump_ce(1, e) is jump() or long_jump() for the e
\* their comments name, the one check there is on the constants in those; and
\* the pure functions of Gen compute the state that next() stores.
JumpsAreSteps ==
  LET g == Gen(jump.gen)
      once == JumpApply(g, g.seed, jump.poly)
      powerOf2 == jump.n = {0} /\ jump.k = 0 /\ jump.e = 0
  IN /\ IF jump.far <= MaxSteps THEN once = Steps(g, g.seed, jump.far)
        ELSE JumpApply(g, once, jump.poly) = JumpApply(g, g.seed, MulMod(g, jump.poly, jump.poly))
     /\ powerOf2 /\ jump.of = g.jumpExp => once = Jump(g, g.seed)
     /\ powerOf2 /\ jump.of = g.longExp => once = LongJump(g, g.seed)
     /\ <<PureS0(g, once[1], once[2]), PureS1(g, once[1], once[2])>> = Next(g, once)
================================================================================
