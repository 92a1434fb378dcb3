------------------------------ MODULE MCArithmetic ------------------------------
(***************************************************************************)
(* Everything of the runtime and of rc2base that computes.  A pure         *)
(* algorithm has one initial state for each of the inputs chosen here; the *)
(* jump of a random generator runs one ring multiplication at a time; and  *)
(* programs of boxed numbers (Numbers) run operator by operator.           *)
(***************************************************************************)
EXTENDS InputClaims, Numbers, Decimal, Generators, TLC

MCLiterals == {-17, -9, -5, -4, 0, 1, 3, 4, 8, 16}
MCNames == Permutations(Names)
MCMinExp == -8
MCPlainLow == -1

BitsOf(n) == {k \in 0..15 : (n \div 2^k) % 2 = 1}
NoJump == [gen |-> "none", k |-> 0, e |-> 0]

\* A word has 8 bits, an int 4: types narrower than int, as wide, and as wide
\* as the word, whose numbers are taken at its edges.
Types == {Type(s, bits) : s \in BOOLEAN, bits \in {2, 3, 4, 8}}
Edges(ty) ==
  IF ty.bits < MachineBits THEN Members(ty)
  ELSE Members(ty) \cap ({-128, -127, -65, -64, -1, 0, 1, 5, 7, 8} \cup 62..65 \cup 126..129 \cup {254, 255})
WordInputs ==
  UNION {[about : {"word"}, type : {ty}, a : Edges(ty), b : Edges(ty)] : ty \in Types}
CodePointInputs ==
  [about : {"codepoint"},
   n : {-1, 0, 55295, 55296, 57343, 57344, 65533, 1114111, 1114112, 2^22, 2^23 - 1}]

DoubleInputs == [about : {"double"}, v : Doubles \ {Zero}]
LiteralInputs ==
  {[about |-> "literal", lit |-> Lit(Digits(n), f, e)] :
     n \in 0..99, f \in {<<>>} \cup {<<i>> : i \in 0..9}, e \in -4..1}

\* Lead bytes of each length, continuation bytes at the edges of what is valid
\* after them, bytes that start nothing.
SampleBytes == {0, 65, 128, 144, 159, 191, 193, 195, 224, 237, 240, 244, 245}
WholeStrings ==
  {<<>>, <<65>>, <<65, 0>>, <<195, 128>>, <<237, 159, 191>>, <<238, 128, 128>>,
   <<240, 143, 191, 191>>, <<240, 144, 128, 128>>, <<244, 143, 191, 191>>, <<244, 144, 128, 128>>}
StringInputs ==
  [about : {"string"}, s : UNION {[1..n -> SampleBytes] : n \in 0..3}]
    \cup [about : {"string"}, s : [1..4 -> {0, 128, 191, 224, 240, 244}]]
PairInputs == [about : {"pair"}, s : WholeStrings, t : WholeStrings]
ScalarInputs ==
  [about : {"scalar"},
   cp : {0, 1, 127, 128, 2047, 2048, 55295, 57344, 65533, 65535, 65536, 1114111},
   rest : {<<>>, <<128>>, <<240>>, <<65>>}]

\* Bytes of 2 bits and an int of 5, so offsets 16 and more are cut.
BufferInputs ==
  [about : {"buffer"}, buf : {<<>>, <<1>>, <<1, 2, 3>>, <<3, 0, 1, 2>>, <<3, 0, 1, 2, 2, 0, 3, 1, 1>>},
   other : {<<2, 3>>, <<0, 1, 3>>}, loc : -2..5 \cup {-32, 16, 32, 33},
   val : {-32769, -32, -1, 0, 1, 27, 63, 64, 65535},
   str : UNION {[1..n -> {0, 1, 2}] : n \in 0..2} \cup {<<1, 2, 0, 1>>, <<2, 1, 1>>}]

Inputs ==
  WordInputs \cup CodePointInputs \cup DoubleInputs \cup LiteralInputs
    \cup StringInputs \cup PairInputs \cup ScalarInputs \cup BufferInputs
NoProgram == kind = "none" /\ Empty
avars == <<input, jump, nvars>>

Init ==
  \/ NoProgram /\ jump = NoJump /\ input \in Inputs
  \/ /\ NoProgram /\ input = [about |-> "jump"]
     /\ \E gen \in {"64**", "128++"} :
          \/ \E ce \in {<<0, 2>>, <<1, 32>>, <<1, 48>>, <<1, 64>>, <<1, 96>>, <<3, 5>>, <<65, 0>>, <<127, 1>>} :
               jump = JumpPolyCE(gen, BitsOf(ce[1]), ce[2])
          \/ \E n \in {0, 5, 128} : jump = JumpPolyN(gen, BitsOf(n))
  \/ NumbersInit /\ jump = NoJump /\ input = [about |-> "program"]

Multiply == (NextBit \/ Square) /\ UNCHANGED <<input, nvars>>
Compute == input.about = "program" /\ NumbersNext /\ UNCHANGED <<input, jump>>
Spec == Init /\ [][Multiply \/ Compute]_avars

-----------------------------------------------------------------------------
\* A Double is written as a literal that is read back as the same number, and
\* a literal is read as the nearest Double (idris2rc2_shortest_double,
\* idris2rc2_parse_double).
DecimalsRoundTrip ==
  /\ input.about = "double" => RoundTrips(input.v)
  /\ input.about = "literal" => ParsesToNearest(input.lit)

\* A jump of a random generator is as many calls of next() as it says
\* (idris2rc2_rc2base_f2x.c).
JumpsAgree == input.about = "jump" => JumpsAreSteps
================================================================================
