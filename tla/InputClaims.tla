------------------------------ MODULE InputClaims ------------------------------
(***************************************************************************)
(* One invariant for the operators of Words, one for those of Text and one *)
(* for those of Buffers, on a machine of given widths, over the input that *)
(* a behaviour looks at: two numbers of a type, any that fits in a word; a *)
(* number that is cast to Char; a String, two of them, or a character and  *)
(* what follows it; two buffers with what is written to the first of them. *)
(***************************************************************************)
EXTENDS Words, Text, Buffers

CONSTANTS MachineBits,   \* the word of the arithmetic and the immediates (64 in the code)
          MachineInt,    \* int, which narrower types are promoted to (32)
          CharBits       \* the word a Char is cast from (64)

\* An immediate has a tag bit, and a Char goes up to 1114111, and a sign.
ASSUME WidthAssumption ==
  /\ MachineBits \in Nat /\ MachineBits >= 2
  /\ MachineInt \in Nat
  /\ CharBits \in Nat /\ CharBits >= 22
  /\ ByteBits \in Nat \ {0} /\ IntBits \in Nat \ {0}

VARIABLE input

MachineTypes == {Type(signed, bits) : signed \in BOOLEAN, bits \in 1..MachineBits}
IsNumberInput(i) ==
  i.about = "word" => i.type \in MachineTypes /\ i.a \in Members(i.type) /\ i.b \in Members(i.type)
IsCharInput(i) == i.about = "codepoint" => i.n \in Int

\* A String holds any bytes, a Char a scalar value.
IsTextInput(i) ==
  /\ i.about \in {"string", "pair"} => i.s \in Seq(Octet)
  /\ i.about = "pair" => i.t \in Seq(Octet)
  /\ i.about = "scalar" => i.cp \in Scalars /\ i.rest \in Seq(Octet)

\* The size of a buffer is an int; a String may be longer.
Byte == 0..2^ByteBits - 1
IsBufferInput(i) ==
  i.about = "buffer" =>
    /\ i.buf \in Seq(Byte) /\ Len(i.buf) < 2^(IntBits - 1)
    /\ i.other \in Seq(Byte) /\ Len(i.other) < 2^(IntBits - 1)
    /\ i.loc \in Int /\ i.val \in Int /\ i.str \in Seq(Byte)

\* Fixed-width arithmetic is that of the integers cut to the type, an immediate
\* holds the number packed into it, casts keep it modulo the target's width
\* and make a Char only of a scalar value (idris2rc2_numeric.h).
WordsExact ==
  /\ input.about = "word" =>
       /\ ArithmeticExact(input.type, input.a, input.b, MachineBits, MachineInt)
       /\ ImmediatesFaithful(input.type, input.a, input.b, MachineBits)
       /\ \A to \in MachineTypes :
            CastsAgree(input.type, to, input.a, 5 * input.a + input.b, MachineBits)
  /\ input.about = "codepoint" => MakesScalars(input.n, CharBits)

\* The string primitives see every String, well formed or not, as the same
\* sequence of characters (idris2rc2_utf8.c, idris2rc2_strings.c).
StringsAreCharacters ==
  /\ input.about = "string" =>
       DecodesAll(input.s) /\ ActsOnCharacters(input.s) /\ CharactersOf(input.s)
  /\ input.about = "pair" =>
       /\ DecodesAll(input.s) /\ ActsOnCharacters(input.s) /\ CharactersOf(input.s)
       /\ PairsAgree(input.s, input.t)
  /\ input.about = "scalar" => ScalarSurvives(input.cp, input.rest)

\* A buffer gives back what was written and changes nothing else, or the
\* process stops (idris2rc2_buffer.c).
BuffersKeepBytes ==
  input.about = "buffer" =>
    KeepsBytes(input.buf, input.other, input.loc, input.val, input.str)
================================================================================
