---------------------------------- MODULE Text ----------------------------------
(***************************************************************************)
(* UTF-8 strings of the rc2 runtime (idris2rc2_utf8.c, idris2rc2_strings.c,*)
(* idris2rc2_numeric.h) and the byte slice of rc2base                      *)
(* (idris2rc2_rc2base_string_rc2.c).                                       *)
(*                                                                         *)
(* A String is a sequence of bytes, 0 among them; it may come from outside *)
(* and hold malformed UTF-8.  Offsets are C's, from 0.  Unicode keeps its  *)
(* real numbers: nothing is scaled.                                        *)
(***************************************************************************)
EXTENDS Integers, Sequences, SequencesExt

Octet == 0..255
Replacement == 65533                                          \* U+FFFD
LastCode == 1114111                                           \* U+10FFFF
Codes == 0..LastCode
Surrogate(cp) == 55296 <= cp /\ cp <= 57343
At(s, i) == s[i + 1]
Bytes(s, from, to) == SubSeq(s, from + 1, to)                 \* memcpy of [from, to)

(***************************************************************************)
(* Decoding.                                                               *)
(***************************************************************************)
IsContinuation(b) == 128 <= b /\ b < 192
LeadByteLen(b) ==
  CASE b < 128 -> 1
    [] 192 <= b /\ b < 224 -> 2
    [] 224 <= b /\ b < 240 -> 3
    [] 240 <= b /\ b <= 244 -> 4
    [] OTHER -> 0
PayloadOf(b, n) == CASE n = 1 -> b [] n = 2 -> b % 32 [] n = 3 -> b % 16 [] OTHER -> b % 8

(* Mutant: a sequence longer than its character needs is accepted.         *)
IsScalarOfAnyLen(cp, n) == cp \in Codes /\ ~Surrogate(cp)

IsScalarOfLen(cp, n) ==
  cp >= <<0, 128, 2048, 65536>>[n] /\ cp \in Codes /\ ~Surrogate(cp)

\* decodeBounded, of the bytes s[offset .. offset + avail).
DecodeBounded(s, offset, avail) ==
  LET n == LeadByteLen(At(s, offset))
      most == IF n < avail THEN n ELSE avail
      k == CHOOSE k \in 1..most :
             /\ \A i \in 1..k - 1 : IsContinuation(At(s, offset + i))
             /\ k < most => ~IsContinuation(At(s, offset + k))
      cp[i \in 0..k - 1] ==
        IF i = 0 THEN PayloadOf(At(s, offset), n) ELSE (At(s, offset + i) % 64) + 64 * cp[i - 1]
  IN IF n = 0 THEN [cp |-> Replacement, used |-> 1]
     ELSE [cp |-> IF k < n \/ ~IsScalarOfLen(cp[n - 1], n) THEN Replacement ELSE cp[n - 1],
           used |-> k]

DecodeAt(s, offset) ==
  IF offset >= Len(s) THEN [cp |-> Replacement, used |-> 1]
  ELSE DecodeBounded(s, offset, Len(s) - offset)

\* strlen, and idris2rc2_utf8DecodeAtNul: as many bytes as precede the
\* terminator, up to four.
StrLen(s) ==
  CHOOSE n \in 0..Len(s) : /\ \A i \in 1..n : s[i] # 0
                           /\ n < Len(s) => s[n + 1] = 0
DecodeAtNul(s, offset) ==
  DecodeBounded(s, offset, IF StrLen(s) - offset < 4 THEN StrLen(s) - offset ELSE 4)

\* Where the loop over the characters from an offset on is after n of them.
OffsetAfter(s, offset, n) ==
  LET o[i \in 0..n] ==
        IF i = 0 THEN offset
        ELSE LET p == o[i - 1] IN IF p < Len(s) THEN p + DecodeAt(s, p).used ELSE p
  IN o[n]
ByteOffsetOfChar(s, i) == OffsetAfter(s, 0, i)
Utf8Length(s) ==
  CHOOSE n \in 0..Len(s) : /\ ByteOffsetOfChar(s, n) = Len(s)
                           /\ \A i \in 0..n - 1 : ByteOffsetOfChar(s, i) < Len(s)
Piece(s, i) == Bytes(s, ByteOffsetOfChar(s, i - 1), ByteOffsetOfChar(s, i))

(***************************************************************************)
(* Encoding.                                                               *)
(***************************************************************************)
EncodeInto(cp) ==
  LET tail(unit) == 128 + ((cp \div unit) % 64)
  IN CASE cp < 128 -> <<cp>>
       [] cp >= 128 /\ cp < 2048 -> <<192 + (cp \div 64), tail(1)>>
       [] cp >= 2048 /\ cp < 65536 -> <<224 + (cp \div 4096), tail(64), tail(1)>>
       [] OTHER -> <<240 + (cp \div 262144), tail(4096), tail(64), tail(1)>>

(***************************************************************************)
(* String primitives.                                                      *)
(***************************************************************************)
StrHead(s) == IF Len(s) = 0 THEN 0 ELSE DecodeAt(s, 0).cp
StrTail(s) == Bytes(s, ByteOffsetOfChar(s, 1), Len(s))
StrCons(cp, s) == EncodeInto(cp) \o s
StrAppend(a, b) == a \o b
\* A negative index, seen as a size_t, is past every end.
StrIndex(s, i) == DecodeAt(s, IF i < 0 THEN Len(s) ELSE ByteOffsetOfChar(s, i)).cp
StrReverse(s) ==
  LET n == Utf8Length(s) IN FlattenSeq([i \in 1..n |-> Piece(s, n - i + 1)])
StrSubstr(start, len, s) ==
  LET from == ByteOffsetOfChar(s, start)
  IN IF start < 0 \/ len < 0 THEN <<>> ELSE Bytes(s, from, OffsetAfter(s, from, len))
\* idris2rc2_fastPackFixed and idris2rc2_fastUnpackFixed, to which ForeignDivert
\* sends every call; the char* variants beside them end at the first NUL.
FastPack(cps) == FlattenSeq([i \in DOMAIN cps |-> EncodeInto(cps[i])])
FastUnpack(s) == [i \in 1..Utf8Length(s) |-> DecodeAt(s, ByteOffsetOfChar(s, i - 1)).cp]
FastConcat(strs) == FlattenSeq(strs)

\* idris2rc2_strcmp3: the common prefix as bytes, then the lengths.
StrCmp3(a, b) ==
  LET n == IF Len(a) < Len(b) THEN Len(a) ELSE Len(b)
      differ == {i \in 1..n : a[i] # b[i]}
      i == CHOOSE i \in differ : \A j \in differ : i <= j
  IN IF differ # {} THEN (IF a[i] < b[i] THEN -1 ELSE 1)
     ELSE IF Len(a) < Len(b) THEN -1 ELSE IF Len(a) > Len(b) THEN 1 ELSE 0

\* idris2rc2_stringIteratorNextFixed, and stringIteratorNext, which ends at a NUL.
IteratorNextFixed(s, pos) ==
  IF pos >= Len(s) THEN <<>>
  ELSE <<[cp |-> DecodeAt(s, pos).cp, pos |-> pos + DecodeAt(s, pos).used]>>
IteratorNext(s, pos) ==
  IF pos >= Len(s) \/ At(s, pos) = 0 THEN <<>>
  ELSE <<[cp |-> DecodeAtNul(s, pos).cp, pos |-> pos + DecodeAtNul(s, pos).used]>>
\* What a loop over an iterator sees.
Iterate(s, next) ==
  LET at[i \in 0..Len(s)] ==
        IF i = 0 THEN 0
        ELSE IF next[at[i - 1]] = <<>> THEN at[i - 1] ELSE next[at[i - 1]][1].pos
      n == CHOOSE n \in 0..Len(s) : /\ next[at[n]] = <<>>
                                    /\ \A i \in 0..n - 1 : next[at[i]] # <<>>
  IN [i \in 1..n |-> next[at[i - 1]][1].cp]

\* idris2rc2_string_byte_slice: both ends are clamped to the string.
ByteSlice(s, off, len) ==
  LET start == IF off < 0 THEN 0 ELSE IF off > Len(s) THEN Len(s) ELSE off
      take == IF len < 0 THEN 0 ELSE IF len > Len(s) - start THEN Len(s) - start ELSE len
  IN Bytes(s, start, start + take)

-----------------------------------------------------------------------------
(***************************************************************************)
(* What the primitives promise: a String is its characters.                *)
(***************************************************************************)
Scalars == {cp \in Codes : ~Surrogate(cp)}
WellFormed(s) == FastPack(FastUnpack(s)) = s

\* Whatever the bytes, decoding takes each one once, in order, at most four at
\* a time; a character that is not U+FFFD is the one the bytes encode; one
\* U+FFFD stands for a lead byte with the continuation bytes after it.
DecodesAll(s) ==
  /\ ByteOffsetOfChar(s, Utf8Length(s)) = Len(s)
  /\ \A i \in 1..Utf8Length(s) :
       LET piece == Piece(s, i)
           cp == FastUnpack(s)[i]
       IN /\ Len(piece) \in 1..4
          /\ cp # Replacement => piece = EncodeInto(cp)
          /\ \A j \in 2..Len(piece) : IsContinuation(piece[j])
          /\ IsContinuation(piece[1]) => Len(piece) = 1

\* The primitives act on the characters: tail, index, substring, reversal,
\* the iterators, which agree up to the first NUL, and the byte slice.
ActsOnCharacters(s) ==
  LET cps == FastUnpack(s)
  IN /\ FastUnpack(StrTail(s)) = (IF cps = <<>> THEN <<>> ELSE Tail(cps))
     /\ \A i \in -1..Len(cps) :
          StrIndex(s, i) = IF i \in 0..Len(cps) - 1 THEN cps[i + 1] ELSE Replacement
     /\ \A i, n \in -1..Len(cps) + 1 :
          FastUnpack(StrSubstr(i, n, s)) =
            IF i < 0 \/ n < 0 THEN <<>>
            ELSE SubSeq(cps, i + 1, IF i + n < Len(cps) THEN i + n ELSE Len(cps))
     /\ WellFormed(s) => /\ FastUnpack(StrReverse(s)) = Reverse(cps)
                         /\ StrReverse(StrReverse(s)) = s
     /\ Len(StrReverse(s)) = Len(s)
     /\ Iterate(s, [p \in 0..Len(s) |-> IteratorNextFixed(s, p)]) = cps
     /\ Iterate(s, [p \in 0..Len(s) |-> IteratorNext(s, p)]) = FastUnpack(Bytes(s, 0, StrLen(s)))
     /\ \A i, n \in -1..Len(s) + 1 : LET t == ByteSlice(s, i, n)
                                     IN Len(t) <= Len(s) /\ (n >= 0 => IsPrefix(t, SubSeq(s, (IF i < 0 THEN 0 ELSE i) + 1, Len(s))))

\* Packing and unpacking are inverse on characters; a malformed piece becomes
\* U+FFFD and stays so.  Bytes sort as characters do, which lets the order of
\* two strings be memcmp's.
CharactersOf(s) ==
  /\ FastUnpack(FastPack(FastUnpack(s))) = FastUnpack(s)
  /\ \A cp \in {StrHead(s)} : WellFormed(s) /\ s # <<>> => StrCons(cp, StrTail(s)) = s

LessThan(x, y) ==
  \E i \in 1..Len(y) : /\ SubSeq(x, 1, i - 1) = SubSeq(y, 1, i - 1)
                       /\ Len(x) = i - 1 \/ (Len(x) >= i /\ x[i] < y[i])
PairsAgree(a, b) ==
  WellFormed(a) /\ WellFormed(b) =>
    /\ FastUnpack(StrAppend(a, b)) = FastUnpack(a) \o FastUnpack(b)
    /\ FastConcat(<<a, b, a>>) = FastPack(FastUnpack(a) \o FastUnpack(b) \o FastUnpack(a))
    /\ (StrCmp3(a, b) < 0) <=> LessThan(FastUnpack(a), FastUnpack(b))
    /\ (StrCmp3(a, b) = 0) <=> (a = b)

\* Every scalar value survives its encoding, whatever bytes follow it.
ScalarSurvives(cp, rest) ==
  LET enc == EncodeInto(cp)
  IN DecodeAt(enc \o rest, 0) = [cp |-> cp, used |-> Len(enc)]
================================================================================
