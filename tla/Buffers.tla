--------------------------------- MODULE Buffers ---------------------------------
(***************************************************************************)
(* Data.Buffer of the rc2 runtime (idris2rc2_buffer.c, idris2rc2_buffer.h).*)
(*                                                                         *)
(* A buffer is a sequence of bytes, offsets are C's, from 0.  A byte has   *)
(* ByteBits bits (8) and int, which an Idris Int is cut to on the way in,  *)
(* has IntBits (32).  An operation gives [ok, data] or stops the process.  *)
(***************************************************************************)
EXTENDS Words, Text

CONSTANTS ByteBits, IntBits

CInt(n) == Signed(n, IntBits)
Ok(data) == [ok |-> TRUE, data |-> data]
Stop == [ok |-> FALSE, data |-> <<>>]

\* assert_valid_range: no sum that could overflow.
ValidRange(buf, offset, len) ==
  offset >= 0 /\ len >= 0 /\ offset <= Len(buf) /\ len <= Len(buf) - offset
Within(buf, offset, len) == SubSeq(buf, offset + 1, offset + len)
(* Mutant: the check forgets that the range has a length.                  *)
WriteUnchecked(buf, offset, bytes) ==
  IF offset >= 0 /\ offset <= Len(buf)
  THEN Ok(SubSeq(buf, 1, offset) \o bytes \o SubSeq(buf, offset + Len(bytes) + 1, Len(buf)))
  ELSE Stop

Write(buf, offset, bytes) ==
  IF ValidRange(buf, offset, Len(bytes))
  THEN Ok(SubSeq(buf, 1, offset) \o bytes \o SubSeq(buf, offset + Len(bytes) + 1, Len(buf)))
  ELSE Stop

\* setBufferUIntLE and getBufferUIntLE, with the types of their macros: bytes
\* are shifted out at the low end, and in from the last one down.
SetUIntLE(buf, loc, val, len) ==
  Write(buf, CInt(loc), [i \in 1..len |-> Unsigned(val \div 2^(ByteBits * (i - 1)), ByteBits)])
GetUIntLE(buf, loc, len) ==
  LET b == Within(buf, CInt(loc), len)
      r[k \in 0..len] == IF k = 0 THEN 0 ELSE b[len - k + 1] + 2^ByteBits * r[k - 1]
  IN IF ValidRange(buf, CInt(loc), len) THEN Ok(r[len]) ELSE Stop
\* The macros of the signed types widen without a sign; the generated code's
\* narrower local gives it back.
GetIntLE(buf, loc, len) ==
  LET r == GetUIntLE(buf, loc, len)
  IN IF r.ok THEN Ok(Signed(r.data, ByteBits * len)) ELSE r

\* copyBuffer is memcpy: undefined when the two ranges overlap in one buffer.
CopyBuffer(from, fromOffset, len, to, toOffset) ==
  IF ValidRange(from, CInt(fromOffset), CInt(len)) /\ ValidRange(to, CInt(toOffset), CInt(len))
  THEN Write(to, CInt(toOffset), Within(from, CInt(fromOffset), CInt(len)))
  ELSE Stop

\* A String as the C functions see it ends at its first NUL; the Fixed
\* functions take it whole, and an offset as wide as Idris's Int.
UpToNulOf(str) == SubSeq(str, 1, StrLen(str))
SetString(buf, loc, str) == Write(buf, CInt(loc), UpToNulOf(str))
GetString(buf, loc, len) ==
  IF ValidRange(buf, CInt(loc), CInt(len)) THEN Ok(UpToNulOf(Within(buf, CInt(loc), CInt(len)))) ELSE Stop
SetStringFixed(buf, loc, str) == Write(buf, loc, str)
GetStringFixed(buf, loc, len) ==
  IF ValidRange(buf, loc, len) THEN Ok(Within(buf, loc, len)) ELSE Stop

-----------------------------------------------------------------------------
\* What is written to a buffer is read back, and no byte outside its range
\* changes: numbers of each width, signed or not, strings with and without a
\* NUL, and copies.  An operation stops exactly when its range is not inside
\* the buffer, as long as the offset fits an int.
WroteOnly(before, r, loc, len) ==
  /\ Len(r.data) = Len(before)
  /\ \A i \in DOMAIN before : i \notin loc + 1 .. loc + len => r.data[i] = before[i]

Widths == {1, 2, 4, 8}   \* the bytes of a number: getBufferUInt8 .. UInt64LE

KeepsBytes(buf, other, loc, val, str) ==
  LET inInt == CInt(loc) = loc
      fits(n) == loc >= 0 /\ loc + n <= Len(buf)
      writes(r, n) == /\ r.ok <=> fits(n)
                      /\ r.ok => WroteOnly(buf, r, loc, n)
  IN /\ \A n \in Widths :
          LET r == SetUIntLE(buf, loc, val, n)
          IN inInt => /\ writes(r, n)
                      /\ r.ok => /\ GetUIntLE(r.data, loc, n) = Ok(Unsigned(val, ByteBits * n))
                                 /\ GetIntLE(r.data, loc, n) = Ok(Signed(val, ByteBits * n))
     /\ LET r == SetStringFixed(buf, loc, str)
        IN /\ writes(r, Len(str))
           /\ r.ok => GetStringFixed(r.data, loc, Len(str)) = Ok(str)
     /\ LET r == SetString(buf, loc, str)
            n == Len(UpToNulOf(str))
        IN inInt => /\ writes(r, n)
                    /\ r.ok => GetString(r.data, loc, n) = Ok(UpToNulOf(str))
     /\ \A n \in 0..Len(other), at \in 0..Len(other) :
          LET r == CopyBuffer(other, at, n, buf, loc)
          IN inInt => /\ r.ok <=> (fits(n) /\ at + n <= Len(other))
                      /\ r.ok => /\ WroteOnly(buf, r, loc, n)
                                 /\ Within(r.data, loc, n) = Within(other, at, n)
================================================================================
