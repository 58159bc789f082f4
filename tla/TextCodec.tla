------------------------------ MODULE TextCodec -------------------------------
(***************************************************************************)
(* Bytes as text: base64_encode of include/websocket.hpp and to_hex of     *)
(* include/crypto.hpp.  A character is its place in the alphabet, and "="  *)
(* is Pad.  The code has Byte = 256: four base64 digits are three bytes,   *)
(* two hex digits are one.                                                 *)
(***************************************************************************)
EXTENDS Naturals, Sequences, SequencesExt

CONSTANTS Byte,   \* how many values a byte has
          Digit,  \* how many characters base64 has
          Nibble  \* how many hexadecimal digits there are

ASSUME TextCodecAssumption ==
  /\ Byte \in Nat /\ Digit \in Nat \ {0} /\ Nibble \in Nat \ {0, 1}
  /\ Byte * Byte * Byte = Digit * Digit * Digit * Digit /\ Byte % Digit = 0
  /\ Byte = Nibble * Nibble

Pad == Digit

to_hex(data) ==
  FlattenSeq([i \in 1..Len(data) |-> <<data[i] \div Nibble, data[i] % Nibble>>])

\* A bug BytesComeOut must catch: padding begins a byte too early.
PaddingEarly(data, i) == {k \in {0, 1} : i + 3 - k > Len(data)}

\* The last characters, counted from 0 at the end, that no byte of the group
\* that starts with byte i is there to fill.
Padding(data, i) == {k \in {0, 1} : i + 2 - k > Len(data)}

\* Bytes that are not there count as 0.
Group(data, i) ==
  LET At(j) == IF j <= Len(data) THEN data[j] ELSE 0
      v     == (At(i) * Byte + At(i + 1)) * Byte + At(i + 2)
      place == <<Digit * Digit * Digit, Digit * Digit, Digit, 1>>
  IN  [c \in 1..4 |-> IF 4 - c \in Padding(data, i) THEN Pad ELSE (v \div place[c]) % Digit]

base64_encode(data) ==
  FlattenSeq([g \in 1..((Len(data) + 2) \div 3) |-> Group(data, 3 * g - 2)])
===============================================================================
