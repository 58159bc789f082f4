----------------------------- MODULE QueryString ------------------------------
(***************************************************************************)
(* parse_query and url_decode of include/picohttpwrapper.hpp.  Text is a   *)
(* sequence of bytes, numbers below 256.                                   *)
(***************************************************************************)
EXTENDS Integers, Sequences, SequencesExt

Blank == 32   Percent == 37   Amp == 38   Plus == 43   Minus == 45   Equals == 61

HexValue == [c \in (48..57) \cup (65..70) \cup (97..102) |->
               IF c <= 57 THEN c - 48 ELSE IF c <= 70 THEN c - 55 ELSE c - 87]

IsHex(c) == c \in DOMAIN HexValue

\* static_cast<char>(strtol(hex, nullptr, 16)) for two characters: the number at
\* the front, behind a blank or a sign, 0 if there is none.
strtol16(a, b) ==
  LET skipped == {Blank, Plus} \cup (9..13)
  IN  IF IsHex(a) THEN IF IsHex(b) THEN 16 * HexValue[a] + HexValue[b] ELSE HexValue[a]
      ELSE IF a \in skipped /\ IsHex(b) THEN HexValue[b]
      ELSE IF a = Minus /\ IsHex(b) THEN (256 - HexValue[b]) % 256
      ELSE 0

\* A bug of the bound: the last escape of a text is not decoded (QueryComesOut).
IsEscapeInside(s, i) == s[i] = Percent /\ i + 2 < Len(s)

\* An escape is taken for one only if both its characters are there.
IsEscape(s, i) == s[i] = Percent /\ i + 2 <= Len(s)

url_decode(s) ==
  LET last[r \in 0..Len(s)] ==   \* the last r bytes, decoded
        LET i == Len(s) - r + 1
        IN  IF r = 0 THEN <<>>
            ELSE IF IsEscape(s, i) THEN <<strtol16(s[i + 1], s[i + 2])>> \o last[r - 3]
            ELSE <<IF s[i] = Plus THEN Blank ELSE s[i]>> \o last[r - 1]
  IN  last[Len(s)]

\* A separator ends the text before it; the last of the parts may be empty.
AddChar(parts, c) ==
  IF c = Amp THEN Append(parts, <<>>) ELSE [parts EXCEPT ![Len(parts)] = Append(@, c)]

\* The text before, between and behind the separators.
SplitAmp(qs) ==
  LET upTo[i \in 0..Len(qs)] == IF i = 0 THEN <<<<>>>> ELSE AddChar(upTo[i - 1], qs[i])
  IN  upTo[Len(qs)]

EqualsAt(pair) == SelectInSeq(pair, LAMBDA c : c = Equals)

KeyPart(pair) ==
  url_decode(IF EqualsAt(pair) = 0 THEN pair ELSE SubSeq(pair, 1, EqualsAt(pair) - 1))

ValuePart(pair) ==
  IF EqualsAt(pair) = 0 THEN <<>> ELSE url_decode(SubSeq(pair, EqualsAt(pair) + 1, Len(pair)))

\* One pair is put into the map; the last one with its key stays.
PutPair(out, pair) ==
  IF pair = <<>> THEN out
  ELSE [key \in DOMAIN out \cup {KeyPart(pair)} |->
          IF key = KeyPart(pair) THEN ValuePart(pair) ELSE out[key]]

parse_query(qs) ==
  LET pairs == SplitAmp(qs)
      out[i \in 0..Len(pairs)] == IF i = 0 THEN <<>> ELSE PutPair(out[i - 1], pairs[i])
  IN  out[Len(pairs)]
===============================================================================
