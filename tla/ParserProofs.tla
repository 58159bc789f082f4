----------------------------- MODULE ParserProofs -----------------------------
(***************************************************************************)
(* Proofs about the parsers, codecs and builders of MCParsers, for inputs  *)
(* of every length, and, at the end, about CallbackServer, for every set   *)
(* of clients (an unbounded one included), with and without TLS, whichever *)
(* clients stall.                                                          *)
(***************************************************************************)
EXTENDS CallbackServer, MCParsers, SliceLemmas, FiniteSetTheorems

(***************************************************************************)
(* Ranges.                                                                 *)
(***************************************************************************)
Tokens == {Num(n) : n \in Nat} \cup {Huge, Dash, Other}

\* What parse_range is given: the size of a file and the tokens of a header.
RangeInput ==
  subject.parser = "parse_range" => subject.total \in Nat /\ input \in Seq(Tokens)

FirstDash(s) == SelectInSeq(s, LAMBDA t : t = Dash)

\* FirstDash is the place of the first dash, or 0.
LEMMA FirstDashIs ==
  ASSUME NEW s \in Seq(Tokens)
  PROVE  LET n == FirstDash(s)
         IN  /\ n \in 0..Len(s)
             /\ n = 0 => \A i \in 1..Len(s) : s[i] # Dash
             /\ n > 0 => s[n] = Dash /\ \A i \in 1..(n - 1) : s[i] # Dash
<1> DEFINE n == FirstDash(s)
           I == {i \in 1..Len(s) : s[i] = Dash}
<1>1. n = IF I # {} THEN Min(I) ELSE 0
  BY DEF FirstDash, SelectInSeq
<1>2. I \subseteq Nat /\ Len(s) \in Nat
  BY LenProperties
<1>3. CASE I = {}
  BY <1>1, <1>2, <1>3
<1>4. CASE I # {}
  <2>1. PICK x \in I : \A y \in I : x <= y
    BY <1>2, <1>4, LeastNumber
  <2>2. n \in I /\ \A y \in I : n <= y
    BY <1>1, <1>4, <2>1 DEF Min
  <2>3. n \in 1..Len(s) /\ s[n] = Dash
    BY <2>2
  <2>4. \A i \in 1..(n - 1) : s[i] # Dash
    <3> SUFFICES ASSUME NEW i \in 1..(n - 1), s[i] = Dash PROVE FALSE
      OBVIOUS
    <3>1. i \in I
      BY <1>2, <2>3
    <3> QED
      BY <2>2, <2>3, <3>1
  <2>5. n \in 0..Len(s) /\ n # 0
    BY <1>2, <2>3
  <2> QED
    BY <2>3, <2>4, <2>5
<1> QED
  BY <1>3, <1>4

\* A number at the front of a text without a sign is what stoull returns.
LEMMA NoSign ==
  ASSUME NEW s \in Seq(Tokens), s # <<>>, s[1] # Dash
  PROVE  /\ Throws(s) <=> s[1].kind # "number"
         /\ stoull(s) = s[1].value
         /\ s[1].kind = "number" => s[1].value \in Nat
<1>1. Len(s) \in Nat /\ Len(s) >= 1
  BY EmptySeq, LenProperties
<1>2. s[1] \in Tokens
  BY <1>1, ElementOfSeq
<1>3. Unsigned(s) = s
  BY DEF Unsigned
<1>4. s[1].kind = "number" => s[1].value \in Nat
  BY <1>2 DEF Tokens, Num, Huge, Dash, Other
<1> QED
  BY <1>3, <1>4 DEF Throws, stoull

\* With a sign it is a number, too.
LEMMA StoullIsNat ==
  ASSUME NEW s \in Seq(Tokens), s # <<>>, ~ Throws(s)
  PROVE  stoull(s) \in Nat
<1>1. CASE s[1] # Dash
  BY <1>1, NoSign
<1>2. CASE s[1] = Dash
  <2> DEFINE u == Unsigned(s)
  <2>1. u = Tail(s) /\ u # <<>> /\ u[1].kind = "number"
    BY <1>2 DEF Unsigned, Throws
  <2>2. u \in Seq(Tokens)
    BY <2>1, HeadTailProperties
  <2> HIDE DEF u
  <2>3. Len(u) \in Nat /\ Len(u) >= 1
    BY <2>1, <2>2, EmptySeq, LenProperties
  <2>4. u[1] \in Tokens
    BY <2>2, <2>3, ElementOfSeq
  <2>5. u[1].value \in Nat
    BY <2>1, <2>4 DEF Tokens, Num, Huge, Dash, Other
  <2>6. stoull(s) = (Ull - u[1].value) % Ull
    BY <1>2 DEF stoull, u
  <2>7. PICK d \in Int : d = Ull - u[1].value
    BY <2>5, UllAssumption
  <2>8. PICK m \in Int : m = d % Ull
    BY <2>7, UllAssumption
  <2>9. m >= 0
    BY <2>7, <2>8, UllAssumption
  <2> QED
    BY <2>6, <2>7, <2>8, <2>9
<1> QED
  BY <1>1, <1>2

Left(s)  == SubSeq(s, 1, FirstDash(s) - 1)
Right(s) == SubSeq(s, FirstDash(s) + 1, Len(s))
First(s) == IF Left(s) = <<>> THEN 0 ELSE stoull(Left(s))
Final(s, total) == IF Right(s) = <<>> THEN total - 1 ELSE stoull(Right(s))

Refused(s, total) ==
  \/ total = 0 \/ FirstDash(s) = 0
  \/ Left(s) # <<>> /\ Throws(Left(s))
  \/ Right(s) # <<>> /\ Throws(Right(s))
  \/ First(s) > Final(s, total) \/ Final(s, total) >= total

\* parse_range in these terms.
LEMMA ParseRangeIs ==
  ASSUME NEW s, NEW total
  PROVE  parse_range(s, total) =
           IF Refused(s, total) THEN None ELSE Some(First(s), Final(s, total))
  BY DEF parse_range, Refused, First, Final, Left, Right, FirstDash

\* Both sides of the dash are tokens, and there is no dash in the left one.
LEMMA SidesAre ==
  ASSUME NEW s \in Seq(Tokens), FirstDash(s) # 0
  PROVE  /\ Left(s) \in Seq(Tokens) /\ Len(Left(s)) = FirstDash(s) - 1
         /\ \A i \in 1..Len(Left(s)) : Left(s)[i] = s[i] /\ s[i] # Dash
         /\ Right(s) \in Seq(Tokens) /\ Len(Right(s)) = Len(s) - FirstDash(s)
         /\ \A i \in 1..Len(Right(s)) : Right(s)[i] = s[FirstDash(s) + i]
<1>1. PICK n \in 1..Len(s) : n = FirstDash(s) /\ \A i \in 1..(n - 1) : s[i] # Dash
  <2>1. FirstDash(s) \in 0..Len(s) /\ Len(s) \in Nat
    BY FirstDashIs, LenProperties
  <2> QED
    BY <2>1, FirstDashIs
<1>2. n - 1 \in Nat /\ n - 1 <= Len(s) /\ n \in Nat /\ n <= Len(s) /\ Len(s) \in Nat
  BY LenProperties
<1>3. PICK m \in Nat : m = n - 1
  BY <1>2
<1>4. /\ Left(s) \in Seq(Tokens) /\ Len(Left(s)) = m
      /\ \A i \in 1..m : Left(s)[i] = s[i]
  BY <1>1, <1>2, <1>3, FrontCut DEF Left
<1>5. /\ Right(s) \in Seq(Tokens) /\ Len(Right(s)) = Len(s) - n
      /\ \A i \in 1..(Len(s) - n) : Right(s)[i] = s[n + i]
  <2>1. PICK l \in Nat : l = Len(s)
    BY <1>2
  <2> QED
    BY <1>1, <1>2, <2>1, Cut DEF Right
<1> QED
  BY <1>1, <1>3, <1>4, <1>5

\* Whatever the header, a range that is accepted lies within the file.
LEMMA RangeWithin ==
  ASSUME NEW s \in Seq(Tokens), NEW total \in Nat, ~ Refused(s, total)
  PROVE  /\ First(s) \in Nat /\ Final(s, total) \in Nat
         /\ First(s) <= Final(s, total) /\ Final(s, total) < total
<1>1. /\ total # 0 /\ FirstDash(s) # 0
      /\ Left(s) # <<>> => ~ Throws(Left(s))
      /\ Right(s) # <<>> => ~ Throws(Right(s))
      /\ ~ (First(s) > Final(s, total)) /\ ~ (Final(s, total) >= total)
  BY DEF Refused
<1>2. Left(s) \in Seq(Tokens) /\ Right(s) \in Seq(Tokens)
  BY <1>1, SidesAre
<1>3. First(s) \in Nat
  BY <1>1, <1>2, StoullIsNat DEF First
<1>4. Final(s, total) \in Nat
  BY <1>1, <1>2, StoullIsNat DEF Final
<1> QED
  BY <1>1, <1>3, <1>4

\* A header of one range with a first byte is accepted for what it says.
LEMMA SingleRange ==
  ASSUME RangeInput, subject.parser = "parse_range", Single
  PROVE  LET r == parse_range(input, subject.total)
         IN  /\ r.some <=> Asked # {} /\ Asked \subseteq 0..(subject.total - 1)
             /\ r.some => r.first..r.last = Asked
<1>1. input \in Seq(Tokens) /\ subject.total \in Nat
  BY DEF RangeInput
<1>2. /\ Len(input) \in {2, 3} /\ IsNumber(input[1]) /\ input[2] = Dash
      /\ Len(input) = 3 => IsNumber(input[3])
  BY DEF Single
<1>3. /\ input[1] \in Tokens /\ input[1] # Dash
      /\ Len(input) = 3 => input[3] \in Tokens /\ input[3] # Dash
  BY <1>1, <1>2, ElementOfSeq DEF IsNumber, Dash
<1>4. FirstDash(input) = 2
  <2>1. PICK n : n = FirstDash(input)
    OBVIOUS
  <2>2. /\ n \in 0..Len(input)
        /\ n = 0 => \A i \in 1..Len(input) : input[i] # Dash
        /\ n > 0 => input[n] = Dash /\ \A i \in 1..(n - 1) : input[i] # Dash
    BY <1>1, <2>1, FirstDashIs
  <2> QED
    BY <1>2, <1>3, <2>1, <2>2
<1>5. /\ Left(input) \in Seq(Tokens) /\ Len(Left(input)) = 1 /\ Left(input)[1] = input[1]
      /\ Right(input) \in Seq(Tokens) /\ Len(Right(input)) = Len(input) - 2
      /\ Len(input) = 3 => Right(input)[1] = input[3]
  <2>1. PICK s : s = input
    OBVIOUS
  <2>2. PICK l, r : l = Left(s) /\ r = Right(s)
    OBVIOUS
  <2>3. PICK m \in Nat : m = Len(s)
    BY <1>2, <2>1
  <2>4. /\ l \in Seq(Tokens) /\ Len(l) = FirstDash(s) - 1
        /\ \A i \in 1..Len(l) : l[i] = s[i]
        /\ r \in Seq(Tokens) /\ Len(r) = m - FirstDash(s)
        /\ \A i \in 1..Len(r) : r[i] = s[FirstDash(s) + i]
    <3>1. s \in Seq(Tokens) /\ FirstDash(s) # 0
      BY <1>1, <1>4, <2>1
    <3>2. /\ Left(s) \in Seq(Tokens) /\ Len(Left(s)) = FirstDash(s) - 1
          /\ \A i \in 1..Len(Left(s)) : Left(s)[i] = s[i] /\ s[i] # Dash
          /\ Right(s) \in Seq(Tokens) /\ Len(Right(s)) = Len(s) - FirstDash(s)
          /\ \A i \in 1..Len(Right(s)) : Right(s)[i] = s[FirstDash(s) + i]
      BY ONLY <3>1, SidesAre
    <3> QED
      BY <2>2, <2>3, <3>2
  <2>5. Len(l) = 1 /\ Len(r) = m - 2
    BY <1>4, <2>1, <2>4
  <2>6. l[1] = s[1] /\ (m = 3 => r[1] = s[3])
    BY <1>4, <2>1, <2>4, <2>5
  <2> QED
    BY <2>1, <2>2, <2>3, <2>4, <2>5, <2>6
<1>6. Left(input) # <<>> /\ (Right(input) = <<>> <=> Len(input) = 2)
  BY <1>2, <1>5, EmptySeq
<1>7. /\ Throws(Left(input)) <=> input[1].kind # "number"
      /\ First(input) = input[1].value
      /\ input[1].kind = "number" => input[1].value \in Nat
  BY <1>3, <1>5, <1>6, NoSign DEF First
<1>8. Len(input) = 3 =>
        /\ Throws(Right(input)) <=> input[3].kind # "number"
        /\ Final(input, subject.total) = input[3].value
        /\ input[3].kind = "number" => input[3].value \in Nat
  BY <1>3, <1>5, <1>6, NoSign DEF Final
<1>9. Len(input) = 2 => Final(input, subject.total) = subject.total - 1
  BY <1>6 DEF Final
<1> DEFINE huge == \E i \in {1, 3} \cap DOMAIN input : input[i] = Huge
<1>10. huge <=> input[1].kind # "number" \/ (Len(input) = 3 /\ input[3].kind # "number")
  <2>1. DOMAIN input = 1..Len(input)
    BY <1>1, LenProperties
  <2>2. /\ input[1] = Huge <=> input[1].kind # "number"
        /\ Len(input) = 3 => (input[3] = Huge <=> input[3].kind # "number")
    BY <1>2, <1>3 DEF IsNumber, Tokens, Num, Huge, Dash, Other
  <2>3. /\ 1 \in {1, 3} \cap DOMAIN input
        /\ 3 \in {1, 3} \cap DOMAIN input <=> Len(input) = 3
    BY <1>2, <2>1
  <2> QED
    BY <2>2, <2>3
<1>11. Refused(input, subject.total) <=>
         \/ huge \/ First(input) > Final(input, subject.total)
         \/ Final(input, subject.total) >= subject.total \/ subject.total = 0
  BY <1>2, <1>4, <1>6, <1>7, <1>8, <1>10 DEF Refused
<1>12. Asked = IF huge THEN {} ELSE First(input)..Final(input, subject.total)
  BY <1>2, <1>7, <1>8, <1>9 DEF Asked
<1>13. CASE huge
  BY <1>11, <1>12, <1>13, ParseRangeIs DEF None
<1>14. CASE ~ huge
  <2>1. PICK a \in Nat : a = First(input)
    BY <1>7, <1>10, <1>14
  <2>2. PICK b \in Int : b = Final(input, subject.total)
    BY <1>1, <1>2, <1>8, <1>9, <1>10, <1>14
  <2>3. PICK t \in Nat : t = subject.total
    BY <1>1
  <2>4. Refused(input, t) <=> a > b \/ b >= t \/ t = 0
    BY <1>11, <1>14, <2>1, <2>2, <2>3
  <2>5. Asked = a..b
    BY <1>12, <1>14, <2>1, <2>2
  <2>6. ~ (a > b \/ b >= t \/ t = 0) <=> a..b # {} /\ a..b \subseteq 0..(t - 1)
    <3>1. CASE a > b
      <4>1. a..b = {}
        BY <3>1
      <4> QED
        BY <3>1, <4>1
    <3>2. CASE a <= b
      <4>1. a \in a..b /\ b \in a..b
        BY <3>2
      <4>2. ASSUME a..b \subseteq 0..(t - 1) PROVE b < t /\ t # 0
        <5>1. b \in 0..(t - 1)
          BY <4>1, <4>2
        <5> QED
          BY <5>1
      <4>3. ASSUME b < t PROVE a..b \subseteq 0..(t - 1)
        <5>1. \A x \in a..b : x \in 0..(t - 1)
          BY <4>3
        <5> QED
          BY ONLY <5>1
      <4>4. ~ (a > b) /\ (b >= t <=> ~ (b < t)) /\ (b < t => t # 0) /\ a..b # {}
        BY <3>2, <4>1
      <4> QED
        BY ONLY <4>2, <4>3, <4>4
    <3> QED
      BY <3>1, <3>2
  <2>7. parse_range(input, t) =
          IF Refused(input, t) THEN None ELSE Some(a, b)
    BY <2>1, <2>2, <2>3, ParseRangeIs
  <2> QED
    BY <2>3, <2>4, <2>5, <2>6, <2>7 DEF None, Some
<1> QED
  BY <1>13, <1>14

\* The input is tokens throughout.
LEMMA RangeInputHolds == Inputs => []RangeInput
<1>1. Start => RangeInput
  <2> SUFFICES ASSUME Start, subject.parser = "parse_range" PROVE RangeInput
    BY DEF RangeInput
  <2>1. subject.total \in 0..MaxTotal /\ input = <<>>
    BY DEF Start, SealedMessages
  <2> QED
    BY <2>1, EmptySeq DEF RangeInput
<1>2. RangeInput /\ [Extend]_inputs => RangeInput'
  <2> SUFFICES ASSUME RangeInput, [Extend]_inputs, (subject.parser = "parse_range")'
               PROVE  RangeInput'
    BY DEF RangeInput
  <2>1. CASE Extend
    <3>1. ExtendHeader
      BY <2>1 DEF Extend, ExtendPath, ExtendWire, ExtendHeader,
                  ExtendQuery, ExtendCalls, ExtendSealed, ExtendText
    <3>2. /\ subject.parser = "parse_range" /\ subject' = subject
          /\ \E t \in HeaderTokens : input' = Append(input, t)
      BY <3>1 DEF ExtendHeader
    <3>3. HeaderTokens \subseteq Tokens
      BY DEF HeaderTokens, Tokens
    <3>4. input' \in Seq(Tokens)
      BY <3>2, <3>3, AppendProperties DEF RangeInput
    <3> QED
      BY <3>2, <3>4 DEF RangeInput
  <2>2. CASE UNCHANGED inputs
    BY <2>2 DEF inputs, RangeInput
  <2> QED
    BY <2>1, <2>2
<1> QED
  BY <1>1, <1>2, PTL DEF Inputs

\* RangesRight: a single range with a first byte is accepted exactly if it names
\* bytes of the file, and is those; and any range that is accepted lies within
\* the file (static_files.hpp parse_range), for headers of every length, with
\* every number, and files of every size.
THEOREM RangesRightHolds == Inputs => []RangesRight
<1>1. RangeInput => RangesRight
  <2> SUFFICES ASSUME RangeInput, subject.parser = "parse_range" PROVE RangesRight
    BY DEF RangesRight
  <2>1. PICK r : r = parse_range(input, subject.total)
    OBVIOUS
  <2>2. r.some => 0 <= r.first /\ r.first <= r.last /\ r.last < subject.total
    <3>1. input \in Seq(Tokens) /\ subject.total \in Nat
      BY DEF RangeInput
    <3>2. PICK a, b : a = First(input) /\ b = Final(input, subject.total)
      OBVIOUS
    <3>3. r.some => /\ ~ Refused(input, subject.total)
                    /\ r.first = a /\ r.last = b
      BY <2>1, <3>2, ParseRangeIs DEF None, Some
    <3> QED
      BY <3>1, <3>2, <3>3, RangeWithin
  <2>3. Single => /\ r.some <=> Asked # {} /\ Asked \subseteq 0..(subject.total - 1)
                  /\ r.some => r.first..r.last = Asked
    BY <2>1, SingleRange
  <2> QED
    BY <2>1, <2>2, <2>3 DEF RangesRight
<1> QED
  BY <1>1, RangeInputHolds, PTL

(***************************************************************************)
(* Sealed and signed messages.                                             *)
(***************************************************************************)
\* A ciphertext is as long as its text, and gives it back.
LEMMA CipherIs ==
  ASSUME NEW T, NEW key, NEW iv, NEW text \in Seq(T), NEW ct, ct = Cipher(key, iv, text)
  PROVE  /\ Len(ct) = Len(text)
         /\ \A S : (\A i \in 1..Len(text) : ct[i] \in S) => ct \in Seq(S)
         /\ Decipher(ct) = text
<1>1. PICK n \in Nat : n = Len(text)
  BY LenProperties
<1>2. ct = [i \in 1..n |-> <<"ct", key, iv, i, text[i]>>]
  BY <1>1 DEF Cipher
<1>3. Len(ct) = n /\ \A S : (\A i \in 1..n : ct[i] \in S) => ct \in Seq(S)
  BY <1>2
<1>4. Decipher(ct) = text
  <2>1. Decipher(ct) = [i \in 1..n |-> ct[i][5]]
    BY <1>3 DEF Decipher
  <2>2. \A i \in 1..n : ct[i][5] = text[i]
    BY <1>2
  <2>3. text = [i \in 1..n |-> text[i]]
    BY <1>1, LenProperties
  <2> QED
    BY <2>1, <2>2, <2>3
<1> QED
  BY <1>1, <1>3, <1>4

\* A tag says what it is the tag of.
LEMMA TagSays ==
  ASSUME NEW k, NEW l, NEW iv, NEW c, NEW d,
         Tag(k, iv, c) = Tag(l, iv, d)
  PROVE  k = l /\ c = d
<1>1. 1 \in 1..MAC_BYTES
  BY SizesAssumption
<1>2. Tag(k, iv, c)[1] = <<"tag", 1, k, iv, c>> /\ Tag(l, iv, d)[1] = <<"tag", 1, l, iv, d>>
  BY <1>1 DEF Tag
<1>3. <<"tag", 1, k, iv, c>> = <<"tag", 1, l, iv, d>>
  BY <1>2
<1> QED
  BY ONLY <1>3

\* Of a box only the whole opens, and only with its key.
LEMMA BoxOpens ==
  ASSUME NEW text \in Seq(Nat), NEW k, NEW key, NEW n \in Nat,
         n <= Len(secretbox_encrypt(text, k, IV))
  PROVE  LET whole == secretbox_encrypt(text, k, IV)
             c == SubSeq(whole, 1, n)
         IN  /\ Len(c) = n /\ (n = Len(whole) <=> c = whole)
             /\ secretbox_decrypt(c, key) =
                  IF n = Len(whole) /\ key = k THEN <<text>> ELSE <<>>
<1>a. PICK whole : whole = secretbox_encrypt(text, k, IV)
  OBVIOUS
<1>b. PICK c : c = SubSeq(whole, 1, n)
  OBVIOUS
<1>0. PICK N \in Nat, M \in Nat, f \in Nat : N = NONCE_BYTES /\ M = MAC_BYTES /\ f = N + M
  BY SizesAssumption
<1>1. PICK m \in Nat : m = Len(text)
  BY LenProperties
<1>2. PICK iv : iv = IV
  OBVIOUS
<1>3. PICK ct : ct = Cipher(k, iv, text)
  OBVIOUS
<1>4. PICK tag : tag = Tag(k, iv, ct)
  OBVIOUS
<1>5. PICK S : S = {iv[i] : i \in 1..N} \cup {tag[i] : i \in 1..M} \cup {ct[i] : i \in 1..m}
  OBVIOUS
<1>6. iv \in Seq(S) /\ Len(iv) = N
  BY <1>0, <1>2, <1>5 DEF IV
<1>7. tag \in Seq(S) /\ Len(tag) = M
  BY <1>0, <1>4, <1>5 DEF Tag
<1>8. ct \in Seq(S) /\ Len(ct) = m /\ Decipher(ct) = text
  <2>1. \A i \in 1..m : ct[i] \in S
    BY <1>5
  <2> QED
    BY <1>1, <1>3, <2>1, CipherIs
<1>9. PICK front : front = iv \o tag
  OBVIOUS
<1>10. /\ front \in Seq(S) /\ Len(front) = f
       /\ \A i \in 1..f : front[i] = IF i <= N THEN iv[i] ELSE tag[i - N]
  <2>1. /\ front \in Seq(S) /\ Len(front) = Len(iv) + Len(tag)
        /\ \A i \in 1..(Len(iv) + Len(tag)) :
             front[i] = IF i <= Len(iv) THEN iv[i] ELSE tag[i - Len(iv)]
    BY ONLY <1>6, <1>7, <1>9, ConcatProperties
  <2>2. Len(iv) = N /\ Len(tag) = M /\ Len(iv) + Len(tag) = f
    BY <1>0, <1>6, <1>7
  <2> QED
    BY ONLY <2>1, <2>2
<1>11. whole = front \o ct /\ Len(whole) = f + m /\ whole \in Seq(S)
  <2>1. whole = front \o ct
    BY <1>a, <1>2, <1>3, <1>4, <1>9 DEF secretbox_encrypt
  <2> QED
    BY ONLY <1>8, <1>10, <2>1, ConcatProperties
<1>12. c \in Seq(S) /\ Len(c) = n
  <2>1. n <= Len(whole)
    BY <1>a
  <2> QED
    BY <1>b, <1>11, <2>1, FrontCut
<1>13. n = Len(whole) <=> c = whole
  <2>1. n = Len(whole) => c = whole
    BY <1>b, <1>11, SubSeqFull
  <2> QED
    BY <1>12, <2>1
<1>14. ASSUME n < f
       PROVE  secretbox_decrypt(c, key) = IF n = Len(whole) /\ key = k THEN <<text>> ELSE <<>>
  <2>1. TooShort(c)
    BY <1>0, <1>12, <1>14 DEF TooShort
  <2>2. n # Len(whole)
    BY <1>11, <1>14
  <2> QED
    BY <1>12, <1>13, <2>1, <2>2 DEF secretbox_decrypt
<1>15. ASSUME n >= f
       PROVE  secretbox_decrypt(c, key) = IF n = Len(whole) /\ key = k THEN <<text>> ELSE <<>>
  <2>1. ~ TooShort(c)
    BY <1>0, <1>12, <1>15 DEF TooShort
  <2>2. PICK d : d = SubSeq(c, f + 1, n)
    OBVIOUS
  <2>3. /\ SubSeq(c, 1, Len(front)) = front
        /\ \A i \in 1..n : c[i] = whole[i]
        /\ Len(SubSeq(c, Len(front) + 1, n)) = n - Len(front)
        /\ n = Len(whole) => SubSeq(c, Len(front) + 1, n) = ct
    <3>1. Len(front) <= n /\ n <= Len(front \o ct)
      BY <1>a, <1>10, <1>11, <1>15
    <3>2. c = SubSeq(front \o ct, 1, n) /\ whole = front \o ct
      BY <1>b, <1>11
    <3> QED
      BY ONLY <1>8, <1>10, <3>1, <3>2, TwoPieces, n \in Nat
  <2>4. d = ct <=> n = Len(whole)
    <3>1. Len(d) = n - f /\ (n = Len(whole) => d = ct)
      BY ONLY <1>10, <2>2, <2>3
    <3>2. d = ct => n = f + m
      BY <1>8, <3>1
    <3> QED
      BY <1>11, <3>1, <3>2
  <2>5. \A i \in 1..f : c[i] = front[i]
    <3>1. \A i \in 1..f : whole[i] = front[i]
      BY <1>8, <1>10, <1>11, ConcatProperties
    <3> QED
      <4>1. \A i \in 1..n : c[i] = whole[i]
        BY <2>3
      <4>2. \A i \in 1..f : i \in 1..n
        BY <1>15
      <4> QED
        BY ONLY <3>1, <4>1, <4>2
  <2>6. SubSeq(c, 1, N) = iv
    <3>1. 0 \in Nat /\ N \in Nat /\ N = 0 + Len(iv) /\ N <= Len(c) /\ 0 + 1 = 1
      BY ONLY <1>0, <1>6, <1>12, <1>15, n \in Nat, N \in Nat, M \in Nat, f \in Nat
    <3>2. \A i \in 1..Len(iv) : c[0 + i] = iv[i]
      <4>1. ASSUME NEW i \in 1..N PROVE c[0 + i] = iv[i]
        <5>1. i \in 1..f /\ i <= N /\ 0 + i = i
          BY ONLY <1>0, i \in 1..N, N \in Nat, M \in Nat, f \in Nat
        <5> QED
          BY ONLY <1>10, <2>5, <5>1
      <4> QED
        BY ONLY <1>6, <4>1
    <3>3. SubSeq(c, 0 + 1, N) = iv
      BY ONLY <1>6, <1>12, <3>1, <3>2, PieceOf
    <3> QED
      BY <3>1, <3>3
  <2>7. SubSeq(c, N + 1, f) = tag
    <3>1. N \in Nat /\ f \in Nat /\ f = N + Len(tag) /\ f <= Len(c)
      BY <1>0, <1>7, <1>12, <1>15
    <3>2. \A i \in 1..Len(tag) : c[N + i] = tag[i]
      <4> SUFFICES ASSUME NEW i \in 1..M PROVE c[N + i] = tag[i]
        BY <1>7
      <4>1. N + i \in 1..f /\ ~ (N + i <= N) /\ (N + i) - N = i
        BY <1>0
      <4> QED
        BY <1>10, <2>5, <4>1
    <3> QED
      BY ONLY <1>7, <1>12, <3>1, <3>2, PieceOf
  <2>8. secretbox_decrypt(c, key) =
          IF tag # Tag(key, iv, d) THEN <<>> ELSE <<Decipher(d)>>
    BY <1>0, <1>12, <2>1, <2>2, <2>6, <2>7 DEF secretbox_decrypt, Drop
  <2>9. tag = Tag(key, iv, d) <=> key = k /\ d = ct
    BY <1>4, TagSays
  <2> QED
    BY <1>8, <1>12, <1>13, <2>4, <2>8, <2>9
<1>16. secretbox_decrypt(c, key) = IF n = Len(whole) /\ key = k THEN <<text>> ELSE <<>>
  <2>1. n < f \/ n >= f
    OBVIOUS
  <2> QED
    BY <1>14, <1>15, <2>1
<1> QED
  BY ONLY <1>a, <1>b, <1>12, <1>13, <1>16

\* Of a signed message only the whole is verified, and only with its key.
LEMMA SignedOpens ==
  ASSUME NEW text \in Seq(Nat), NEW sk, NEW pk, NEW n \in Nat,
         n <= Len(sign_combined(text, sk))
  PROVE  LET whole == sign_combined(text, sk)
             c == SubSeq(whole, 1, n)
         IN  /\ Len(c) = n /\ (n = Len(whole) <=> c = whole)
             /\ verify_combined(c, pk) =
                  IF n = Len(whole) /\ pk = sk THEN <<text>> ELSE <<>>
<1>a. PICK whole : whole = sign_combined(text, sk)
  OBVIOUS
<1>b. PICK c : c = SubSeq(whole, 1, n)
  OBVIOUS
<1>c. n <= Len(whole)
  BY <1>a
<1>0. PICK G \in Nat : G = SIGNATURE_BYTES /\ G >= 1
  BY SizesAssumption
<1>1. PICK m \in Nat : m = Len(text)
  BY LenProperties
<1>2. PICK sig : sig = sign_detached(text, sk)
  OBVIOUS
<1>3. PICK S : S = {sig[i] : i \in 1..G} \cup Nat
  OBVIOUS
<1>4. sig \in Seq(S) /\ Len(sig) = G
  BY <1>0, <1>2, <1>3 DEF sign_detached
<1>5. text \in Seq(S)
  BY <1>3, SeqMonotonic
<1>6. whole = sig \o text /\ Len(whole) = G + m /\ whole \in Seq(S)
  <2>1. whole = sig \o text
    BY <1>a, <1>2 DEF sign_combined
  <2> QED
    BY ONLY <1>1, <1>4, <1>5, <2>1, ConcatProperties
<1>7. c \in Seq(S) /\ Len(c) = n
  BY <1>b, <1>c, <1>6, FrontCut
<1>8. n = Len(whole) <=> c = whole
  <2>1. n = Len(whole) => c = whole
    BY <1>b, <1>6, SubSeqFull
  <2> QED
    BY <1>7, <2>1
<1>9. ASSUME n < G
       PROVE  verify_combined(c, pk) = IF n = Len(whole) /\ pk = sk THEN <<text>> ELSE <<>>
  BY <1>0, <1>6, <1>7, <1>8, <1>9 DEF verify_combined
<1>10. ASSUME n >= G
       PROVE  verify_combined(c, pk) = IF n = Len(whole) /\ pk = sk THEN <<text>> ELSE <<>>
  <2>1. PICK msg : msg = SubSeq(c, G + 1, n)
    OBVIOUS
  <2>2. /\ SubSeq(c, 1, Len(sig)) = sig
        /\ Len(SubSeq(c, Len(sig) + 1, n)) = n - Len(sig)
        /\ n = Len(whole) => SubSeq(c, Len(sig) + 1, n) = text
    <3>1. Len(sig) <= n /\ n <= Len(sig \o text)
      BY <1>c, <1>4, <1>6, <1>10
    <3>2. c = SubSeq(sig \o text, 1, n) /\ whole = sig \o text
      BY <1>b, <1>6
    <3> QED
      BY ONLY <1>4, <1>5, <3>1, <3>2, TwoPieces, n \in Nat
  <2>3. msg = text <=> n = Len(whole)
    <3>1. Len(msg) = n - G /\ (n = Len(whole) => msg = text)
      BY ONLY <1>4, <2>1, <2>2
    <3>2. msg = text => n = G + m
      BY <1>0, <1>1, <3>1
    <3> QED
      BY <1>6, <3>1, <3>2
  <2>4. verify_combined(c, pk) =
          IF sig # sign_detached(msg, pk) THEN <<>> ELSE <<msg>>
    <3>1. SubSeq(c, 1, G) = sig
      BY ONLY <1>4, <2>2
    <3>2. ~ (Len(c) < G)
      BY <1>7, <1>10
    <3> QED
      BY ONLY <1>0, <1>7, <2>1, <3>1, <3>2 DEF verify_combined, verify_detached, Drop
  <2>5. sig = sign_detached(msg, pk) <=> pk = sk /\ msg = text
    <3> SUFFICES ASSUME sig = sign_detached(msg, pk) PROVE pk = sk /\ msg = text
      BY <1>2
    <3>1. 1 \in 1..G
      BY <1>0
    <3>2. sig[1] = <<"sig", 1, sk, text>> /\ sig[1] = <<"sig", 1, pk, msg>>
      BY <1>0, <1>2, <3>1 DEF sign_detached
    <3>3. <<"sig", 1, sk, text>> = <<"sig", 1, pk, msg>>
      BY <3>2
    <3> QED
      BY ONLY <3>3
  <2> QED
    BY <1>7, <1>8, <2>3, <2>4, <2>5
<1>11. verify_combined(c, pk) = IF n = Len(whole) /\ pk = sk THEN <<text>> ELSE <<>>
  <2>1. n < G \/ n >= G
    OBVIOUS
  <2> QED
    BY <1>9, <1>10, <2>1
<1> QED
  BY ONLY <1>a, <1>b, <1>7, <1>8, <1>11

\* What the decoders are given: a message that somebody has made, up to
\* somewhere.
SealedInput ==
  subject.parser \in {"box", "sign"} =>
    /\ subject \in SealedMessages
    /\ \E n \in Nat : /\ n <= Len(Sealed(subject))
                      /\ input = SubSeq(Sealed(subject), 1, n)

\* The text is one, and a sealed message is a sequence.
LEMMA SealedIs ==
  ASSUME NEW s \in SealedMessages
  PROVE  /\ s.plain \in Seq(Nat)
         /\ s.parser \in {"box", "sign"}
         /\ s.parser = "box" =>
              Sealed(s) = secretbox_encrypt(s.plain, {s.to, s.from}, IV)
         /\ s.parser = "sign" => Sealed(s) = sign_combined(s.plain, s.from)
<1>1. s.plain \in Plains /\ s.parser \in {"box", "sign"}
  BY DEF SealedMessages
<1>2. s.plain \in Seq(Nat)
  <2>1. <<>> \in Seq(Nat) /\ <<1>> \in Seq(Nat) /\ <<1, 0>> \in Seq(Nat)
    OBVIOUS
  <2> QED
    BY <1>1, <2>1 DEF Plains
<1> QED
  BY <1>1, <1>2 DEF Sealed, box_encrypt, derive_key

\* It is a sequence of known length.
LEMMA SealedLength ==
  ASSUME NEW s \in SealedMessages
  PROVE  /\ \E S : Sealed(s) \in Seq(S)
         /\ Len(Sealed(s)) \in Nat
<1> SUFFICES \E S : Sealed(s) \in Seq(S)
  BY LenProperties
<1>1. s.plain \in Seq(Nat)
  BY SealedIs
<1>2. CASE s.parser = "box"
  <2>1. PICK p, k : p = s.plain /\ k = {s.to, s.from}
    OBVIOUS
  <2>2. PICK ct : ct = Cipher(k, IV, p)
    OBVIOUS
  <2>3. PICK iv, tag : iv = IV /\ tag = Tag(k, IV, ct)
    OBVIOUS
  <2>4. Sealed(s) = (iv \o tag) \o ct
    BY <1>2, <2>1, <2>2, <2>3, SealedIs DEF secretbox_encrypt
  <2>5. PICK m \in Nat : m = Len(p)
    BY <1>1, <2>1, LenProperties
  <2>6. PICK S : S = {iv[i] : i \in 1..NONCE_BYTES} \cup {tag[i] : i \in 1..MAC_BYTES} \cup {ct[i] : i \in 1..m}
    OBVIOUS
  <2>7. iv \in Seq(S)
    BY <2>3, <2>6, SizesAssumption DEF IV
  <2>8. tag \in Seq(S)
    BY <2>3, <2>6, SizesAssumption DEF Tag
  <2>9. ct \in Seq(S)
    <3>1. \A i \in 1..m : ct[i] \in S
      BY <2>6
    <3> QED
      <4>1. p \in Seq(Nat) /\ \A i \in 1..Len(p) : ct[i] \in S
        BY <1>1, <2>1, <2>5, <3>1
      <4> QED
        BY ONLY <2>2, <4>1, CipherIs
  <2> QED
    BY ONLY <2>4, <2>7, <2>8, <2>9, ConcatProperties
<1>3. CASE s.parser = "sign"
  <2>1. PICK sig : sig = sign_detached(s.plain, s.from)
    OBVIOUS
  <2>2. Sealed(s) = sig \o s.plain
    BY <1>3, <2>1, SealedIs DEF sign_combined
  <2>3. PICK S : S = {sig[i] : i \in 1..SIGNATURE_BYTES} \cup Nat
    OBVIOUS
  <2>4. sig \in Seq(S)
    BY <2>1, <2>3, SizesAssumption DEF sign_detached
  <2>5. s.plain \in Seq(S)
    BY <1>1, <2>3, SeqMonotonic
  <2> QED
    BY ONLY <2>2, <2>4, <2>5, ConcatProperties
<1> QED
  BY <1>2, <1>3, SealedIs

\* One more piece of the message arrives.
LEMMA SealedInputHolds == Inputs => []SealedInput
<1>1. Start => SealedInput
  <2> SUFFICES ASSUME Start, subject.parser \in {"box", "sign"} PROVE SealedInput
    BY DEF SealedInput
  <2>1. subject \in SealedMessages /\ input = <<>>
    BY DEF Start
  <2>2. PICK w : w = Sealed(subject)
    OBVIOUS
  <2>3. Len(w) \in Nat
    BY <2>1, <2>2, SealedLength
  <2>4. input = SubSeq(w, 1, 0)
    BY <2>1, SubSeqEmpty
  <2> QED
    BY <2>1, <2>2, <2>3, <2>4 DEF SealedInput
<1>2. SealedInput /\ [Extend]_inputs => SealedInput'
  <2> SUFFICES ASSUME SealedInput, [Extend]_inputs,
                      (subject.parser \in {"box", "sign"})'
               PROVE  SealedInput'
    BY DEF SealedInput
  <2>1. CASE Extend
    <3>1. ExtendSealed
      BY <2>1 DEF Extend, ExtendPath, ExtendWire, ExtendHeader,
                  ExtendQuery, ExtendCalls, ExtendSealed, ExtendText
    <3>2. PICK w : w = Sealed(subject)
      OBVIOUS
    <3>3. /\ subject.parser \in {"box", "sign"} /\ subject' = subject
          /\ Len(input) < Len(w) /\ input' = Append(input, w[Len(input) + 1])
      BY <3>1, <3>2 DEF ExtendSealed
    <3>4. PICK n \in Nat : n <= Len(w) /\ input = SubSeq(w, 1, n)
      BY <3>2, <3>3 DEF SealedInput
    <3>5. subject \in SealedMessages
      BY <3>3 DEF SealedInput
    <3>6. PICK S : w \in Seq(S)
      BY <3>2, <3>5, SealedLength
    <3>7. Len(input) = n /\ Len(w) \in Nat
      BY <3>4, <3>6, FrontCut, LenProperties
    <3>8. n + 1 \in Nat /\ n + 1 <= Len(w) /\ n + 1 \in 1..Len(w) /\ 1 \in 1..Len(w) /\ (n + 1) - 1 = n
      BY <3>3, <3>7
    <3>9. SubSeq(w, 1, n + 1) = Append(input, w[n + 1])
      <4>1. n + 1 \in 1..Len(w) /\ 1 \in 1..Len(w) /\ w[n + 1] \in S /\ input \in Seq(S)
        BY <3>4, <3>6, <3>8, ElementOfSeq, FrontCut
      <4>2. SubSeq(w, 1, n + 1) = SubSeq(w, 1, (n + 1) - 1) \o <<w[n + 1]>>
        BY <3>6, <3>8, SubSeqRecursiveSecond
      <4>3. SubSeq(w, 1, (n + 1) - 1) = input
        BY <3>4, <3>8
      <4> QED
        BY ONLY <4>1, <4>2, <4>3, AppendIsConcat
    <3>10. input' = SubSeq(w, 1, n + 1)
      BY <3>3, <3>7, <3>9
    <3>11. Sealed(subject)' = w
      BY <3>2, <3>3 DEF Sealed
    <3> QED
      BY <3>3, <3>5, <3>8, <3>10, <3>11 DEF SealedInput, SealedMessages
  <2>2. CASE UNCHANGED inputs
    BY <2>2 DEF inputs, SealedInput, Sealed, SealedMessages
  <2> QED
    BY <2>1, <2>2
<1> QED
  BY <1>1, <1>2, PTL DEF Inputs

\* SealedOpens: a sealed message opens for the two parties it is between, a
\* signed one for the signer's public key, with the text that went in; no part
\* of either opens for anybody (crypto.hpp secretbox, box, sign), for nonces,
\* tags and signatures of any size.
THEOREM SealedOpensHolds == Inputs => []SealedOpens
<1>1. SealedInput => SealedOpens
  <2> SUFFICES ASSUME SealedInput PROVE SealedOpens
    OBVIOUS
  <2> DEFINE whole(right) == IF input = Sealed(subject) /\ right THEN <<subject.plain>> ELSE <<>>
  <2>1. ASSUME subject.parser = "box", NEW a \in Party, NEW b \in Party
        PROVE  box_decrypt(input, a, b) = whole({a, b} = {subject.from, subject.to})
    <3>1. PICK w : w = Sealed(subject)
      OBVIOUS
    <3>2. subject \in SealedMessages /\ \E n \in Nat : n <= Len(w) /\ input = SubSeq(w, 1, n)
      BY <2>1, <3>1 DEF SealedInput
    <3>3. PICK n \in Nat : n <= Len(w) /\ input = SubSeq(w, 1, n)
      BY <3>2
    <3>4. PICK p, k, key : p = subject.plain /\ k = {subject.to, subject.from} /\ key = {a, b}
      OBVIOUS
    <3>5. p \in Seq(Nat) /\ w = secretbox_encrypt(p, k, IV)
      BY <2>1, <3>1, <3>2, <3>4, SealedIs
    <3>6. PICK c : c = input
      OBVIOUS
    <3>7. /\ n = Len(w) <=> c = w
          /\ secretbox_decrypt(c, key) = IF n = Len(w) /\ key = k THEN <<p>> ELSE <<>>
      <4>2. n \in Nat /\ n <= Len(w) /\ c = SubSeq(w, 1, n)
        BY <3>3, <3>6
      <4>3. LET v == secretbox_encrypt(p, k, IV)
                d == SubSeq(v, 1, n)
            IN  /\ n = Len(v) <=> d = v
                /\ secretbox_decrypt(d, key) = IF n = Len(v) /\ key = k THEN <<p>> ELSE <<>>
        <5>1. p \in Seq(Nat) /\ n \in Nat /\ n <= Len(secretbox_encrypt(p, k, IV))
          BY <3>5, <4>2
        <5> QED
          BY ONLY <5>1, BoxOpens
      <4> QED
        BY ONLY <3>5, <4>2, <4>3
    <3>8. box_decrypt(c, a, b) = secretbox_decrypt(c, key)
      BY <3>4 DEF box_decrypt, derive_key
    <3>9. key = k <=> {a, b} = {subject.from, subject.to}
      BY <3>4
    <3> QED
      BY <3>1, <3>4, <3>6, <3>7, <3>8, <3>9
  <2>2. ASSUME subject.parser = "sign", NEW a \in Party
        PROVE  verify_combined(input, a) = whole(a = subject.from)
    <3>1. PICK w : w = Sealed(subject)
      OBVIOUS
    <3>2. subject \in SealedMessages /\ \E n \in Nat : n <= Len(w) /\ input = SubSeq(w, 1, n)
      BY <2>2, <3>1 DEF SealedInput
    <3>3. PICK n \in Nat : n <= Len(w) /\ input = SubSeq(w, 1, n)
      BY <3>2
    <3>4. PICK p, k, c : p = subject.plain /\ k = subject.from /\ c = input
      OBVIOUS
    <3>5. p \in Seq(Nat) /\ w = sign_combined(p, k)
      BY <2>2, <3>1, <3>2, <3>4, SealedIs
    <3>6. /\ n = Len(w) <=> c = w
          /\ verify_combined(c, a) = IF n = Len(w) /\ a = k THEN <<p>> ELSE <<>>
      <4>2. n \in Nat /\ n <= Len(w) /\ c = SubSeq(w, 1, n)
        BY <3>3, <3>4
      <4>3. LET v == sign_combined(p, k)
                d == SubSeq(v, 1, n)
            IN  /\ n = Len(v) <=> d = v
                /\ verify_combined(d, a) = IF n = Len(v) /\ a = k THEN <<p>> ELSE <<>>
        <5>1. p \in Seq(Nat) /\ n \in Nat /\ n <= Len(sign_combined(p, k))
          BY <3>5, <4>2
        <5> QED
          BY ONLY <5>1, SignedOpens
      <4> QED
        BY ONLY <3>5, <4>2, <4>3
    <3> QED
      BY <3>1, <3>4, <3>6
  <2> QED
    BY <2>1, <2>2 DEF SealedOpens
<1> QED
  BY <1>1, SealedInputHolds, PTL


\* FlattenSeq flattens.
LEMMA FlattenIs ==
  ASSUME NEW s, NEW n \in Nat, n = Len(s), n # 0
  PROVE  \E f : Flattening(s, n, f) /\ FlattenSeq(s) = f[n]
<1> DEFINE g == CHOOSE f : Flattening(s, n, f)
<1>1. Flattening(s, n, g)
  BY FlatteningExists
<1>2. FlattenSeq(s) = g[n]
  BY DEF FlattenSeq, Flattening
<1> QED
  BY <1>1, <1>2

(***************************************************************************)
(* Frames.  First the powers of Base.                                      *)
(***************************************************************************)
Powers(k, p) == p = [i \in 0..k |-> IF i = 0 THEN 1 ELSE Base * p[i - 1]]

\* There are powers, up to any exponent.
LEMMA PowersExist ==
  ASSUME NEW n \in Nat
  PROVE  \E p : Powers(n, p)
<1> DEFINE T == {k \in Nat : \E p : Powers(k, p)}
<1>1. 0 \in T
  <2>1. Powers(0, [i \in 0..0 |-> 1])
    BY DEF Powers
  <2> QED
    BY <2>1
<1>2. ASSUME NEW k \in T PROVE k + 1 \in T
  <2>1. PICK p : Powers(k, p)
    OBVIOUS
  <2> DEFINE g == [i \in 0..(k + 1) |-> IF i \in 0..k THEN p[i] ELSE Base * p[k]]
  <2>2. ASSUME NEW i \in 0..(k + 1)
        PROVE  g[i] = IF i = 0 THEN 1 ELSE Base * g[i - 1]
    <3>1. CASE i = 0
      BY <2>1, <3>1 DEF Powers
    <3>2. CASE i # 0 /\ i \in 0..k
      <4>1. i - 1 \in 0..k /\ i - 1 \in 0..(k + 1)
        BY <3>2
      <4>2. g[i] = p[i] /\ g[i - 1] = p[i - 1]
        BY <3>2, <4>1
      <4>3. p[i] = Base * p[i - 1]
        BY <2>1, <3>2 DEF Powers
      <4> QED
        BY <3>2, <4>2, <4>3
    <3>3. CASE i # 0 /\ i \notin 0..k
      <4>1. i - 1 = k /\ k \in 0..k /\ k \in 0..(k + 1)
        BY <3>3
      <4>2. g[i] = Base * p[k] /\ g[i - 1] = p[k]
        BY <3>3, <4>1
      <4> QED
        BY <3>3, <4>2
    <3> QED
      BY <3>1, <3>2, <3>3
  <2>3. Powers(k + 1, g)
    BY <2>2 DEF Powers
  <2> QED
    BY <2>3
<1>3. T = Nat
  <2> HIDE DEF T
  <2>1. T \subseteq Nat
    BY DEF T
  <2> QED
    BY <1>1, <1>2, <2>1, SetInduction
<1> QED
  BY <1>3

\* Power computes them.
LEMMA PowerIs ==
  ASSUME NEW k \in Nat
  PROVE  \E p : Powers(k, p) /\ Power(k) = p[k]
<1> DEFINE p == CHOOSE f : Powers(k, f)
<1>1. Powers(k, p)
  BY PowersExist
<1>2. Power(k) = p[k]
  BY DEF Power, Powers
<1> QED
  BY <1>1, <1>2

\* The first power, and the next one.
LEMMA PowerNext ==
  ASSUME NEW k \in Nat
  PROVE  Power(0) = 1 /\ Power(k + 1) = Base * Power(k)
<1>1. Power(0) = 1
  <2>1. PICK p : Powers(0, p) /\ Power(0) = p[0]
    BY PowerIs
  <2> QED
    BY <2>1 DEF Powers
<1>2. PICK p : Powers(k, p) /\ Power(k) = p[k]
  BY PowerIs
<1>3. PICK q : Powers(k + 1, q) /\ Power(k + 1) = q[k + 1]
  <2>1. k + 1 \in Nat
    OBVIOUS
  <2> QED
    BY ONLY <2>1, PowerIs
<1> DEFINE T == {i \in Nat : i <= k => p[i] = q[i]}
<1>4. 0 \in T
  BY <1>2, <1>3 DEF Powers
<1>5. ASSUME NEW i \in T PROVE i + 1 \in T
  <2>1. SUFFICES ASSUME i + 1 <= k PROVE p[i + 1] = q[i + 1]
    OBVIOUS
  <2>2. i \in Nat /\ p[i] = q[i]
    BY <2>1
  <2> HIDE DEF T
  <2>3. i + 1 \in 0..k /\ i + 1 \in 0..(k + 1) /\ i + 1 # 0 /\ (i + 1) - 1 = i
    BY <2>1, <2>2
  <2>4. p[i + 1] = Base * p[(i + 1) - 1]
    BY ONLY <1>2, <2>3 DEF Powers
  <2>5. q[i + 1] = Base * q[(i + 1) - 1]
    BY ONLY <1>3, <2>3 DEF Powers
  <2> QED
    BY ONLY <2>2, <2>3, <2>4, <2>5
<1>6. T = Nat
  <2> HIDE DEF T
  <2>1. T \subseteq Nat
    BY DEF T
  <2> QED
    BY <1>4, <1>5, <2>1, SetInduction
<1>7. p[k] = q[k]
  <2>1. k \in T
    BY ONLY <1>6, k \in Nat
  <2> QED
    BY ONLY <2>1, k \in Nat
<1>8. q[k + 1] = Base * q[k]
  <2>1. k + 1 \in 0..(k + 1) /\ k + 1 # 0 /\ (k + 1) - 1 = k
    OBVIOUS
  <2>2. q[k + 1] = Base * q[(k + 1) - 1]
    BY ONLY <1>3, <2>1 DEF Powers
  <2> QED
    BY ONLY <2>1, <2>2
<1> QED
  BY ONLY <1>1, <1>2, <1>3, <1>7, <1>8

\* A product of positive numbers is one.
LEMMA Product ==
  ASSUME NEW a \in Nat, NEW b \in Nat
  PROVE  a * b \in Nat /\ (a > 0 /\ b > 0 => a * b > 0 /\ a * b >= b)
  OBVIOUS

\* They are positive numbers.
LEMMA PowerType ==
  ASSUME NEW k \in Nat
  PROVE  Power(k) \in Nat /\ Power(k) > 0
<1>1. Base \in Nat /\ Base > 0
  BY CodecAssumption
<1> DEFINE T == {i \in Nat : Power(i) \in Nat /\ Power(i) > 0}
<1>2. 0 \in T
  BY PowerNext
<1>3. ASSUME NEW i \in T PROVE i + 1 \in T
  <2>1. i \in Nat /\ Power(i + 1) = Base * Power(i)
    BY PowerNext
  <2> QED
    BY <1>1, <2>1, Product
<1>4. T = Nat
  <2> HIDE DEF T
  <2>1. T \subseteq Nat
    BY DEF T
  <2> QED
    BY <1>2, <1>3, <2>1, SetInduction
<1> QED
  BY <1>4

\* What is left over when n is divided by d.
LEMMA Division ==
  ASSUME NEW n \in Nat, NEW d \in Nat, d > 0
  PROVE  /\ n \div d \in Nat /\ n % d \in Nat /\ n % d < d
         /\ n = d * (n \div d) + (n % d)
<1>1. n % d \in Nat /\ n % d < d
  OBVIOUS
<1>2. n \div d \in Int
  OBVIOUS
<1>3. n = d * (n \div d) + (n % d)
  OBVIOUS
<1>4. n \div d >= 0
  OBVIOUS
<1> QED
  BY <1>1, <1>2, <1>3, <1>4

\* Quotient and remainder are the only ones.
LEMMA Quotient ==
  ASSUME NEW d \in Nat, NEW q \in Nat, NEW r \in Nat, r < d
  PROVE  (d * q + r) \div d = q /\ (d * q + r) % d = r
<1>1. PICK n \in Nat : n = d * q + r
  BY Product
<1>2. PICK Q \in Nat, R \in Nat : Q = n \div d /\ R = n % d /\ R < d /\ n = d * Q + R
  BY Division
<1>3. d * q + r = d * Q + R
  BY ONLY <1>1, <1>2
<1>4. ~ (q < Q)
  <2> SUFFICES ASSUME q < Q PROVE FALSE
    OBVIOUS
  <2>1. PICK m \in Nat : Q = q + 1 + m
    <3>1. Q - (q + 1) \in Nat /\ Q = q + 1 + (Q - (q + 1))
      OBVIOUS
    <3> QED
      BY <3>1
  <2>2. d * Q = d * q + d + d * m
    BY <2>1
  <2>3. d * m \in Nat /\ d * q \in Nat
    BY Product
  <2> QED
    BY ONLY <1>2, <1>3, <2>2, <2>3, d \in Nat, r \in Nat, r < d, R \in Nat
<1>5. ~ (Q < q)
  <2> SUFFICES ASSUME Q < q PROVE FALSE
    OBVIOUS
  <2>1. PICK m \in Nat : q = Q + 1 + m
    <3>1. q - (Q + 1) \in Nat /\ q = Q + 1 + (q - (Q + 1))
      OBVIOUS
    <3> QED
      BY <3>1
  <2>2. d * q = d * Q + d + d * m
    BY <2>1
  <2>3. d * m \in Nat /\ d * Q \in Nat
    BY Product
  <2> QED
    BY ONLY <1>2, <1>3, <2>2, <2>3, d \in Nat, r \in Nat, R \in Nat
<1>6. q = Q
  BY ONLY <1>4, <1>5, q \in Nat, Q \in Nat
<1>7. r = R
  <2>1. d * q \in Nat
    BY Product
  <2> QED
    BY ONLY <1>3, <1>6, <2>1, r \in Nat, R \in Nat
<1> QED
  BY ONLY <1>1, <1>2, <1>6, <1>7

\* To divide by a product is to divide twice.
LEMMA DivideTwice ==
  ASSUME NEW n \in Nat, NEW b \in Nat, b > 0, NEW p \in Nat, p > 0
  PROVE  n \div (b * p) = (n \div p) \div b
<1>1. PICK m \in Nat, s \in Nat : m = n \div p /\ s < p /\ n = p * m + s
  BY Division
<1>2. PICK q \in Nat, r \in Nat : q = m \div b /\ r < b /\ m = b * q + r
  BY Division
<1>3. PICK t \in Nat : t = p * r + s
  BY Product
<1>4. n = (b * p) * q + t
  <2>1. p * (b * q + r) = (b * p) * q + p * r
    <3>1. PICK x \in Nat : x = b * q
      BY Product
    <3>2. p * (x + r) = p * x + p * r
      OBVIOUS
    <3>3. p * (b * q) = (b * p) * q
      OBVIOUS
    <3> QED
      BY ONLY <3>1, <3>2, <3>3
  <2>2. PICK x \in Nat, y \in Nat : x = (b * p) * q /\ y = p * r
    BY Product
  <2>3. p * m = x + y
    BY ONLY <1>2, <2>1, <2>2
  <2> QED
    BY ONLY <1>1, <1>3, <2>2, <2>3, x \in Nat, y \in Nat, s \in Nat
<1>5. t < b * p
  <2>1. PICK m2 \in Nat : b = r + 1 + m2
    <3>1. b - (r + 1) \in Nat /\ b = r + 1 + (b - (r + 1))
      BY <1>2
    <3> QED
      BY <3>1
  <2>2. b * p = p * r + p + m2 * p
    BY <2>1
  <2>3. m2 * p \in Nat /\ p * r \in Nat
    BY Product
  <2> QED
    BY ONLY <1>1, <1>3, <2>2, <2>3, p \in Nat, s \in Nat, t \in Nat
<1>6. b * p \in Nat
  BY Product
<1>7. n \div (b * p) = q
  BY ONLY <1>4, <1>5, <1>6, Quotient, q \in Nat, t \in Nat
<1> QED
  BY <1>1, <1>2, <1>7
\* What Number computes, digit by digit.
Sums(digits, n, f) ==
  f = [i \in 0..n |-> IF i = 0 THEN 0 ELSE (f[i - 1] * Base + digits[i]) % SizeT]

\* There are such sums, for any number of digits.
LEMMA SumsExist ==
  ASSUME NEW digits, NEW n \in Nat
  PROVE  \E f : Sums(digits, n, f)
<1> DEFINE T == {k \in Nat : \E f : Sums(digits, k, f)}
<1>1. 0 \in T
  <2>1. Sums(digits, 0, [i \in 0..0 |-> 0])
    BY DEF Sums
  <2> QED
    BY <2>1
<1>2. ASSUME NEW k \in T PROVE k + 1 \in T
  <2>1. PICK f : Sums(digits, k, f)
    OBVIOUS
  <2> DEFINE g == [i \in 0..(k + 1) |->
                     IF i \in 0..k THEN f[i] ELSE (f[k] * Base + digits[i]) % SizeT]
  <2>2. ASSUME NEW i \in 0..(k + 1)
        PROVE  g[i] = IF i = 0 THEN 0 ELSE (g[i - 1] * Base + digits[i]) % SizeT
    <3>1. CASE i = 0
      BY <2>1, <3>1 DEF Sums
    <3>2. CASE i # 0 /\ i \in 0..k
      <4>1. i - 1 \in 0..k /\ i - 1 \in 0..(k + 1)
        BY <3>2
      <4>2. g[i] = f[i] /\ g[i - 1] = f[i - 1]
        BY <3>2, <4>1
      <4>3. f[i] = (f[i - 1] * Base + digits[i]) % SizeT
        BY <2>1, <3>2 DEF Sums
      <4> QED
        BY <3>2, <4>2, <4>3
    <3>3. CASE i # 0 /\ i \notin 0..k
      <4>1. i - 1 = k /\ k \in 0..k /\ k \in 0..(k + 1)
        BY <3>3
      <4>2. g[i] = (f[k] * Base + digits[i]) % SizeT /\ g[i - 1] = f[k]
        BY <3>3, <4>1
      <4> QED
        BY <3>3, <4>2
    <3> QED
      BY <3>1, <3>2, <3>3
  <2>3. Sums(digits, k + 1, g)
    BY <2>2 DEF Sums
  <2> QED
    BY <2>3
<1>3. T = Nat
  <2> HIDE DEF T
  <2>1. T \subseteq Nat
    BY DEF T
  <2> QED
    BY <1>1, <1>2, <2>1, SetInduction
<1> QED
  BY <1>3

\* Number computes them.
LEMMA NumberIs ==
  ASSUME NEW digits, NEW n \in Nat, n = Len(digits)
  PROVE  \E f : Sums(digits, n, f) /\ Number(digits) = f[n]
<1> DEFINE g == CHOOSE f : Sums(digits, n, f)
<1>1. Sums(digits, n, g)
  BY SumsExist
<1>2. Number(digits) = g[n]
  BY DEF Number, Sums
<1> QED
  BY <1>1, <1>2

\* The digits are as many numbers.
LEMMA DigitsType ==
  ASSUME NEW n \in Nat, NEW k \in Nat
  PROVE  Digits(n, k) \in Seq(Nat) /\ Len(Digits(n, k)) = k
<1>1. ASSUME NEW i \in 1..k PROVE (n \div Power(k - i)) % Base \in Nat
  <2>1. k - i \in Nat
    OBVIOUS
  <2>2. Power(k - i) \in Nat /\ Power(k - i) > 0
    BY ONLY <2>1, PowerType
  <2>3. n \div Power(k - i) \in Nat
    BY ONLY <2>2, Division, n \in Nat
  <2>4. Base \in Nat /\ Base > 0
    BY CodecAssumption
  <2> QED
    BY ONLY <2>3, <2>4, Division
<1> QED
  BY <1>1 DEF Digits

\* A number that k bytes hold has its k bytes back.
LEMMA NumberOfDigits ==
  ASSUME NEW n \in Nat, NEW k \in Nat, n < Power(k), n < SizeT
  PROVE  Number(Digits(n, k)) = n
<1>1. PICK d : d = Digits(n, k)
  OBVIOUS
<1>2. Len(d) = k /\ \A i \in 1..k : d[i] = (n \div Power(k - i)) % Base
  BY <1>1, DigitsType DEF Digits
<1>3. PICK f : Sums(d, k, f) /\ Number(d) = f[k]
  BY <1>2, NumberIs
<1>4. Base \in Nat /\ Base > 0
  BY CodecAssumption
<1>5. SizeT \in Nat /\ SizeT > 0
  BY CodecAssumption, PowerType DEF SizeT
<1> DEFINE T == {i \in Nat : i <= k => f[i] = n \div Power(k - i)}
<1>6. 0 \in T
  <2>1. f[0] = 0
    BY <1>3 DEF Sums
  <2>2. PICK p \in Nat : p = Power(k) /\ p > 0
    BY PowerType
  <2>3. n = p * 0 + n /\ n < p
    BY <2>2
  <2>4. n \div p = 0
    BY ONLY <2>3, Quotient, n \in Nat, p \in Nat
  <2>5. k - 0 = k
    OBVIOUS
  <2> QED
    BY <2>1, <2>2, <2>4, <2>5
<1>7. ASSUME NEW i \in T PROVE i + 1 \in T
  <2>1. SUFFICES ASSUME i + 1 <= k PROVE f[i + 1] = n \div Power(k - (i + 1))
    OBVIOUS
  <2>2. i \in Nat /\ f[i] = n \div Power(k - i)
    BY <2>1
  <2> HIDE DEF T
  <2>3. PICK j \in Nat : j = k - (i + 1) /\ j + 1 = k - i
    <3>1. k - (i + 1) \in Nat /\ (k - (i + 1)) + 1 = k - i
      BY <2>1, <2>2
    <3> QED
      BY <3>1
  <2>4. i + 1 \in 0..k /\ i + 1 \in 1..k /\ i + 1 # 0 /\ (i + 1) - 1 = i
    BY <2>1, <2>2
  <2>5. PICK p \in Nat : p = Power(j) /\ p > 0
    BY PowerType
  <2>6. PICK m \in Nat : m = n \div p /\ m <= n
    <3>1. PICK q \in Nat, r \in Nat : q = n \div p /\ n = p * q + r
      <4>1. n \div p \in Nat /\ n % p \in Nat /\ n = p * (n \div p) + (n % p)
        BY ONLY <2>5, Division, n \in Nat, p \in Nat
      <4> QED
        BY ONLY <4>1
    <3>2. p * q \in Nat /\ q <= p * q
      <4>1. q = 0 \/ q > 0
        OBVIOUS
      <4> QED
        BY <2>5, <4>1, Product
    <3>3. q <= n
      BY ONLY <3>1, <3>2, q \in Nat, r \in Nat
    <3> QED
      BY <3>1, <3>3
  <2>7. Power(k - i) = Base * p
    BY ONLY <2>3, <2>5, PowerNext, j \in Nat
  <2>8. f[i] = m \div Base
    BY ONLY <1>4, <2>2, <2>5, <2>6, <2>7, DivideTwice, n \in Nat, p \in Nat
  <2>9. d[i + 1] = m % Base
    BY ONLY <1>2, <2>3, <2>4, <2>5, <2>6
  <2>10. f[i + 1] = (f[i] * Base + d[i + 1]) % SizeT
    BY ONLY <1>3, <2>4 DEF Sums
  <2>11. f[i] * Base + d[i + 1] = m
    <3>1. PICK q \in Nat, r \in Nat : q = m \div Base /\ r = m % Base /\ m = Base * q + r
      BY <1>4, Division
    <3>2. q * Base = Base * q
      BY <1>4
    <3> QED
      BY ONLY <2>8, <2>9, <3>1, <3>2
  <2>12. m % SizeT = m
    <3>1. PICK size \in Nat : size = SizeT /\ m < size
      BY <1>5, <2>6
    <3>2. m = size * 0 + m
      OBVIOUS
    <3> QED
      BY ONLY <3>1, <3>2, Quotient, m \in Nat, size \in Nat
  <2> QED
    BY ONLY <2>3, <2>5, <2>6, <2>10, <2>11, <2>12
<1>8. T = Nat
  <2> HIDE DEF T
  <2>1. T \subseteq Nat
    BY DEF T
  <2> QED
    BY <1>6, <1>7, <2>1, SetInduction
<1>9. f[k] = n \div Power(k - k)
  <2>1. k \in T
    BY ONLY <1>8, k \in Nat
  <2> QED
    BY ONLY <2>1, k \in Nat
<1>10. Power(k - k) = 1 /\ n \div 1 = n
  BY PowerNext
<1> QED
  BY ONLY <1>1, <1>3, <1>9, <1>10

\* The frames that decode is fed: payloads of any bits that a size_t can count.
Sent ==
  [frame  : [fin : BOOLEAN, opcode : Opcodes,
             payload : {p \in Seq({0, 1}) : 2 + Long + KeyLen + Len(p) < SizeT}],
   masked : BOOLEAN]

Bytes == Nat \cup [fin : BOOLEAN, opcode : Opcodes] \cup [masked : BOOLEAN, code : Nat]

\* The form of a length: how many bytes it has behind the second one, and what
\* that one says.
Extended(n) == IF n <= Short THEN 0 ELSE IF n < Power(Mid) THEN Mid ELSE Long
Code(n) == IF n <= Short THEN n ELSE IF n < Power(Mid) THEN Short + 1 ELSE Short + 2

\* Where the payload starts, and its bytes on the wire.
Offset(s) == 2 + Extended(Len(s.frame.payload)) + (IF s.masked THEN KeyLen ELSE 0)
Data(s) == IF s.masked THEN Mask(s.frame.payload, Key) ELSE s.frame.payload

\* The first two bytes, and all that the encoders put in front of key and payload.
FirstOf(f) == [fin |-> f.fin, opcode |-> f.opcode]
SecondOf(m, n) == [masked |-> m, code |-> Code(n)]
Header(f, m, n) == FirstByte(f) \o LengthBytes(m, n)

\* These bytes are a frame, read one by one.
Laid(w, s, n, e, h) ==
  /\ w[1] = FirstOf(s.frame)
  /\ w[2] = SecondOf(s.masked, n)
  /\ \A i \in 1..e : w[2 + i] = Digits(n, e)[i]
  /\ s.masked => \A i \in 1..KeyLen : w[(2 + e) + i] = Key[i]
  /\ \A i \in 1..n : w[h + i] = Data(s)[i]

\* Two sequences, one behind the other.
LEMMA Behind ==
  ASSUME NEW S, NEW a \in Seq(S), NEW b \in Seq(S)
  PROVE  /\ a \o b \in Seq(S) /\ Len(a \o b) = Len(a) + Len(b)
         /\ \A i \in 1..Len(a) : (a \o b)[i] = a[i]
         /\ \A i \in 1..Len(b) : (a \o b)[Len(a) + i] = b[i]
<1>1. PICK k \in Nat, m \in Nat : k = Len(a) /\ m = Len(b)
  BY LenProperties
<1>2. /\ a \o b \in Seq(S) /\ Len(a \o b) = k + m
      /\ \A i \in 1..(k + m) : (a \o b)[i] = IF i <= k THEN a[i] ELSE b[i - k]
  <2>1. /\ a \o b \in Seq(S) /\ Len(a \o b) = Len(a) + Len(b)
        /\ \A i \in 1..(Len(a) + Len(b)) :
             (a \o b)[i] = IF i <= Len(a) THEN a[i] ELSE b[i - Len(a)]
    BY ONLY ConcatProperties, a \in Seq(S), b \in Seq(S)
  <2> QED
    BY ONLY <1>1, <2>1
<1>3. ASSUME NEW i \in 1..k PROVE (a \o b)[i] = a[i]
  BY <1>2
<1>4. ASSUME NEW i \in 1..m PROVE (a \o b)[k + i] = b[i]
  <2>1. k + i \in 1..(k + m) /\ ~ (k + i <= k) /\ (k + i) - k = i
    OBVIOUS
  <2> QED
    BY ONLY <1>2, <2>1
<1> QED
  BY ONLY <1>1, <1>2, <1>3, <1>4

\* The form of a length, and how decode tells it from the second byte.
LEMMA LengthType ==
  ASSUME NEW n \in Nat, n < SizeT
  PROVE  /\ Extended(n) \in Nat /\ Extended(n) <= Long /\ Code(n) \in Nat
         /\ Extended(n) # 0 => n < Power(Extended(n))
         /\ n > Short <=> Extended(n) # 0
         /\ Extended(n) = IF Code(n) = Short + 1 THEN Mid ELSE IF Code(n) = Short + 2 THEN Long ELSE 0
         /\ Extended(n) = 0 => Code(n) = n
<1>1. /\ Short \in Nat /\ Mid \in Nat \ {0} /\ Long \in Nat /\ Long > Mid
      /\ Power(Mid) \in Nat /\ n < Power(Long)
  BY CodecAssumption, PowerType DEF SizeT
<1> QED
  BY <1>1 DEF Extended, Code

\* The header of a frame, read one byte at a time.
LEMMA HeadIs ==
  ASSUME NEW f, NEW m, NEW n \in Nat, n < SizeT,
         FirstOf(f) \in Bytes, SecondOf(m, n) \in Bytes
  PROVE  /\ Header(f, m, n) \in Seq(Bytes) /\ Len(Header(f, m, n)) = 2 + Extended(n)
         /\ Header(f, m, n)[1] = FirstOf(f) /\ Header(f, m, n)[2] = SecondOf(m, n)
         /\ \A i \in 1..Extended(n) : Header(f, m, n)[2 + i] = Digits(n, Extended(n))[i]
<1>1. PICK e \in Nat, c \in Nat : e = Extended(n) /\ c = Code(n)
  BY LengthType
<1>2. PICK x, y : x = FirstOf(f) /\ y = SecondOf(m, n)
  OBVIOUS
<1>3. x \in Bytes /\ y \in Bytes
  BY <1>1, <1>2
<1>4. PICK d : d = Digits(n, e)
  OBVIOUS
<1>5. d \in Seq(Bytes) /\ Len(d) = e
  <2>1. d \in Seq(Nat) /\ Len(d) = e
    BY ONLY <1>4, DigitsType, n \in Nat, e \in Nat
  <2>2. Nat \subseteq Bytes
    BY DEF Bytes
  <2> QED
    BY ONLY <2>1, <2>2, SeqMonotonic
<1>6. PICK a, b : a = <<x>> /\ b = <<y>>
  OBVIOUS
<1>7. /\ a \in Seq(Bytes) /\ Len(a) = 1 /\ a[1] = x
      /\ b \in Seq(Bytes) /\ Len(b) = 1 /\ b[1] = y
  BY ONLY <1>3, <1>6
<1>8. FirstByte(f) = a
  BY ONLY <1>2, <1>6 DEF FirstByte, FirstOf
<1>9. LengthBytes(m, n) = IF e = 0 THEN b ELSE b \o d
  <2>1. CASE n <= Short
    <3>1. e = 0 /\ c = n
      BY ONLY <1>1, <2>1 DEF Extended, Code
    <3> QED
      BY ONLY <1>2, <1>6, <2>1, <3>1 DEF LengthBytes, SecondOf, Code
  <2>2. CASE ~ (n <= Short) /\ n < Power(Mid)
    <3>1. e = Mid /\ c = Short + 1 /\ e # 0
      BY ONLY <1>1, <2>2, CodecAssumption DEF Extended, Code
    <3> QED
      BY ONLY <1>2, <1>4, <1>6, <2>2, <3>1 DEF LengthBytes, SecondOf, Code
  <2>3. CASE ~ (n <= Short) /\ ~ (n < Power(Mid))
    <3>1. e = Long /\ c = Short + 2 /\ e # 0
      BY ONLY <1>1, <2>3, CodecAssumption DEF Extended, Code
    <3> QED
      BY ONLY <1>2, <1>4, <1>6, <2>3, <3>1 DEF LengthBytes, SecondOf, Code
  <2> QED
    BY <2>1, <2>2, <2>3
<1>10. PICK l : l = LengthBytes(m, n)
  OBVIOUS
<1>11. l \in Seq(Bytes) /\ Len(l) = 1 + e /\ l[1] = y /\ \A i \in 1..e : l[1 + i] = d[i]
  <2>1. CASE e = 0
    <3>1. 1..e = {} /\ 1 + e = 1 /\ l = b
      BY <1>9, <1>10, <2>1
    <3> QED
      BY ONLY <1>7, <3>1
  <2>2. CASE e # 0
    <3>1. /\ b \o d \in Seq(Bytes) /\ Len(b \o d) = Len(b) + Len(d)
          /\ \A i \in 1..Len(b) : (b \o d)[i] = b[i]
          /\ \A i \in 1..Len(d) : (b \o d)[Len(b) + i] = d[i]
      <4>1. PICK S : S = Bytes
        OBVIOUS
      <4>2. b \in Seq(S) /\ d \in Seq(S)
        BY ONLY <1>5, <1>7, <4>1
      <4>3. /\ b \o d \in Seq(S) /\ Len(b \o d) = Len(b) + Len(d)
            /\ \A i \in 1..Len(b) : (b \o d)[i] = b[i]
            /\ \A i \in 1..Len(d) : (b \o d)[Len(b) + i] = d[i]
        BY ONLY <4>2, Behind
      <4> QED
        BY ONLY <4>1, <4>3
    <3>2. 1 \in 1..1
      OBVIOUS
    <3>3. l = b \o d
      BY ONLY <1>9, <1>10, <2>2
    <3> QED
      BY ONLY <1>5, <1>7, <3>1, <3>2, <3>3
  <2> QED
    BY <2>1, <2>2
<1>12. PICK w : w = a \o l
  OBVIOUS
<1>13. /\ w \in Seq(Bytes) /\ Len(w) = 1 + Len(l)
       /\ \A i \in 1..1 : w[i] = a[i]
       /\ \A i \in 1..Len(l) : w[1 + i] = l[i]
  <2>1. /\ a \o l \in Seq(Bytes) /\ Len(a \o l) = Len(a) + Len(l)
        /\ \A i \in 1..Len(a) : (a \o l)[i] = a[i]
        /\ \A i \in 1..Len(l) : (a \o l)[Len(a) + i] = l[i]
    <3>1. PICK S : S = Bytes
      OBVIOUS
    <3>2. a \in Seq(S) /\ l \in Seq(S)
      BY ONLY <1>7, <1>11, <3>1
    <3>3. /\ a \o l \in Seq(S) /\ Len(a \o l) = Len(a) + Len(l)
          /\ \A i \in 1..Len(a) : (a \o l)[i] = a[i]
          /\ \A i \in 1..Len(l) : (a \o l)[Len(a) + i] = l[i]
      BY ONLY <3>2, Behind
    <3> QED
      BY ONLY <3>1, <3>3
  <2> QED
    BY ONLY <1>7, <1>12, <2>1
<1>14. w[1] = x
  BY <1>7, <1>13
<1>15. w[2] = y
  <2>1. 1 \in 1..(1 + e) /\ 1 + 1 = 2
    OBVIOUS
  <2> QED
    BY ONLY <1>11, <1>13, <2>1
<1>16. ASSUME NEW i \in 1..e PROVE w[2 + i] = d[i]
  <2>1. 1 + i \in 1..(1 + e) /\ 1 + (1 + i) = 2 + i
    OBVIOUS
  <2> QED
    BY ONLY <1>11, <1>13, <2>1, i \in 1..e
<1>17. Len(w) = 2 + e
  BY <1>11, <1>13
<1> QED
  BY ONLY <1>1, <1>2, <1>4, <1>8, <1>10, <1>12, <1>13, <1>14, <1>15, <1>16, <1>17 DEF Header

\* The key of MCParsers' clients.
LEMMA KeyIs == Key \in Seq({0, 1}) /\ Len(Key) = KeyLen /\ KeyLen = 4
  BY DEF Key, KeyLen

\* The payload on the wire is as long, and unmasking undoes masking.
LEMMA DataIs ==
  ASSUME NEW s \in Sent
  PROVE  /\ Data(s) \in Seq({0, 1}) /\ Len(Data(s)) = Len(s.frame.payload)
         /\ Mask(Mask(s.frame.payload, Key), Key) = s.frame.payload
<1>1. PICK p \in Seq({0, 1}) : p = s.frame.payload
  BY DEF Sent
<1>2. PICK n \in Nat : n = Len(p)
  BY LenProperties
<1>3. PICK k \in Seq({0, 1}) : k = Key /\ Len(k) = 4
  BY KeyIs DEF KeyLen
<1>4. \A i \in 1..n : k[((i - 1) % 4) + 1] \in {0, 1} /\ p[i] \in {0, 1}
  <2>1. ASSUME NEW i \in 1..n PROVE ((i - 1) % 4) + 1 \in 1..4
    OBVIOUS
  <2> QED
    BY ONLY <1>2, <1>3, <2>1, ElementOfSeq, p \in Seq({0, 1}), k \in Seq({0, 1})
<1>5. PICK q : q = Mask(p, k)
  OBVIOUS
<1>6. q = [i \in 1..n |-> (p[i] + k[((i - 1) % 4) + 1]) % 2]
  BY ONLY <1>2, <1>3, <1>5 DEF Mask
<1>7. q \in Seq({0, 1}) /\ Len(q) = n
  <2>1. \A i \in 1..n : (p[i] + k[((i - 1) % 4) + 1]) % 2 \in {0, 1}
    BY ONLY <1>4
  <2> QED
    BY ONLY <1>6, <2>1, n \in Nat
<1>8. Mask(q, k) = p
  <2>1. Mask(q, k) = [i \in 1..n |-> (q[i] + k[((i - 1) % 4) + 1]) % 2]
    BY ONLY <1>3, <1>7 DEF Mask
  <2>2. \A i \in 1..n : (q[i] + k[((i - 1) % 4) + 1]) % 2 = p[i]
    <3>1. ASSUME NEW i \in 1..n PROVE (q[i] + k[((i - 1) % 4) + 1]) % 2 = p[i]
      <4>1. PICK x \in {0, 1}, y \in {0, 1} : x = p[i] /\ y = k[((i - 1) % 4) + 1]
        BY ONLY <1>4, i \in 1..n
      <4>2. q[i] = (x + y) % 2
        BY ONLY <1>6, <4>1, i \in 1..n
      <4>3. (((x + y) % 2) + y) % 2 = x
        <5>1. CASE x = 0 /\ y = 0
          BY <5>1
        <5>2. CASE x = 1 /\ y = 0
          BY <5>2
        <5>3. CASE x = 0 /\ y = 1
          BY <5>3
        <5>4. CASE x = 1 /\ y = 1
          BY <5>4
        <5> QED
          BY <5>1, <5>2, <5>3, <5>4
      <4> QED
        BY ONLY <4>1, <4>2, <4>3
    <3> QED
      BY <3>1
  <2>3. p = [i \in 1..n |-> p[i]]
    BY ONLY <1>2, p \in Seq({0, 1}), LenProperties
  <2> QED
    BY ONLY <2>1, <2>2, <2>3
<1> QED
  BY ONLY <1>1, <1>2, <1>3, <1>5, <1>7, <1>8, p \in Seq({0, 1}) DEF Data

\* What either side sends.
LEMMA WireIs ==
  ASSUME NEW s \in Sent
  PROVE  LET n == Len(s.frame.payload)
         IN  /\ n \in Nat /\ Offset(s) \in Nat /\ Offset(s) + n < SizeT
             /\ Offset(s) = 2 + Extended(n) + (IF s.masked THEN KeyLen ELSE 0)
             /\ Wire(s) \in Seq(Bytes) /\ Len(Wire(s)) = Offset(s) + n
             /\ Laid(Wire(s), s, n, Extended(n), Offset(s))
<1>0. PICK f : f = s.frame
  OBVIOUS
<1>1. PICK m \in BOOLEAN : f = s.frame /\ m = s.masked
  BY <1>0 DEF Sent
<1>2. PICK n \in Nat : n = Len(f.payload)
  BY <1>1, LenProperties DEF Sent
<1>3. f.fin \in BOOLEAN /\ f.opcode \in Opcodes /\ 2 + Long + KeyLen + n < SizeT
  BY <1>1, <1>2 DEF Sent
<1>4. SizeT \in Nat /\ Long \in Nat /\ KeyLen = 4
  BY CodecAssumption, PowerType DEF SizeT, KeyLen
<1>5. n < SizeT
  BY ONLY <1>3, <1>4, n \in Nat
<1>6. PICK e \in Nat : e = Extended(n) /\ e <= Long
  BY ONLY <1>5, LengthType, n \in Nat
<1>7. PICK h \in Nat : h = 2 + e + (IF m THEN 4 ELSE 0)
  OBVIOUS
<1>8. Offset(s) = h /\ h + n < SizeT
  <2>1. Offset(s) = h
    BY ONLY <1>1, <1>2, <1>4, <1>6, <1>7 DEF Offset
  <2>2. h + n < SizeT
    BY ONLY <1>3, <1>4, <1>6, <1>7, n \in Nat, h \in Nat, e \in Nat
  <2> QED
    BY <2>1, <2>2
<1>9. PICK a : a = Header(f, m, n)
  OBVIOUS
<1>10. /\ a \in Seq(Bytes) /\ Len(a) = 2 + e
       /\ a[1] = FirstOf(f) /\ a[2] = SecondOf(m, n)
       /\ \A i \in 1..e : a[2 + i] = Digits(n, e)[i]
  <2>1. FirstOf(f) \in Bytes /\ SecondOf(m, n) \in Bytes
    BY <1>3, <1>5, LengthType DEF Bytes, FirstOf, SecondOf
  <2> QED
    BY ONLY <1>5, <1>6, <1>9, <2>1, HeadIs, n \in Nat
<1>11. {0, 1} \subseteq Bytes
  BY DEF Bytes
<1>12. PICK k \in Seq(Bytes) : k = Key /\ Len(k) = 4
  <2>1. Key \in Seq(Bytes) /\ Len(Key) = 4
    BY ONLY <1>4, <1>11, KeyIs, SeqMonotonic
  <2> QED
    BY <2>1
<1>13. PICK d \in Seq(Bytes) : d = Data(s) /\ Len(d) = n
  <2>1. Data(s) \in Seq({0, 1}) /\ Len(Data(s)) = n
    BY ONLY <1>1, <1>2, DataIs, s \in Sent
  <2>2. Data(s) \in Seq(Bytes)
    BY ONLY <1>11, <2>1, SeqMonotonic
  <2> QED
    BY <2>1, <2>2
<1>14. PICK t : t = IF m THEN a \o k ELSE a
  OBVIOUS
<1>15. /\ t \in Seq(Bytes) /\ Len(t) = h
       /\ \A i \in 1..(2 + e) : t[i] = a[i]
       /\ m => \A i \in 1..4 : t[(2 + e) + i] = k[i]
  <2>1. CASE m
    <3>1. PICK S : S = Bytes
      OBVIOUS
    <3>2. a \in Seq(S) /\ k \in Seq(S)
      BY ONLY <1>10, <3>1, k \in Seq(Bytes)
    <3>3. /\ a \o k \in Seq(S) /\ Len(a \o k) = Len(a) + Len(k)
          /\ \A i \in 1..Len(a) : (a \o k)[i] = a[i]
          /\ \A i \in 1..Len(k) : (a \o k)[Len(a) + i] = k[i]
      BY ONLY <3>2, Behind
    <3>4. t = a \o k /\ h = (2 + e) + 4
      BY ONLY <1>7, <1>14, <2>1, e \in Nat
    <3> QED
      BY ONLY <1>10, <1>12, <3>1, <3>3, <3>4
  <2>2. CASE ~ m
    <3>1. t = a /\ h = 2 + e
      BY ONLY <1>7, <1>14, <2>2, e \in Nat
    <3> QED
      BY ONLY <1>10, <2>2, <3>1
  <2> QED
    BY <2>1, <2>2
<1>16. PICK w : w = t \o d
  OBVIOUS
<1>17. /\ w \in Seq(Bytes) /\ Len(w) = h + n
       /\ \A i \in 1..h : w[i] = t[i]
       /\ \A i \in 1..n : w[h + i] = d[i]
  <2>1. PICK S : S = Bytes
    OBVIOUS
  <2>2. t \in Seq(S) /\ d \in Seq(S)
    BY ONLY <1>15, <2>1, d \in Seq(Bytes)
  <2>3. /\ t \o d \in Seq(S) /\ Len(t \o d) = Len(t) + Len(d)
        /\ \A i \in 1..Len(t) : (t \o d)[i] = t[i]
        /\ \A i \in 1..Len(d) : (t \o d)[Len(t) + i] = d[i]
    BY ONLY <2>2, Behind
  <2> QED
    BY ONLY <1>13, <1>15, <1>16, <2>1, <2>3
<1>18. Wire(s) = w
  <2>1. CASE m
    <3>1. d = Mask(f.payload, k)
      BY ONLY <1>1, <1>12, <1>13, <2>1 DEF Data
    <3>2. Wire(s) = encode_client_frame(f, k)
      BY ONLY <1>1, <1>12, <2>1 DEF Wire
    <3>3. m = TRUE
      BY <2>1
    <3> QED
      BY ONLY <1>2, <1>9, <1>14, <1>16, <3>1, <3>2, <3>3 DEF encode_client_frame, Header
  <2>2. CASE ~ m
    <3>1. d = f.payload
      BY ONLY <1>1, <1>13, <2>2 DEF Data
    <3>2. Wire(s) = encode(f)
      BY ONLY <1>1, <2>2 DEF Wire
    <3>3. m = FALSE
      BY <2>2
    <3> QED
      BY ONLY <1>2, <1>9, <1>14, <1>16, <3>1, <3>2, <3>3 DEF encode, Header
  <2> QED
    BY <2>1, <2>2
<1>19. Laid(w, s, n, e, h)
  <2>1. \A i \in 1..(2 + e) : w[i] = a[i]
    <3>1. \A i \in 1..(2 + e) : i \in 1..h
      BY ONLY <1>7, e \in Nat, h \in Nat
    <3> QED
      BY ONLY <1>15, <1>17, <3>1
  <2>2. 1 \in 1..(2 + e) /\ 2 \in 1..(2 + e) /\ \A i \in 1..e : 2 + i \in 1..(2 + e)
    OBVIOUS
  <2>3. m => \A i \in 1..4 : w[(2 + e) + i] = k[i]
    <3>1. m => \A i \in 1..4 : (2 + e) + i \in 1..h
      BY ONLY <1>7, e \in Nat, h \in Nat
    <3> QED
      BY ONLY <1>15, <1>17, <3>1
  <2>4. w[1] = FirstOf(s.frame)
    BY ONLY <1>1, <1>10, <2>1, <2>2
  <2>5. w[2] = SecondOf(s.masked, n)
    BY ONLY <1>1, <1>10, <2>1, <2>2
  <2>6. \A i \in 1..e : w[2 + i] = Digits(n, e)[i]
    BY ONLY <1>10, <2>1, <2>2
  <2>7. s.masked => \A i \in 1..KeyLen : w[(2 + e) + i] = Key[i]
    BY ONLY <1>1, <1>4, <1>12, <2>3
  <2>8. \A i \in 1..n : w[h + i] = Data(s)[i]
    BY ONLY <1>13, <1>17
  <2> QED
    BY ONLY <2>4, <2>5, <2>6, <2>7, <2>8 DEF Laid
<1> QED
  BY ONLY <1>1, <1>2, <1>4, <1>6, <1>7, <1>8, <1>17, <1>18, <1>19, n \in Nat, h \in Nat

\* decode, given the front of a frame, or a frame and what follows it.
LEMMA DecodeIs ==
  ASSUME NEW s \in Sent, NEW buf \in Seq(Bytes),
         \A i \in 1..Len(buf) : i <= Len(Wire(s)) => buf[i] = Wire(s)[i]
  PROVE  Yields(buf, s)
<1>1. PICK n \in Nat : n = Len(s.frame.payload)
  BY LenProperties DEF Sent
<1>2. SizeT \in Nat /\ Long \in Nat /\ Short \in Nat /\ KeyLen = 4
  BY CodecAssumption, PowerType DEF SizeT, KeyLen
<1>3. PICK e, h, w : e = Extended(n) /\ h = Offset(s) /\ w = Wire(s)
  OBVIOUS
<1>4. /\ h \in Nat /\ h + n < SizeT /\ h = 2 + e + (IF s.masked THEN 4 ELSE 0)
      /\ w \in Seq(Bytes) /\ Len(w) = h + n
      /\ Laid(w, s, n, e, h)
  BY ONLY <1>1, <1>2, <1>3, WireIs, s \in Sent
<1>5. n < SizeT
  BY ONLY <1>2, <1>4, n \in Nat
<1>6. /\ e \in Nat /\ e <= Long /\ Code(n) \in Nat
      /\ e # 0 => n < Power(e)
      /\ e = IF Code(n) = Short + 1 THEN Mid ELSE IF Code(n) = Short + 2 THEN Long ELSE 0
      /\ e = 0 => Code(n) = n
  BY ONLY <1>3, <1>5, LengthType, n \in Nat
<1>7. PICK l \in Nat : l = Len(buf)
  BY LenProperties
<1>8. \A i \in 1..l : i <= h + n => buf[i] = w[i]
  BY ONLY <1>3, <1>4, <1>7, \A i \in 1..Len(buf) : i <= Len(Wire(s)) => buf[i] = Wire(s)[i]
<1>9. h >= 2 + e /\ h >= 2
  BY ONLY <1>4, <1>6
<1>10. Yields(buf, s) <=> IF l < h + n THEN decode(buf) = NeedMore
                          ELSE decode(buf) = [consumed |-> h + n, frame |-> s.frame]
  BY ONLY <1>3, <1>4, <1>7 DEF Yields
<1>11. CASE l < 2
  <2>1. decode(buf) = NeedMore
    BY ONLY <1>7, <1>11 DEF decode
  <2>2. l < h + n
    BY ONLY <1>4, <1>9, <1>11, n \in Nat, l \in Nat
  <2> QED
    BY ONLY <1>10, <2>1, <2>2
<1>12. CASE l >= 2
  <2>1. buf[1] = w[1] /\ buf[2] = w[2]
    <3>1. 1 \in 1..l /\ 2 \in 1..l /\ 1 <= h + n /\ 2 <= h + n
      BY ONLY <1>4, <1>9, <1>12, n \in Nat, l \in Nat
    <3> QED
      BY ONLY <1>8, <3>1
  <2>2. /\ buf[1].fin = s.frame.fin /\ buf[1].opcode = s.frame.opcode
        /\ buf[2].code = Code(n) /\ buf[2].masked = s.masked
    BY ONLY <1>4, <2>1 DEF Laid, FirstOf, SecondOf
  <2>3. PICK len : len = IF e = 0 THEN Code(n) ELSE Number(SubSeq(buf, 3, 2 + e))
    OBVIOUS
  <2>4. PICK key, bytes : key = SubSeq(buf, h - 4 + 1, h) /\ bytes = SubSeq(buf, h + 1, h + len)
    OBVIOUS
  <2>5. decode(buf) =
          IF l < 2 + e \/ l < h \/ l < (h + len) % SizeT THEN NeedMore
          ELSE [consumed |-> (h + len) % SizeT,
                frame    |-> [fin |-> s.frame.fin, opcode |-> s.frame.opcode,
                              payload |-> IF s.masked THEN Mask(bytes, key) ELSE bytes]]
    <3>1. ~ (l < 2)
      BY ONLY <1>12, l \in Nat
    <3>2. PICK code, ext :
            /\ code = buf[2].code
            /\ ext = IF code = Short + 1 THEN Mid ELSE IF code = Short + 2 THEN Long ELSE 0
      OBVIOUS
    <3>3. PICK offset, number :
            /\ offset = 2 + ext + (IF buf[2].masked THEN KeyLen ELSE 0)
            /\ number = IF ext = 0 THEN code ELSE Number(SubSeq(buf, 3, 2 + ext))
      OBVIOUS
    <3>4. decode(buf) =
            IF Len(buf) < 2 + ext \/ Len(buf) < offset \/ Len(buf) < (offset + number) % SizeT
            THEN NeedMore
            ELSE [consumed |-> (offset + number) % SizeT,
                  frame    |-> [fin |-> buf[1].fin, opcode |-> buf[1].opcode,
                                payload |->
                                  IF buf[2].masked
                                  THEN Mask(SubSeq(buf, offset + 1, offset + number),
                                            SubSeq(buf, offset - KeyLen + 1, offset))
                                  ELSE SubSeq(buf, offset + 1, offset + number)]]
      BY ONLY <1>7, <3>1, <3>2, <3>3 DEF decode
    <3>5. ext = e
      BY ONLY <1>6, <2>2, <3>2
    <3>6. offset = h
      BY ONLY <1>2, <1>4, <2>2, <3>3, <3>5
    <3>7. number = len
      BY ONLY <2>2, <2>3, <3>2, <3>3, <3>5
    <3> QED
      BY ONLY <1>2, <1>7, <2>2, <2>4, <3>4, <3>5, <3>6, <3>7
  <2>6. CASE l < 2 + e
    <3>1. decode(buf) = NeedMore
      BY ONLY <2>5, <2>6
    <3>2. l < h + n
      BY ONLY <1>4, <1>6, <1>9, <2>6, n \in Nat, l \in Nat
    <3> QED
      BY ONLY <1>10, <3>1, <3>2
  <2>7. CASE ~ (l < 2 + e)
    <3>1. len = n
      <4>1. CASE e = 0
        BY ONLY <1>6, <2>3, <4>1
      <4>2. CASE e # 0
        <5>1. PICK d : d = Digits(n, e)
          OBVIOUS
        <5>2. d \in Seq(Bytes) /\ Len(d) = e
          <6>1. d \in Seq(Nat) /\ Len(d) = e
            BY ONLY <1>6, <5>1, DigitsType, n \in Nat
          <6>2. Nat \subseteq Bytes
            BY DEF Bytes
          <6> QED
            BY ONLY <6>1, <6>2, SeqMonotonic
        <5>3. ASSUME NEW i \in 1..e PROVE buf[2 + i] = d[i]
          <6>1. 2 + i \in 1..l /\ 2 + i <= h + n
            BY ONLY <1>4, <1>6, <1>9, <2>7, n \in Nat, l \in Nat, i \in 1..e
          <6>2. w[2 + i] = d[i]
            BY ONLY <1>4, <5>1, i \in 1..e DEF Laid
          <6> QED
            BY ONLY <1>8, <6>1, <6>2
        <5>4. SubSeq(buf, 2 + 1, 2 + e) = d
          <6>1. 2 \in Nat /\ 2 + e \in Nat /\ 2 + e = 2 + Len(d) /\ 2 + e <= Len(buf)
            BY ONLY <1>6, <1>7, <2>7, <5>2, l \in Nat
          <6>2. \A i \in 1..Len(d) : buf[2 + i] = d[i]
            BY ONLY <5>2, <5>3
          <6> QED
            BY ONLY <5>2, <6>1, <6>2, PieceOf, buf \in Seq(Bytes)
        <5>5. 2 + 1 = 3
          OBVIOUS
        <5>6. len = Number(d)
          BY ONLY <2>3, <4>2, <5>4, <5>5
        <5>7. Number(d) = n
          BY ONLY <1>5, <1>6, <4>2, <5>1, NumberOfDigits, n \in Nat
        <5> QED
          BY <5>6, <5>7
      <4> QED
        BY <4>1, <4>2
    <3>2. (h + len) % SizeT = h + n
      <4>1. PICK size \in Nat, t \in Nat : size = SizeT /\ t = h + n /\ t < size
        <5>1. h + n \in Nat
          BY ONLY <1>4, n \in Nat
        <5> QED
          BY ONLY <1>2, <1>4, <5>1
      <4>2. t = size * 0 + t
        OBVIOUS
      <4>3. t % size = t
        BY ONLY <4>1, <4>2, Quotient, t \in Nat, size \in Nat
      <4> QED
        BY ONLY <3>1, <4>1, <4>3
    <3>3. CASE l < h + n
      BY ONLY <1>10, <2>5, <3>2, <3>3
    <3>4. CASE ~ (l < h + n)
      <4>1. PICK d : d = Data(s)
        OBVIOUS
      <4>2. d \in Seq({0, 1}) /\ Len(d) = n
        BY ONLY <1>1, <4>1, DataIs, s \in Sent
      <4>3. {0, 1} \subseteq Bytes
        BY DEF Bytes
      <4>4. d \in Seq(Bytes)
        BY ONLY <4>2, <4>3, SeqMonotonic
      <4>5. bytes = d
        <5>1. ASSUME NEW i \in 1..n PROVE buf[h + i] = d[i]
          <6>1. h + i \in 1..l /\ h + i <= h + n
            BY ONLY <1>4, <3>4, n \in Nat, l \in Nat, i \in 1..n
          <6>2. w[h + i] = d[i]
            BY ONLY <1>4, <4>1, i \in 1..n DEF Laid
          <6> QED
            BY ONLY <1>8, <6>1, <6>2
        <5>2. h \in Nat /\ h + n \in Nat /\ h + n = h + Len(d) /\ h + n <= Len(buf)
          BY ONLY <1>4, <1>7, <3>4, <4>2, n \in Nat, l \in Nat
        <5>3. \A i \in 1..Len(d) : buf[h + i] = d[i]
          BY ONLY <4>2, <5>1
        <5>4. SubSeq(buf, h + 1, h + n) = d
          BY ONLY <4>4, <5>2, <5>3, PieceOf, buf \in Seq(Bytes)
        <5> QED
          BY ONLY <2>4, <3>1, <5>4
      <4>6. ASSUME s.masked PROVE key = Key
        <5>1. PICK o \in Nat : o = 2 + e /\ h = o + 4 /\ h - 4 = o
          <6>1. h = (2 + e) + 4 /\ 2 + e \in Nat /\ h - 4 = 2 + e
            <7>1. h = 2 + e + 4
              BY ONLY <1>4, <4>6
            <7> QED
              BY ONLY <1>6, <7>1
          <6> QED
            BY ONLY <6>1
        <5>2. PICK k : k = Key
          OBVIOUS
        <5>3. k \in Seq(Bytes) /\ Len(k) = 4
          BY ONLY <1>2, <4>3, <5>2, KeyIs, SeqMonotonic
        <5>4. ASSUME NEW i \in 1..4 PROVE buf[o + i] = k[i]
          <6>1. o + i \in 1..l /\ o + i <= h + n
            BY ONLY <3>4, <5>1, n \in Nat, l \in Nat, i \in 1..4, o \in Nat
          <6>2. w[(2 + e) + i] = k[i]
            BY ONLY <1>2, <1>4, <4>6, <5>2, i \in 1..4 DEF Laid
          <6> QED
            BY ONLY <1>8, <5>1, <6>1, <6>2
        <5>5. h \in Nat /\ h = o + Len(k) /\ h <= Len(buf)
          BY ONLY <1>4, <1>7, <3>4, <5>1, <5>3, n \in Nat, l \in Nat
        <5>6. \A i \in 1..Len(k) : buf[o + i] = k[i]
          BY ONLY <5>3, <5>4
        <5>7. SubSeq(buf, o + 1, h) = k
          BY ONLY <5>3, <5>5, <5>6, PieceOf, buf \in Seq(Bytes), o \in Nat
        <5> QED
          BY ONLY <2>4, <5>1, <5>2, <5>7
      <4>7. (IF s.masked THEN Mask(bytes, key) ELSE bytes) = s.frame.payload
        <5>1. CASE s.masked
          <6>1. d = Mask(s.frame.payload, Key)
            BY ONLY <4>1, <5>1 DEF Data
          <6>2. Mask(Mask(s.frame.payload, Key), Key) = s.frame.payload
            BY DataIs
          <6> QED
            BY ONLY <4>5, <4>6, <5>1, <6>1, <6>2
        <5>2. CASE ~ s.masked
          BY ONLY <4>1, <4>5, <5>2 DEF Data
        <5> QED
          BY <5>1, <5>2
      <4>8. s.frame = [fin |-> s.frame.fin, opcode |-> s.frame.opcode,
                       payload |-> s.frame.payload]
        BY DEF Sent
      <4>9. ~ (l < h)
        BY ONLY <1>4, <3>4, n \in Nat, l \in Nat
      <4>10. decode(buf) = [consumed |-> h + n, frame |-> s.frame]
        BY ONLY <2>5, <2>7, <3>2, <3>4, <4>7, <4>8, <4>9
      <4> QED
        BY ONLY <1>10, <3>4, <4>10
    <3> QED
      BY <3>3, <3>4
  <2> QED
    BY <2>6, <2>7
<1> QED
  BY <1>11, <1>12

\* What decode is given: two frames, up to somewhere.
WireInput ==
  subject.parser = "decode" =>
    /\ subject.first \in Sent /\ subject.second \in Sent
    /\ \E n \in Nat : LET w == Wire(subject.first) \o Wire(subject.second)
                      IN  n <= Len(w) /\ input = SubSeq(w, 1, n)

\* The frames of MCParsers are such.
LEMMA SentFramesAre == SentFrames \subseteq Sent
<1> SUFFICES ASSUME NEW s \in SentFrames PROVE s \in Sent
  OBVIOUS
<1>1. PICK fin \in BOOLEAN, op \in Opcodes, n \in 0..MaxPayload, m \in BOOLEAN :
        s = [frame |-> [fin |-> fin, opcode |-> op, payload |-> Payload(n)], masked |-> m]
  BY DEF SentFrames
<1>2. PICK p : p = Payload(n)
  OBVIOUS
<1>3. /\ MaxPayload \in Nat /\ Long \in Nat /\ KeyLen \in Nat /\ SizeT \in Nat
      /\ 2 + Long + KeyLen + MaxPayload < SizeT
  BY FramesAssumption, CodecAssumption, PowerType DEF SizeT, KeyLen
<1>4. p \in Seq({0, 1}) /\ Len(p) = n
  <2>1. \A i \in 1..n : (IF i % 3 = 0 THEN 1 ELSE (i \div 4) % 2) \in {0, 1}
    OBVIOUS
  <2> QED
    BY ONLY <1>2, <1>3, <2>1, n \in 0..MaxPayload DEF Payload
<1>5. 2 + Long + KeyLen + Len(p) < SizeT
  BY ONLY <1>3, <1>4, n \in 0..MaxPayload
<1> QED
  BY <1>1, <1>2, <1>4, <1>5 DEF Sent

\* One more byte arrives.
LEMMA WireInputHolds == Inputs => []WireInput
<1>1. Start => WireInput
  <2> SUFFICES ASSUME Start, subject.parser = "decode" PROVE WireInput
    BY DEF WireInput
  <2>1. PICK s \in SentFrames, t \in SentFrames :
          subject = [parser |-> "decode", first |-> s, second |-> t] /\ input = <<>>
    BY DEF Start, SealedMessages
  <2>2. s \in Sent /\ t \in Sent
    BY SentFramesAre
  <2>3. PICK w : w = Wire(s) \o Wire(t)
    OBVIOUS
  <2>4. w \in Seq(Bytes)
    BY <2>2, <2>3, WireIs, ConcatProperties
  <2>5. 0 \in Nat /\ 0 <= Len(w) /\ input = SubSeq(w, 1, 0)
    BY <2>1, <2>4, SubSeqEmpty, LenProperties
  <2> QED
    BY <2>1, <2>2, <2>3, <2>5 DEF WireInput
<1>2. WireInput /\ [Extend]_inputs => WireInput'
  <2> SUFFICES ASSUME WireInput, [Extend]_inputs, (subject.parser = "decode")'
               PROVE  WireInput'
    BY DEF WireInput
  <2>1. CASE Extend
    <3>1. ExtendWire
      BY <2>1 DEF Extend, ExtendPath, ExtendWire, ExtendHeader,
                  ExtendQuery, ExtendCalls, ExtendSealed, ExtendText
    <3>2. PICK w : w = Wire(subject.first) \o Wire(subject.second)
      OBVIOUS
    <3>3. /\ subject.parser = "decode" /\ subject' = subject
          /\ Len(input) < Len(w) /\ input' = Append(input, w[Len(input) + 1])
      BY <3>1, <3>2 DEF ExtendWire
    <3>4. subject.first \in Sent /\ subject.second \in Sent
      BY <3>3 DEF WireInput
    <3>5. PICK n \in Nat : n <= Len(w) /\ input = SubSeq(w, 1, n)
      BY <3>2, <3>3 DEF WireInput
    <3>6. w \in Seq(Bytes)
      BY <3>2, <3>4, WireIs, ConcatProperties
    <3>7. Len(input) = n
      BY <3>5, <3>6, FrontCut
    <3>8. n + 1 \in Nat /\ n + 1 <= Len(w) /\ input' = SubSeq(w, 1, n + 1)
      <4>1. n + 1 <= Len(w) /\ Len(w) \in Nat
        BY <3>3, <3>6, <3>7, LenProperties
      <4>2. Append(SubSeq(w, 1, n), w[n + 1]) = SubSeq(w, 1, n + 1)
        <5>1. n + 1 \in 1..Len(w) /\ 1 \in 1..Len(w) /\ (n + 1) - 1 = n
          BY <4>1
        <5>2. w[n + 1] \in Bytes /\ SubSeq(w, 1, n) \in Seq(Bytes)
          BY <3>5, <3>6, <5>1, ElementOfSeq, FrontCut
        <5>3. SubSeq(w, 1, n + 1) = SubSeq(w, 1, (n + 1) - 1) \o <<w[n + 1]>>
          BY <3>6, <5>1, SubSeqRecursiveSecond
        <5> QED
          BY ONLY <5>1, <5>2, <5>3, AppendIsConcat
      <4> QED
        BY <3>3, <3>5, <3>7, <4>1, <4>2
    <3> QED
      BY <3>2, <3>3, <3>4, <3>8 DEF WireInput
  <2>2. CASE UNCHANGED inputs
    BY <2>2 DEF inputs, WireInput
  <2> QED
    BY <2>1, <2>2
<1> QED
  BY <1>1, <1>2, PTL DEF Inputs

\* Two frames, one behind the other, and any part of them.
LEMMA TwoFrames ==
  ASSUME NEW s \in Sent, NEW t \in Sent, NEW n \in Nat, n <= Len(Wire(s) \o Wire(t))
  PROVE  LET buf == SubSeq(Wire(s) \o Wire(t), 1, n)
         IN  /\ Yields(buf, s)
             /\ Len(buf) >= Len(Wire(s)) =>
                  Yields(SubSeq(buf, decode(buf).consumed + 1, Len(buf)), t)
<1>1. PICK u \in Seq(Bytes), v \in Seq(Bytes) : u = Wire(s) /\ v = Wire(t)
  BY WireIs
<1>2. PICK k \in Nat, m \in Nat : k = Len(u) /\ m = Len(v)
  BY LenProperties
<1>3. PICK w : w = u \o v
  OBVIOUS
<1>4. /\ w \in Seq(Bytes) /\ Len(w) = k + m
      /\ \A i \in 1..k : w[i] = u[i]
      /\ \A i \in 1..m : w[k + i] = v[i]
  <2>1. PICK S : S = Bytes
    OBVIOUS
  <2>2. u \in Seq(S) /\ v \in Seq(S)
    BY ONLY <2>1, u \in Seq(Bytes), v \in Seq(Bytes)
  <2>3. /\ u \o v \in Seq(S) /\ Len(u \o v) = Len(u) + Len(v)
        /\ \A i \in 1..Len(u) : (u \o v)[i] = u[i]
        /\ \A i \in 1..Len(v) : (u \o v)[Len(u) + i] = v[i]
    BY ONLY <2>2, Behind
  <2> QED
    BY ONLY <1>2, <1>3, <2>1, <2>3
<1>5. PICK buf : buf = SubSeq(w, 1, n)
  OBVIOUS
<1>6. n <= k + m
  BY <1>1, <1>3, <1>4
<1>7. buf \in Seq(Bytes) /\ Len(buf) = n /\ \A i \in 1..n : buf[i] = w[i]
  BY ONLY <1>4, <1>5, <1>6, FrontCut, n \in Nat
<1>8. Yields(buf, s)
  <2>1. ASSUME NEW i \in 1..n, i <= k PROVE buf[i] = u[i]
    <3>1. i \in 1..k
      BY ONLY <2>1, i \in 1..n, n \in Nat, k \in Nat
    <3> QED
      BY ONLY <1>4, <1>7, <3>1, i \in 1..n
  <2>2. \A i \in 1..Len(buf) : i <= Len(Wire(s)) => buf[i] = Wire(s)[i]
    BY ONLY <1>1, <1>2, <1>7, <2>1
  <2> QED
    BY ONLY <1>7, <2>2, DecodeIs, s \in Sent
<1>9. ASSUME n >= k
      PROVE  Yields(SubSeq(buf, decode(buf).consumed + 1, Len(buf)), t)
  <2>1. decode(buf).consumed = k
    <3>1. ~ (n < k)
      BY ONLY <1>9, n \in Nat, k \in Nat
    <3>2. decode(buf) = [consumed |-> k, frame |-> s.frame]
      BY ONLY <1>1, <1>2, <1>7, <1>8, <3>1 DEF Yields
    <3> QED
      BY ONLY <3>2
  <2>2. PICK j \in Nat : j = n - k /\ n = k + j
    <3>1. n - k \in Nat /\ n = k + (n - k)
      BY <1>9
    <3> QED
      BY <3>1
  <2>3. PICK rest : rest = SubSeq(buf, k + 1, n)
    OBVIOUS
  <2>4. rest \in Seq(Bytes) /\ Len(rest) = j /\ \A i \in 1..j : rest[i] = buf[k + i]
    <3>1. k <= n /\ n <= Len(buf)
      BY <1>7, <1>9
    <3> QED
      BY ONLY <1>7, <2>2, <2>3, <3>1, Slice, k \in Nat, n \in Nat
  <2>5. ASSUME NEW i \in 1..j, i <= m PROVE rest[i] = v[i]
    <3>1. i \in 1..m /\ k + i \in 1..n
      BY ONLY <2>2, <2>5, i \in 1..j, j \in Nat, m \in Nat, k \in Nat
    <3> QED
      BY ONLY <1>4, <1>7, <2>4, <3>1, i \in 1..j
  <2>6. \A i \in 1..Len(rest) : i <= Len(Wire(t)) => rest[i] = Wire(t)[i]
    BY ONLY <1>1, <1>2, <2>4, <2>5
  <2>7. Yields(rest, t)
    BY ONLY <2>4, <2>6, DecodeIs, t \in Sent
  <2> QED
    BY ONLY <1>7, <2>1, <2>3, <2>7
<1> QED
  BY ONLY <1>1, <1>2, <1>3, <1>5, <1>7, <1>8, <1>9

\* FramesComeOut: of two frames one behind the other, from a server or a
\* client, decode gives each when it is whole and not before, with the payload
\* that went in and as many bytes as it has (websocket.hpp:186-255,
\* websocket_client.cpp:28-55), for bytes, length forms and payloads of any size.
THEOREM FramesComeOutHolds == Inputs => []FramesComeOut
<1>1. WireInput => FramesComeOut
  <2> SUFFICES ASSUME WireInput, subject.parser = "decode" PROVE FramesComeOut
    BY DEF FramesComeOut
  <2>1. PICK s \in Sent, t \in Sent : s = subject.first /\ t = subject.second
    BY DEF WireInput
  <2>2. PICK n \in Nat : n <= Len(Wire(s) \o Wire(t)) /\ input = SubSeq(Wire(s) \o Wire(t), 1, n)
    BY <2>1 DEF WireInput
  <2>3. /\ Yields(input, s)
        /\ Len(input) >= Len(Wire(s)) =>
             Yields(SubSeq(input, decode(input).consumed + 1, Len(input)), t)
    BY ONLY <2>2, TwoFrames, s \in Sent, t \in Sent, n \in Nat
  <2> QED
    BY ONLY <2>1, <2>3 DEF FramesComeOut
<1> QED
  BY <1>1, WireInputHolds, PTL

(***************************************************************************)
(* Bytes as text.  FlattenSeq puts the digits of all bytes, or of all      *)
(* groups of three, one behind the other; digit by digit, group by group,  *)
(* the number they are stays the number the bytes are.                     *)
(***************************************************************************)
\* Pieces of one length, one behind the other, are found by counting.
LEMMA EqualPieces ==
  ASSUME NEW S, NEW s \in Seq(Seq(S)), NEW l \in {2, 4},
         \A j \in 1..Len(s) : Len(s[j]) = l
  PROVE  /\ FlattenSeq(s) \in Seq(S) /\ Len(FlattenSeq(s)) = l * Len(s)
         /\ \A j \in 1..Len(s), c \in 1..l : FlattenSeq(s)[l * (j - 1) + c] = s[j][c]
<1>1. PICK n \in Nat : n = Len(s)
  BY LenProperties
<1>2. CASE n = 0
  <2>1. s = <<>>
    BY <1>1, <1>2, EmptySeq
  <2>2. FlattenSeq(s) = s
    BY <1>1, <1>2 DEF FlattenSeq
  <2>3. s \in Seq(S) /\ Len(s) = 0
    BY <2>1, EmptySeq
  <2> QED
    BY <2>2, <2>3
<1>3. CASE n # 0
  <2>1. PICK f : Flattening(s, n, f) /\ FlattenSeq(s) = f[n]
    BY <1>1, <1>3, FlattenIs
  <2> DEFINE Holds(k) == /\ f[k] \in Seq(S) /\ Len(f[k]) = l * k
                         /\ \A j \in 1..k, c \in 1..l : f[k][l * (j - 1) + c] = s[j][c]
             T == {k \in Nat : k + 1 <= n => Holds(k + 1)}
  <2>2. ASSUME NEW k \in 1..n
        PROVE  f[k] = (IF k = 1 THEN s[k] ELSE f[k - 1] \o s[k]) /\ s[k] \in Seq(S) /\ Len(s[k]) = l
    <3>1. f[k] = IF k = 1 THEN s[k] ELSE f[k - 1] \o s[k]
      BY ONLY <2>1, k \in 1..n DEF Flattening
    <3>2. k \in 1..Len(s)
      BY <1>1
    <3> QED
      BY <3>1, <3>2, ElementOfSeq
  <2>3. 0 \in T
    <3> SUFFICES Holds(1)
      OBVIOUS
    <3>1. 1 \in 1..n
      BY <1>3
    <3>2. f[1] = s[1] /\ s[1] \in Seq(S) /\ Len(s[1]) = l
      BY <2>2, <3>1
    <3>3. ASSUME NEW j \in 1..1, NEW c \in 1..l PROVE f[1][l * (j - 1) + c] = s[j][c]
      <4>1. j = 1 /\ l * (j - 1) + c = c
        OBVIOUS
      <4> QED
        BY <3>2, <4>1
    <3> QED
      BY <3>2, <3>3
  <2>4. ASSUME NEW k \in T PROVE k + 1 \in T
    <3> SUFFICES ASSUME k + 2 <= n PROVE Holds(k + 2)
      <4>1. (k + 1) + 1 = k + 2 /\ k + 1 \in Nat
        OBVIOUS
      <4> QED
        BY <4>1
    <3>0. k \in Nat
      OBVIOUS
    <3>1. k + 1 \in Nat /\ k + 2 \in 1..n /\ k + 2 # 1 /\ (k + 2) - 1 = k + 1
      BY <1>1
    <3>2. Holds(k + 1)
      BY <3>1
    <3>3. PICK a \in Seq(S), b \in Seq(S) :
            a = f[k + 1] /\ b = s[k + 2] /\ f[k + 2] = a \o b
            /\ Len(a) = l * (k + 1) /\ Len(b) = l
      BY <2>2, <3>1, <3>2
    <3>4. a \o b \in Seq(S) /\ Len(a \o b) = l * (k + 2)
      <4>1. l * (k + 1) + l = l * (k + 2)
        BY ONLY <3>0, l \in {2, 4}
      <4>2. a \o b \in Seq(S) /\ Len(a \o b) = Len(a) + Len(b)
        BY ConcatProperties
      <4> QED
        BY ONLY <3>3, <4>1, <4>2
    <3>5. ASSUME NEW j \in 1..(k + 2), NEW c \in 1..l PROVE (a \o b)[l * (j - 1) + c] = s[j][c]
      <4>1. PICK i \in Nat, m \in Nat : i = l * (j - 1) + c /\ m = l * (k + 1)
        <5>1. l * (j - 1) + c \in Nat /\ l * (k + 1) \in Nat
          BY ONLY <3>0, l \in {2, 4}, j \in 1..(k + 2), c \in 1..l
        <5> QED
          BY <5>1
      <4>2. (a \o b)[i] = IF i <= m THEN a[i] ELSE b[i - m]
        <5>1. i \in 1..(m + l)
          <6>1. CASE l = 2
            BY ONLY <4>1, <3>0, <6>1, j \in 1..(k + 2), c \in 1..l
          <6>2. CASE l = 4
            BY ONLY <4>1, <3>0, <6>2, j \in 1..(k + 2), c \in 1..l
          <6> QED
            BY <6>1, <6>2
        <5>2. i \in 1..(Len(a) + Len(b))
          BY ONLY <3>3, <4>1, <5>1
        <5>3. (a \o b)[i] = IF i <= Len(a) THEN a[i] ELSE b[i - Len(a)]
          BY <5>2, ConcatProperties
        <5> QED
          BY ONLY <3>3, <4>1, <5>3
      <4>3. CASE j = k + 2
        <5>1. ~ (i <= m) /\ i - m = c
          BY ONLY <4>1, <4>3, <3>0, l \in {2, 4}, c \in 1..l
        <5> QED
          BY ONLY <3>3, <4>1, <4>2, <4>3, <5>1
      <4>4. CASE j # k + 2
        <5>1. j \in 1..(k + 1) /\ i <= m
          BY ONLY <4>1, <4>4, <3>0, l \in {2, 4}, j \in 1..(k + 2), c \in 1..l
        <5>2. (a \o b)[i] = a[i]
          BY ONLY <4>2, <5>1
        <5>3. a[i] = s[j][c]
          BY ONLY <3>2, <3>3, <4>1, <5>1, c \in 1..l
        <5> QED
          BY ONLY <4>1, <5>2, <5>3
      <4> QED
        BY <4>3, <4>4
    <3>6. PICK w : w = a \o b
      OBVIOUS
    <3>7. f[k + 2] = w /\ w \in Seq(S) /\ Len(w) = l * (k + 2)
      BY ONLY <3>3, <3>4, <3>6
    <3>8. \A j \in 1..(k + 2), c \in 1..l : w[l * (j - 1) + c] = s[j][c]
      BY ONLY <3>5, <3>6
    <3> QED
      BY ONLY <3>7, <3>8
  <2>5. T = Nat
    <3> HIDE DEF T
    <3>1. T \subseteq Nat
      BY DEF T
    <3> QED
      BY <2>3, <2>4, <3>1, SetInduction
  <2>6. Holds(n)
    <3>1. n - 1 \in Nat /\ (n - 1) + 1 = n /\ n <= n
      BY <1>3
    <3>2. n - 1 \in T
      BY ONLY <2>5, <3>1
    <3>3. Holds((n - 1) + 1)
      BY <3>1, <3>2
    <3> QED
      BY ONLY <3>1, <3>3
  <2> QED
    BY <1>1, <2>1, <2>6
<1> QED
  BY <1>2, <1>3

\* What Value computes, digit by digit.
Weighs(digits, base, n, f) ==
  f = [i \in 0..n |-> IF i = 0 THEN 0 ELSE f[i - 1] * base + digits[i]]

\* There are such sums, for any number of digits.
LEMMA WeighsExist ==
  ASSUME NEW digits, NEW base, NEW n \in Nat
  PROVE  \E f : Weighs(digits, base, n, f)
<1> DEFINE T == {k \in Nat : \E f : Weighs(digits, base, k, f)}
<1>1. 0 \in T
  <2>1. Weighs(digits, base, 0, [i \in 0..0 |-> 0])
    BY DEF Weighs
  <2> QED
    BY <2>1
<1>2. ASSUME NEW k \in T PROVE k + 1 \in T
  <2>1. PICK f : Weighs(digits, base, k, f)
    OBVIOUS
  <2> DEFINE g == [i \in 0..(k + 1) |-> IF i \in 0..k THEN f[i] ELSE f[k] * base + digits[i]]
  <2>2. ASSUME NEW i \in 0..(k + 1)
        PROVE  g[i] = IF i = 0 THEN 0 ELSE g[i - 1] * base + digits[i]
    <3>1. CASE i = 0
      BY <2>1, <3>1 DEF Weighs
    <3>2. CASE i # 0 /\ i \in 0..k
      <4>1. i - 1 \in 0..k /\ i - 1 \in 0..(k + 1)
        BY <3>2
      <4>2. g[i] = f[i] /\ g[i - 1] = f[i - 1]
        BY <3>2, <4>1
      <4>3. f[i] = f[i - 1] * base + digits[i]
        BY <2>1, <3>2 DEF Weighs
      <4> QED
        BY <3>2, <4>2, <4>3
    <3>3. CASE i # 0 /\ i \notin 0..k
      <4>1. i - 1 = k /\ k \in 0..k /\ k \in 0..(k + 1)
        BY <3>3
      <4>2. g[i] = f[k] * base + digits[i] /\ g[i - 1] = f[k]
        BY <3>3, <4>1
      <4> QED
        BY <3>3, <4>2
    <3> QED
      BY <3>1, <3>2, <3>3
  <2>3. Weighs(digits, base, k + 1, g)
    BY <2>2 DEF Weighs
  <2> QED
    BY <2>3
<1>3. T = Nat
  <2> HIDE DEF T
  <2>1. T \subseteq Nat
    BY DEF T
  <2> QED
    BY <1>1, <1>2, <2>1, SetInduction
<1> QED
  BY <1>3

\* The value of a number, and of the digits it starts with.
Totals(digits, base, f) ==
  /\ Value(digits, base) = f[Len(digits)] /\ f[0] = 0
  /\ \A k \in 0..Len(digits) : f[k] \in Nat
  /\ \A k \in 1..Len(digits) : f[k] = f[k - 1] * base + digits[k]

\* Value computes them.
LEMMA ValueIs ==
  ASSUME NEW S, S \subseteq Nat, NEW digits \in Seq(S), NEW base \in Nat
  PROVE  \E f : Totals(digits, base, f)
<1>1. PICK n \in Nat : n = Len(digits)
  BY LenProperties
<1> DEFINE f == CHOOSE f : Weighs(digits, base, n, f)
<1>2. Weighs(digits, base, n, f)
  BY WeighsExist
<1>3. Value(digits, base) = f[n]
  BY <1>1 DEF Value, Weighs
<1> HIDE DEF f
<1>4. f[0] = 0 /\ \A k \in 1..n : f[k] = f[k - 1] * base + digits[k]
  <2>1. \A k \in 0..n : f[k] = IF k = 0 THEN 0 ELSE f[k - 1] * base + digits[k]
    BY ONLY <1>2 DEF Weighs
  <2>2. 0 \in 0..n /\ \A k \in 1..n : k \in 0..n /\ k # 0
    OBVIOUS
  <2> QED
    BY <2>1, <2>2
<1> DEFINE T == {k \in Nat : k <= n => f[k] \in Nat}
<1>5. 0 \in T
  BY <1>4
<1>6. ASSUME NEW k \in T PROVE k + 1 \in T
  <2> SUFFICES ASSUME k + 1 <= n PROVE f[k + 1] \in Nat
    OBVIOUS
  <2>1. k + 1 \in 1..n /\ (k + 1) - 1 = k /\ f[k] \in Nat
    OBVIOUS
  <2>2. digits[k + 1] \in Nat
    BY <1>1, <2>1, ElementOfSeq
  <2>3. f[k] * base \in Nat
    BY <2>1, Product
  <2>4. f[k + 1] = f[k] * base + digits[k + 1]
    BY <1>4, <2>1
  <2> QED
    BY <2>2, <2>3, <2>4
<1>7. T = Nat
  <2> HIDE DEF T
  <2>1. T \subseteq Nat
    BY DEF T
  <2> QED
    BY <1>5, <1>6, <2>1, SetInduction
<1>8. \A k \in 0..n : f[k] \in Nat
  BY <1>7
<1> QED
  BY <1>1, <1>3, <1>4, <1>8 DEF Totals

\* A digit below q behind one below p.
LEMMA Below ==
  ASSUME NEW p \in Nat, NEW q \in Nat, NEW a \in Nat, NEW b \in Nat, a < p, b < q
  PROVE  a * q + b \in Nat /\ a * q + b < p * q
<1>1. PICK m \in Nat : p = a + 1 + m
  <2>1. p - (a + 1) \in Nat /\ p = a + 1 + (p - (a + 1))
    OBVIOUS
  <2> QED
    BY <2>1
<1>2. p * q = a * q + q + m * q
  BY <1>1
<1>3. PICK x \in Nat, y \in Nat : x = a * q /\ y = m * q
  BY Product
<1>4. p * q = x + q + y
  BY ONLY <1>2, <1>3
<1> QED
  BY ONLY <1>3, <1>4, b < q, b \in Nat, q \in Nat

\* What is left of a number below d * k when its last digit goes.
LEMMA Above ==
  ASSUME NEW d \in Nat, NEW k \in Nat, NEW q \in Nat, NEW r \in Nat, d * q + r < d * k
  PROVE  q < k
<1> SUFFICES ASSUME ~ (q < k) PROVE FALSE
  OBVIOUS
<1>1. PICK m \in Nat : q = k + m
  <2>1. q - k \in Nat /\ q = k + (q - k)
    OBVIOUS
  <2> QED
    BY <2>1
<1>2. d * q = d * k + d * m
  BY <1>1
<1>3. PICK x \in Nat, y \in Nat : x = d * k /\ y = d * m
  BY Product
<1>4. d * q = x + y
  BY ONLY <1>2, <1>3
<1> QED
  BY ONLY <1>3, <1>4, d * q + r < d * k, r \in Nat

\* The values of a byte.
Octet == 0..(Byte - 1)

\* The sizes of the alphabets, and the bytes of MCParsers.
LEMMA OctetIs ==
  /\ Byte \in Nat /\ Digit \in Nat /\ Digit > 0 /\ Nibble \in Nat /\ Nibble > 0
  /\ Octet \subseteq Nat /\ \A x \in Octet : x \in Nat /\ x < Byte
  /\ {0, 1, Nibble, Byte - 1} \subseteq Octet
<1>1. Byte \in Nat /\ Digit \in Nat \ {0} /\ Nibble \in Nat \ {0, 1} /\ Byte = Nibble * Nibble
  BY TextCodecAssumption
<1>2. Digit > 0 /\ Nibble > 0 /\ 0 < Nibble /\ 1 < Nibble
  BY ONLY <1>1
<1>3. 1 * Nibble + 0 < Nibble * Nibble
  BY ONLY <1>1, <1>2, Below, 0 \in Nat, 1 \in Nat
<1>4. Nibble < Byte /\ 1 < Byte
  BY ONLY <1>1, <1>2, <1>3
<1> QED
  BY ONLY <1>1, <1>2, <1>4 DEF Octet

\* What to_hex makes of the bytes.
LEMMA HexIs ==
  ASSUME NEW X \in Seq(Octet)
  PROVE  /\ to_hex(X) \in Seq(Nat) /\ Len(to_hex(X)) = 2 * Len(X)
         /\ \A i \in 1..Len(X) : to_hex(X)[2 * (i - 1) + 1] = X[i] \div Nibble
                                 /\ to_hex(X)[2 * (i - 1) + 2] = X[i] % Nibble
<1>1. PICK n \in Nat : n = Len(X)
  BY LenProperties
<1> DEFINE s == [i \in 1..Len(X) |-> <<X[i] \div Nibble, X[i] % Nibble>>]
<1>2. ASSUME NEW i \in 1..Len(X)
      PROVE  s[i] \in Seq(Nat) /\ Len(s[i]) = 2
             /\ s[i][1] = X[i] \div Nibble /\ s[i][2] = X[i] % Nibble
  <2>1. X[i] \in Nat
    BY ElementOfSeq, OctetIs
  <2>2. PICK a \in Nat, b \in Nat : a = X[i] \div Nibble /\ b = X[i] % Nibble
    BY <2>1, OctetIs, Division
  <2>3. s[i] = <<a, b>>
    BY <2>2
  <2>4. <<a, b>> \in Seq(Nat) /\ Len(<<a, b>>) = 2 /\ <<a, b>>[1] = a /\ <<a, b>>[2] = b
    BY ONLY a \in Nat, b \in Nat
  <2> QED
    BY ONLY <2>2, <2>3, <2>4
<1>3. s \in Seq(Seq(Nat)) /\ Len(s) = n
  <2>1. s = [i \in 1..n |-> s[i]] /\ \A i \in 1..n : s[i] \in Seq(Nat)
    BY <1>1, <1>2
  <2> HIDE DEF s
  <2>2. [i \in 1..n |-> s[i]] \in Seq(Seq(Nat)) /\ Len([i \in 1..n |-> s[i]]) = n
    BY ONLY <2>1, n \in Nat, IsASeq
  <2> QED
    BY ONLY <2>1, <2>2
<1>4. to_hex(X) = FlattenSeq(s)
  BY DEF to_hex
<1> HIDE DEF s
<1>5. /\ FlattenSeq(s) \in Seq(Nat) /\ Len(FlattenSeq(s)) = 2 * Len(s)
      /\ \A j \in 1..Len(s), c \in 1..2 : FlattenSeq(s)[2 * (j - 1) + c] = s[j][c]
  <2>1. \A j \in 1..Len(s) : Len(s[j]) = 2
    BY <1>1, <1>2, <1>3
  <2>2. 2 \in {2, 4}
    OBVIOUS
  <2> QED
    BY <1>3, <2>1, <2>2, EqualPieces
<1>6. ASSUME NEW i \in 1..n
      PROVE  to_hex(X)[2 * (i - 1) + 1] = X[i] \div Nibble /\ to_hex(X)[2 * (i - 1) + 2] = X[i] % Nibble
  <2>1. 1 \in 1..2 /\ 2 \in 1..2
    OBVIOUS
  <2> QED
    BY ONLY <1>1, <1>2, <1>3, <1>4, <1>5, <2>1, i \in 1..n
<1> QED
  BY ONLY <1>1, <1>3, <1>4, <1>5, <1>6

\* Two hexadecimal digits are one byte.
LEMMA HexHasValue ==
  ASSUME NEW X \in Seq(Octet)
  PROVE  Value(to_hex(X), Nibble) = Value(X, Byte)
<1>1. PICK n \in Nat : n = Len(X)
  BY LenProperties
<1>2. PICK Y : Y = to_hex(X)
  OBVIOUS
<1>3. /\ Y \in Seq(Nat) /\ Len(Y) = 2 * n
      /\ \A i \in 1..n : Y[2 * (i - 1) + 1] = X[i] \div Nibble /\ Y[2 * (i - 1) + 2] = X[i] % Nibble
  BY <1>1, <1>2, HexIs
<1>4. PICK f : /\ Value(X, Byte) = f[n] /\ f[0] = 0 /\ \A k \in 0..n : f[k] \in Nat
               /\ \A k \in 1..n : f[k] = f[k - 1] * Byte + X[k]
  <2>1. \E f : Totals(X, Byte, f)
    BY OctetIs, ValueIs
  <2> QED
    BY ONLY <1>1, <2>1 DEF Totals
<1>5. PICK g : /\ Value(Y, Nibble) = g[2 * n] /\ g[0] = 0 /\ \A k \in 0..(2 * n) : g[k] \in Nat
               /\ \A k \in 1..(2 * n) : g[k] = g[k - 1] * Nibble + Y[k]
  <2>1. Nat \subseteq Nat
    OBVIOUS
  <2>2. \E g : Totals(Y, Nibble, g)
    BY <1>3, <2>1, OctetIs, ValueIs
  <2> QED
    BY ONLY <1>3, <2>2 DEF Totals
<1> DEFINE T == {k \in Nat : k <= n => g[2 * k] = f[k]}
<1>6. 0 \in T
  BY <1>4, <1>5
<1>7. ASSUME NEW k \in T PROVE k + 1 \in T
  <2>0. k \in Nat
    OBVIOUS
  <2> SUFFICES ASSUME k + 1 <= n PROVE g[2 * (k + 1)] = f[k + 1]
    BY <2>0
  <2>1. /\ k + 1 \in 1..n /\ (k + 1) - 1 = k /\ k \in 0..n
        /\ 2 * k + 1 \in 1..(2 * n) /\ 2 * k + 2 \in 1..(2 * n) /\ 2 * (k + 1) = 2 * k + 2
        /\ (2 * k + 1) - 1 = 2 * k /\ (2 * k + 2) - 1 = 2 * k + 1
    BY ONLY <2>0, k + 1 <= n, n \in Nat
  <2>2. g[2 * k] = f[k] /\ f[k] \in Nat
    BY <1>4, <2>1
  <2>3. PICK x \in Nat, s \in Nat : x = X[k + 1] /\ s = f[k]
    BY <1>1, <2>1, <2>2, ElementOfSeq, OctetIs
  <2>4. PICK q \in Nat, r \in Nat : q = x \div Nibble /\ r = x % Nibble /\ x = Nibble * q + r
    BY OctetIs, Division
  <2>5. Y[2 * k + 1] = q /\ Y[2 * k + 2] = r
    BY ONLY <1>3, <2>1, <2>3, <2>4
  <2>6. g[2 * k + 1] = s * Nibble + q
    BY ONLY <1>5, <2>1, <2>2, <2>3, <2>5
  <2>7. g[2 * k + 2] = (s * Nibble + q) * Nibble + r
    BY ONLY <1>5, <2>1, <2>5, <2>6
  <2>8. f[k + 1] = s * Byte + x
    BY ONLY <1>4, <2>1, <2>3
  <2>9. (s * Nibble + q) * Nibble + r = s * (Nibble * Nibble) + (Nibble * q + r)
    BY ONLY OctetIs, s \in Nat, q \in Nat, r \in Nat
  <2>10. Byte = Nibble * Nibble
    BY TextCodecAssumption
  <2> QED
    BY ONLY <2>1, <2>4, <2>7, <2>8, <2>9, <2>10
<1>8. T = Nat
  <2> HIDE DEF T
  <2>1. T \subseteq Nat
    BY DEF T
  <2> QED
    BY <1>6, <1>7, <2>1, SetInduction
<1>9. g[2 * n] = f[n]
  <2>1. n \in T
    BY <1>8
  <2> QED
    BY <2>1
<1> QED
  BY ONLY <1>2, <1>4, <1>5, <1>9

\* A group's bytes as one number, and its character c.
At(data, j)     == IF j <= Len(data) THEN data[j] ELSE 0
Triple(data, i) == (At(data, i) * Byte + At(data, i + 1)) * Byte + At(data, i + 2)
Char(v, c) ==
  CASE c = 1 -> (v \div (Digit * Digit * Digit)) % Digit
    [] c = 2 -> (v \div (Digit * Digit)) % Digit
    [] c = 3 -> (v \div Digit) % Digit
    [] c = 4 -> v % Digit

\* The four characters are the number again.
LEMMA CharsAreNumber ==
  ASSUME NEW v \in Nat, v < Byte * Byte * Byte
  PROVE  /\ \A c \in 1..4 : Char(v, c) \in Nat /\ Char(v, c) < Digit
         /\ ((Char(v, 1) * Digit + Char(v, 2)) * Digit + Char(v, 3)) * Digit + Char(v, 4) = v
<1>1. PICK d \in Nat : d = Digit /\ d > 0
  BY OctetIs
<1>2. PICK w \in Nat, r4 \in Nat : w = v \div d /\ r4 = v % d /\ r4 < d /\ v = d * w + r4
  BY <1>1, Division
<1>3. PICK x \in Nat, r3 \in Nat : x = w \div d /\ r3 = w % d /\ r3 < d /\ w = d * x + r3
  BY <1>1, Division
<1>4. PICK y \in Nat, r2 \in Nat : y = x \div d /\ r2 = x % d /\ r2 < d /\ x = d * y + r2
  BY <1>1, Division
<1>5. PICK d2 \in Nat, d3 \in Nat : d2 = d * d /\ d2 > 0 /\ d3 = d2 * d /\ d3 > 0
  BY <1>1, Product
<1>6. v \div d2 = x
  BY ONLY <1>1, <1>2, <1>3, <1>5, DivideTwice
<1>7. v \div d3 = y
  <2>1. PICK s \in Nat : s = r2 * d + r3 /\ s < d2
    BY <1>1, <1>3, <1>4, <1>5, Below
  <2>2. PICK t \in Nat : t = s * d + r4 /\ t < d3
    BY <1>1, <1>2, <1>5, <2>1, Below
  <2>3. d * (d * (d * y + r2) + r3) + r4 = (d * d * d) * y + ((r2 * d + r3) * d + r4)
    BY ONLY d \in Nat, y \in Nat, r2 \in Nat, r3 \in Nat, r4 \in Nat
  <2>4. v = d3 * y + t
    BY ONLY <1>2, <1>3, <1>4, <1>5, <2>1, <2>2, <2>3
  <2> QED
    BY ONLY <2>2, <2>4, Quotient, d3 \in Nat, y \in Nat, t \in Nat
<1>8. y < d
  <2>1. v < d3 * d
    <3>1. Byte * Byte * Byte = Digit * Digit * Digit * Digit
      BY TextCodecAssumption
    <3> QED
      BY ONLY <1>1, <1>5, <3>1, v < Byte * Byte * Byte
  <2>2. d3 * d = d * d3 /\ d3 = d * d2 /\ d2 = d * d
    BY ONLY <1>5, d \in Nat, d2 \in Nat, d3 \in Nat
  <2>3. w < d3
    BY ONLY <1>2, <2>1, <2>2, Above, d \in Nat, d3 \in Nat
  <2>4. x < d2
    BY ONLY <1>3, <2>2, <2>3, Above, d \in Nat, d2 \in Nat
  <2> QED
    BY ONLY <1>4, <2>2, <2>4, Above, d \in Nat
<1>9. y % d = y
  BY ONLY <1>1, <1>8, y \in Nat
<1>10. Char(v, 1) = y /\ Char(v, 2) = r2 /\ Char(v, 3) = r3 /\ Char(v, 4) = r4
  <2>1. Char(v, 1) = (v \div (Digit * Digit * Digit)) % Digit
    BY DEF Char
  <2>2. Char(v, 2) = (v \div (Digit * Digit)) % Digit
    BY DEF Char
  <2>3. Char(v, 3) = (v \div Digit) % Digit /\ Char(v, 4) = v % Digit
    BY DEF Char
  <2>4. (v \div d3) % d = y /\ (v \div d2) % d = r2 /\ (v \div d) % d = r3 /\ v % d = r4
    BY ONLY <1>2, <1>3, <1>4, <1>6, <1>7, <1>9
  <2> QED
    BY ONLY <1>1, <1>5, <2>1, <2>2, <2>3, <2>4
<1>11. ((y * d + r2) * d + r3) * d + r4 = v
  <2>1. y * d = d * y /\ x * d = d * x /\ w * d = d * w
    BY ONLY d \in Nat, w \in Nat, x \in Nat, y \in Nat
  <2> QED
    BY ONLY <1>2, <1>3, <1>4, <2>1
<1>12. ASSUME NEW c \in 1..4 PROVE Char(v, c) \in Nat /\ Char(v, c) < Digit
  <2>1. c = 1 \/ c = 2 \/ c = 3 \/ c = 4
    OBVIOUS
  <2>2. y \in Nat /\ r2 \in Nat /\ r3 \in Nat /\ r4 \in Nat
    OBVIOUS
  <2> QED
    BY ONLY <1>1, <1>2, <1>3, <1>4, <1>8, <1>10, <2>1, <2>2
<1>13. ((Char(v, 1) * Digit + Char(v, 2)) * Digit + Char(v, 3)) * Digit + Char(v, 4) = v
  BY ONLY <1>1, <1>10, <1>11
<1> QED
  BY ONLY <1>12, <1>13

\* A group's last character says nothing without its last byte, and neither does
\* the one before it without the last two.
LEMMA NoBits ==
  ASSUME NEW x \in Nat, NEW y \in Nat
  PROVE  /\ Char((x * Byte + y) * Byte + 0, 4) = 0
         /\ Char((x * Byte + 0) * Byte + 0, 3) = 0
<1>1. PICK d \in Nat, b \in Nat : d = Digit /\ d > 0 /\ b = Byte
  BY OctetIs
<1>2. PICK k \in Nat : b = d * k
  <2>1. b % d = 0
    BY <1>1, TextCodecAssumption
  <2>2. b \div d \in Nat /\ b = d * (b \div d) + (b % d)
    BY <1>1, Division
  <2>3. d * (b \div d) \in Nat
    BY <2>2, Product
  <2>4. b = d * (b \div d)
    BY ONLY <2>1, <2>2, <2>3
  <2> QED
    BY <2>2, <2>4
<1>3. ASSUME NEW z \in Nat PROVE (d * z) % d = 0 /\ (d * z) \div d = z
  <2>1. d * z + 0 = d * z
    BY Product
  <2>2. 0 \in Nat /\ 0 < d
    BY <1>1
  <2>3. (d * z + 0) \div d = z /\ (d * z + 0) % d = 0
    BY <2>2, Quotient
  <2> QED
    BY ONLY <2>1, <2>3
<1>4. Char((x * b + y) * b + 0, 4) = 0
  <2>1. PICK s \in Nat : s = x * b + y
    BY Product
  <2>2. PICK z \in Nat : z = s * k
    BY Product
  <2>3. s * b + 0 = d * z
    <3>1. s * (d * k) + 0 = d * (s * k)
      BY ONLY s \in Nat, d \in Nat, k \in Nat
    <3> QED
      BY ONLY <1>2, <2>2, <3>1
  <2>4. Char(s * b + 0, 4) = (s * b + 0) % d
    BY <1>1 DEF Char
  <2> QED
    BY ONLY <1>3, <2>1, <2>3, <2>4, z \in Nat
<1>5. Char((x * b + 0) * b + 0, 3) = 0
  <2>1. PICK z \in Nat, u \in Nat : z = x * k * k /\ u = d * z
    <3>1. x * k \in Nat
      BY Product
    <3>2. x * k * k \in Nat
      BY <3>1, Product
    <3>3. d * (x * k * k) \in Nat
      BY <3>2, Product
    <3> QED
      BY <3>2, <3>3
  <2>2. (x * b + 0) * b + 0 = d * u
    <3>1. (x * (d * k) + 0) * (d * k) + 0 = d * (d * (x * k * k))
      BY ONLY x \in Nat, d \in Nat, k \in Nat
    <3> QED
      BY ONLY <1>2, <2>1, <3>1
  <2>3. Char(d * u, 3) = ((d * u) \div d) % d
    BY <1>1 DEF Char
  <2>4. (d * u) \div d = u /\ u % d = 0
    BY ONLY <1>3, <2>1, u \in Nat, z \in Nat
  <2> QED
    BY ONLY <2>2, <2>3, <2>4
<1> QED
  BY ONLY <1>1, <1>4, <1>5

\* Three bytes are a number.
LEMMA TripleIs ==
  ASSUME NEW x \in Octet, NEW y \in Octet, NEW z \in Octet
  PROVE  (x * Byte + y) * Byte + z \in Nat /\ (x * Byte + y) * Byte + z < Byte * Byte * Byte
<1>1. x \in Nat /\ y \in Nat /\ z \in Nat /\ Byte \in Nat /\ x < Byte /\ y < Byte /\ z < Byte
  BY OctetIs
<1>2. x * Byte + y \in Nat /\ x * Byte + y < Byte * Byte
  BY ONLY <1>1, Below
<1>3. Byte * Byte \in Nat
  BY <1>1, Product
<1> QED
  BY ONLY <1>1, <1>2, <1>3, Below

\* The bytes of a group, there or not.
LEMMA AtIs ==
  ASSUME NEW X \in Seq(Octet), NEW i \in Nat, i > 0
  PROVE  /\ At(X, i) \in Octet
         /\ Triple(X, i) \in Nat /\ Triple(X, i) < Byte * Byte * Byte
<1>1. 0 \in Octet
  BY OctetIs
<1>2. ASSUME NEW j \in Nat, j > 0 PROVE At(X, j) \in Octet
  <2>1. Len(X) \in Nat
    BY LenProperties
  <2>2. CASE j <= Len(X)
    <3>1. j \in 1..Len(X)
      BY <1>2, <2>1, <2>2
    <3> QED
      BY <2>2, <3>1, ElementOfSeq DEF At
  <2>3. CASE ~ (j <= Len(X))
    BY <1>1, <2>3 DEF At
  <2> QED
    BY <2>2, <2>3
<1>3. i + 1 \in Nat /\ i + 1 > 0 /\ i + 2 \in Nat /\ i + 2 > 0
  OBVIOUS
<1>4. At(X, i) \in Octet /\ At(X, i + 1) \in Octet /\ At(X, i + 2) \in Octet
  BY <1>2, <1>3
<1> QED
  BY ONLY <1>4, TripleIs DEF Triple

\* A character is padding or says its part of the bytes.
LEMMA GroupIs ==
  ASSUME NEW X \in Seq(Octet), NEW i \in Nat, i > 0
  PROVE  /\ Group(X, i) \in Seq(Nat) /\ Len(Group(X, i)) = 4
         /\ \A c \in 1..4 :
              Group(X, i)[c] = IF 4 - c \in Padding(X, i) THEN Pad ELSE Char(Triple(X, i), c)
<1>1. PICK v \in Nat : v = Triple(X, i) /\ v < Byte * Byte * Byte
  BY AtIs
<1>2. ASSUME NEW c \in 1..4
      PROVE  /\ Group(X, i)[c] = IF 4 - c \in Padding(X, i) THEN Pad ELSE Char(v, c)
             /\ Group(X, i)[c] \in Nat
  <2> DEFINE place == <<Digit * Digit * Digit, Digit * Digit, Digit, 1>>
  <2>1. Group(X, i)[c] = IF 4 - c \in Padding(X, i) THEN Pad ELSE (v \div place[c]) % Digit
    BY <1>1 DEF Group, Triple, At
  <2>2. (v \div place[c]) % Digit = Char(v, c)
    <3>1. c = 1 \/ c = 2 \/ c = 3 \/ c = 4
      OBVIOUS
    <3>2. v \div 1 = v
      OBVIOUS
    <3>3. /\ place[1] = Digit * Digit * Digit /\ place[2] = Digit * Digit
          /\ place[3] = Digit /\ place[4] = 1
      OBVIOUS
    <3> HIDE DEF place
    <3> QED
      BY ONLY <3>1, <3>2, <3>3 DEF Char
  <2>3. Char(v, c) \in Nat /\ Pad \in Nat
    BY <1>1, CharsAreNumber, OctetIs DEF Pad
  <2> QED
    BY ONLY <2>1, <2>2, <2>3
<1>3. PICK s : s = Group(X, i)
  OBVIOUS
<1>4. s = [c \in 1..4 |-> s[c]]
  BY <1>3 DEF Group
<1>5. [c \in 1..4 |-> s[c]] \in Seq(Nat) /\ Len([c \in 1..4 |-> s[c]]) = 4
  <2>1. \A c \in 1..4 : s[c] \in Nat
    BY ONLY <1>2, <1>3
  <2>2. 4 \in Nat
    OBVIOUS
  <2> QED
    BY ONLY <2>1, <2>2, IsASeq
<1> QED
  BY ONLY <1>1, <1>2, <1>3, <1>4, <1>5

\* How many groups the bytes make.
Groups(data) == (Len(data) + 2) \div 3

\* What base64_encode makes of the bytes.
LEMMA TextIs ==
  ASSUME NEW X \in Seq(Octet)
  PROVE  /\ Groups(X) \in Nat
         /\ base64_encode(X) \in Seq(Nat) /\ Len(base64_encode(X)) = 4 * Groups(X)
         /\ \A g \in 1..Groups(X), c \in 1..4 :
              base64_encode(X)[4 * (g - 1) + c] = Group(X, 3 * g - 2)[c]
<1>0. PICK m \in Nat : m = Groups(X)
  <2>1. Len(X) + 2 \in Nat
    BY LenProperties
  <2> QED
    BY <2>1, Division DEF Groups
<1> DEFINE s == [g \in 1..m |-> Group(X, 3 * g - 2)]
<1>1. ASSUME NEW g \in 1..m
      PROVE  s[g] = Group(X, 3 * g - 2) /\ s[g] \in Seq(Nat) /\ Len(s[g]) = 4
  <2>1. 3 * g - 2 \in Nat /\ 3 * g - 2 > 0
    OBVIOUS
  <2> QED
    BY <2>1, GroupIs
<1>2. s = [g \in 1..m |-> s[g]] /\ base64_encode(X) = FlattenSeq(s)
  BY <1>0 DEF base64_encode, Groups
<1> HIDE DEF s
<1>3. s \in Seq(Seq(Nat)) /\ Len(s) = m
  <2>1. [g \in 1..m |-> s[g]] \in Seq(Seq(Nat)) /\ Len([g \in 1..m |-> s[g]]) = m
    BY ONLY <1>1, m \in Nat, IsASeq
  <2> QED
    BY ONLY <1>2, <2>1
<1>4. /\ FlattenSeq(s) \in Seq(Nat) /\ Len(FlattenSeq(s)) = 4 * Len(s)
      /\ \A j \in 1..Len(s), c \in 1..4 : FlattenSeq(s)[4 * (j - 1) + c] = s[j][c]
  <2>1. \A j \in 1..Len(s) : Len(s[j]) = 4
    BY <1>1, <1>3
  <2>2. 4 \in {2, 4}
    OBVIOUS
  <2> QED
    BY <1>3, <2>1, <2>2, EqualPieces
<1>5. PICK t : t = base64_encode(X)
  OBVIOUS
<1>6. t \in Seq(Nat) /\ Len(t) = 4 * m
  BY ONLY <1>2, <1>3, <1>4, <1>5
<1>7. ASSUME NEW g \in 1..m, NEW c \in 1..4
      PROVE  t[4 * (g - 1) + c] = Group(X, 3 * g - 2)[c]
  <2>1. t[4 * (g - 1) + c] = s[g][c]
    BY ONLY <1>2, <1>3, <1>4, <1>5, g \in 1..m, c \in 1..4
  <2> QED
    BY ONLY <1>1, <2>1, g \in 1..m
<1> QED
  BY ONLY <1>0, <1>5, <1>6, <1>7

\* One more digit behind a number of two parts.
LEMMA Shifted ==
  ASSUME NEW s \in Nat, NEW p \in Nat, NEW r \in Nat, NEW d \in Nat, NEW c \in Nat
  PROVE  (s * p + r) * d + c = s * (p * d) + (r * d + c)
<1>1. PICK u \in Nat : u = s * p
  OBVIOUS
<1>2. (u + r) * d = u * d + r * d
  BY ONLY u \in Nat, r \in Nat, d \in Nat
<1>3. (s * p) * d = s * (p * d)
  BY ONLY s \in Nat, p \in Nat, d \in Nat
<1>4. PICK v \in Nat, w \in Nat : v = u * d /\ w = r * d
  <2>1. u * d \in Nat /\ r * d \in Nat
    BY ONLY u \in Nat, r \in Nat, d \in Nat
  <2> QED
    BY ONLY <2>1
<1>5. (v + w) + c = v + (w + c)
  BY ONLY v \in Nat, w \in Nat, c \in Nat
<1> QED
  BY ONLY <1>1, <1>2, <1>3, <1>4, <1>5

\* Characters that are the groups of whole bytes are the bytes' number.
LEMMA TextValue ==
  ASSUME NEW X \in Seq(Octet), NEW Y \in Seq(Nat), NEW m \in Nat,
         Len(X) = 3 * m, Len(Y) = 4 * m,
         \A g \in 1..m, c \in 1..4 : Y[4 * (g - 1) + c] = Char(Triple(X, 3 * g - 2), c)
  PROVE  Value(Y, Digit) = Value(X, Byte)
<1>1. PICK f : /\ Value(X, Byte) = f[3 * m] /\ f[0] = 0 /\ \A k \in 0..(3 * m) : f[k] \in Nat
               /\ \A k \in 1..(3 * m) : f[k] = f[k - 1] * Byte + X[k]
  <2>1. \E f : Totals(X, Byte, f)
    BY OctetIs, ValueIs
  <2> QED
    BY ONLY <2>1, Len(X) = 3 * m DEF Totals
<1>2. PICK h : /\ Value(Y, Digit) = h[4 * m] /\ h[0] = 0 /\ \A k \in 0..(4 * m) : h[k] \in Nat
               /\ \A k \in 1..(4 * m) : h[k] = h[k - 1] * Digit + Y[k]
  <2>1. Nat \subseteq Nat
    OBVIOUS
  <2>2. \E g : Totals(Y, Digit, g)
    BY <2>1, OctetIs, ValueIs
  <2> QED
    BY ONLY <2>2, Len(Y) = 4 * m DEF Totals
<1> DEFINE T == {k \in Nat : k <= m => h[4 * k] = f[3 * k]}
<1>3. 0 \in T
  BY <1>1, <1>2
<1>4. ASSUME NEW k \in T PROVE k + 1 \in T
  <2>0. k \in Nat
    OBVIOUS
  <2> SUFFICES ASSUME k + 1 <= m PROVE h[4 * (k + 1)] = f[3 * (k + 1)]
    BY <2>0
  <2>1. /\ k + 1 \in 1..m /\ (k + 1) - 1 = k /\ 3 * (k + 1) - 2 = 3 * k + 1
        /\ 3 * k \in 0..(3 * m) /\ 4 * (k + 1) = 4 * k + 4 /\ 3 * (k + 1) = 3 * k + 3
        /\ 3 * k + 1 \in 1..(3 * m) /\ 3 * k + 2 \in 1..(3 * m) /\ 3 * k + 3 \in 1..(3 * m)
        /\ 4 * k + 1 \in 1..(4 * m) /\ 4 * k + 2 \in 1..(4 * m)
        /\ 4 * k + 3 \in 1..(4 * m) /\ 4 * k + 4 \in 1..(4 * m)
    BY ONLY <2>0, k + 1 <= m, m \in Nat
  <2>2. /\ (3 * k + 1) - 1 = 3 * k /\ (3 * k + 2) - 1 = 3 * k + 1 /\ (3 * k + 3) - 1 = 3 * k + 2
        /\ (4 * k + 1) - 1 = 4 * k /\ (4 * k + 2) - 1 = 4 * k + 1
        /\ (4 * k + 3) - 1 = 4 * k + 2 /\ (4 * k + 4) - 1 = 4 * k + 3
        /\ (3 * k + 1) + 1 = 3 * k + 2 /\ (3 * k + 1) + 2 = 3 * k + 3
        /\ 3 * k + 1 \in Nat /\ 3 * k + 1 > 0
    BY ONLY <2>0
  <2>3. PICK s \in Nat : s = f[3 * k] /\ s = h[4 * k]
    <3>1. h[4 * k] = f[3 * k] /\ f[3 * k] \in Nat
      BY <1>1, <2>1
    <3> QED
      BY <3>1
  <2>4. PICK x \in Nat, y \in Nat, z \in Nat :
          x = X[3 * k + 1] /\ y = X[3 * k + 2] /\ z = X[3 * k + 3]
    <3>1. \A i \in 1..(3 * m) : X[i] \in Nat
      BY ElementOfSeq, OctetIs
    <3> QED
      BY ONLY <2>1, <3>1
  <2>5. PICK b \in Nat, d \in Nat : b = Byte /\ d = Digit /\ b * b * b = d * d * d * d
    BY TextCodecAssumption
  <2>6. f[3 * k + 3] = ((s * b + x) * b + y) * b + z
    <3>1. f[3 * k + 1] = s * b + x
      BY ONLY <1>1, <2>1, <2>2, <2>3, <2>4, <2>5
    <3>2. f[3 * k + 2] = f[3 * k + 1] * b + y
      BY ONLY <1>1, <2>1, <2>2, <2>4, <2>5
    <3>3. f[3 * k + 3] = f[3 * k + 2] * b + z
      BY ONLY <1>1, <2>1, <2>2, <2>4, <2>5
    <3> QED
      BY ONLY <3>1, <3>2, <3>3
  <2>7. PICK v \in Nat : v = Triple(X, 3 * k + 1) /\ v < Byte * Byte * Byte
    BY <2>2, AtIs
  <2>8. v = (x * b + y) * b + z
    <3>1. 3 * k + 1 <= Len(X) /\ 3 * k + 2 <= Len(X) /\ 3 * k + 3 <= Len(X)
      BY ONLY <2>0, k + 1 <= m, m \in Nat, Len(X) = 3 * m
    <3>2. At(X, 3 * k + 1) = x /\ At(X, 3 * k + 2) = y /\ At(X, 3 * k + 3) = z
      BY ONLY <2>4, <3>1 DEF At
    <3> QED
      BY ONLY <2>2, <2>5, <2>7, <3>2 DEF Triple
  <2>9. PICK c1 \in Nat, c2 \in Nat, c3 \in Nat, c4 \in Nat :
          c1 = Char(v, 1) /\ c2 = Char(v, 2) /\ c3 = Char(v, 3) /\ c4 = Char(v, 4)
    <3>1. 1 \in 1..4 /\ 2 \in 1..4 /\ 3 \in 1..4 /\ 4 \in 1..4
      OBVIOUS
    <3>2. \A c \in 1..4 : Char(v, c) \in Nat
      BY <2>7, CharsAreNumber
    <3> QED
      BY ONLY <3>1, <3>2
  <2>10. ((c1 * d + c2) * d + c3) * d + c4 = v
    <3>1. ((Char(v, 1) * Digit + Char(v, 2)) * Digit + Char(v, 3)) * Digit + Char(v, 4) = v
      BY <2>7, CharsAreNumber
    <3> QED
      BY ONLY <2>5, <2>9, <3>1
  <2>11. h[4 * k + 4] = (((s * d + c1) * d + c2) * d + c3) * d + c4
    <3>1. ASSUME NEW c \in 1..4 PROVE Y[4 * k + c] = Char(v, c)
      <4>1. Y[4 * ((k + 1) - 1) + c] = Char(Triple(X, 3 * (k + 1) - 2), c)
        BY <2>1
      <4> QED
        BY ONLY <2>1, <2>7, <4>1
    <3>2. Y[4 * k + 1] = c1 /\ Y[4 * k + 2] = c2 /\ Y[4 * k + 3] = c3 /\ Y[4 * k + 4] = c4
      <4>1. 1 \in 1..4 /\ 2 \in 1..4 /\ 3 \in 1..4 /\ 4 \in 1..4
        OBVIOUS
      <4> QED
        BY ONLY <2>9, <3>1, <4>1
    <3>3. h[4 * k + 1] = s * d + c1
      BY ONLY <1>2, <2>1, <2>2, <2>3, <2>5, <3>2
    <3>4. h[4 * k + 2] = h[4 * k + 1] * d + c2
      BY ONLY <1>2, <2>1, <2>2, <2>5, <3>2
    <3>5. h[4 * k + 3] = h[4 * k + 2] * d + c3
      BY ONLY <1>2, <2>1, <2>2, <2>5, <3>2
    <3>6. h[4 * k + 4] = h[4 * k + 3] * d + c4
      BY ONLY <1>2, <2>1, <2>2, <2>5, <3>2
    <3> QED
      BY ONLY <3>3, <3>4, <3>5, <3>6
  <2>12. (((s * d + c1) * d + c2) * d + c3) * d + c4
           = s * (d * d * d * d) + (((c1 * d + c2) * d + c3) * d + c4)
    <3>1. PICK d2 \in Nat, d3 \in Nat : d2 = d * d /\ d3 = d * d * d
      <4>1. d * d \in Nat /\ d * d * d \in Nat
        BY ONLY d \in Nat
      <4> QED
        BY ONLY <4>1
    <3>2. PICK r2 \in Nat, r3 \in Nat : r2 = c1 * d + c2 /\ r3 = r2 * d + c3
      <4>1. PICK r2 \in Nat : r2 = c1 * d + c2
        BY ONLY d \in Nat, c1 \in Nat, c2 \in Nat
      <4>2. PICK r3 \in Nat : r3 = r2 * d + c3
        BY ONLY d \in Nat, r2 \in Nat, c3 \in Nat
      <4> QED
        BY ONLY <4>1, <4>2, r2 \in Nat, r3 \in Nat
    <3>3. (s * d + c1) * d + c2 = s * (d * d) + (c1 * d + c2)
      BY ONLY Shifted, s \in Nat, d \in Nat, c1 \in Nat, c2 \in Nat
    <3>4. (s * d2 + r2) * d + c3 = s * (d2 * d) + (r2 * d + c3)
      BY ONLY Shifted, s \in Nat, d \in Nat, d2 \in Nat, r2 \in Nat, c3 \in Nat
    <3>5. (s * d3 + r3) * d + c4 = s * (d3 * d) + (r3 * d + c4)
      BY ONLY Shifted, s \in Nat, d \in Nat, d3 \in Nat, r3 \in Nat, c4 \in Nat
    <3> QED
      BY ONLY <3>1, <3>2, <3>3, <3>4, <3>5
  <2>13. ((s * b + x) * b + y) * b + z = s * (b * b * b) + ((x * b + y) * b + z)
    <3>1. PICK b2 \in Nat : b2 = b * b
      BY ONLY b \in Nat
    <3>2. PICK r2 \in Nat : r2 = x * b + y
      BY ONLY b \in Nat, x \in Nat, y \in Nat
    <3>3. (s * b + x) * b + y = s * (b * b) + (x * b + y)
      BY ONLY Shifted, s \in Nat, b \in Nat, x \in Nat, y \in Nat
    <3>4. (s * b2 + r2) * b + z = s * (b2 * b) + (r2 * b + z)
      BY ONLY Shifted, s \in Nat, b \in Nat, b2 \in Nat, r2 \in Nat, z \in Nat
    <3> QED
      BY ONLY <3>1, <3>2, <3>3, <3>4
  <2>14. PICK p : p = b * b * b /\ p = d * d * d * d
    BY ONLY <2>5
  <2>15. f[3 * k + 3] = s * p + v
    BY ONLY <2>6, <2>8, <2>13, <2>14
  <2>16. h[4 * k + 4] = s * p + v
    BY ONLY <2>11, <2>12, <2>14, <2>10
  <2> QED
    BY ONLY <2>1, <2>15, <2>16
<1>5. T = Nat
  <2> HIDE DEF T
  <2>1. T \subseteq Nat
    BY DEF T
  <2> QED
    BY <1>3, <1>4, <2>1, SetInduction
<1>6. h[4 * m] = f[3 * m]
  <2>1. m \in Nat /\ m <= m
    OBVIOUS
  <2>2. m \in T
    BY ONLY <1>5, <2>1
  <2> QED
    BY <2>1, <2>2
<1> QED
  BY ONLY <1>1, <1>2, <1>6

\* A text, and the same with the bytes that are missing put as 0.
LEMMA Base64HasValue ==
  ASSUME NEW X \in Seq(Octet), NEW m \in Nat, NEW e \in 0..2,
         3 * m = Len(X) + e, m = Groups(X)
  PROVE  LET t == base64_encode(X)
             d == SubSeq(t, 1, Len(t) - e)
         IN  /\ Len(t) = 4 * m
             /\ \A i \in 1..Len(t) : t[i] = Pad <=> i > Len(d)
             /\ Value(d \o Zeros(e), Digit) = Value(X \o Zeros(e), Byte)
<1>1. PICK n \in Nat : n = Len(X) /\ 3 * m = n + e
  BY LenProperties
<1>2. PICK t : t = base64_encode(X)
  OBVIOUS
<1>3. /\ t \in Seq(Nat) /\ Len(t) = 4 * m
      /\ \A g \in 1..m, c \in 1..4 : t[4 * (g - 1) + c] = Group(X, 3 * g - 2)[c]
  BY ONLY <1>2, TextIs, m = Groups(X), X \in Seq(Octet)
<1>4. PICK l \in Nat : l = 4 * m - e /\ l <= Len(t)
  <2>1. 4 * m - e \in Nat /\ 4 * m - e <= 4 * m
    BY ONLY <1>1, m \in Nat, e \in 0..2, n \in Nat
  <2> QED
    BY ONLY <1>3, <2>1
<1>5. PICK d : d = SubSeq(t, 1, l)
  OBVIOUS
<1>6. d \in Seq(Nat) /\ Len(d) = l /\ \A i \in 1..l : d[i] = t[i]
  BY ONLY <1>3, <1>4, <1>5, FrontCut, l \in Nat
<1>7. PICK z : z = Zeros(e)
  OBVIOUS
<1>8. /\ z \in Seq(Octet) /\ z \in Seq(Nat) /\ Len(z) = e
      /\ \A i \in 1..e : z[i] = 0
  <2>1. e \in Nat /\ 0 \in Octet /\ 0 \in Nat
    BY OctetIs
  <2>2. [i \in 1..e |-> 0] \in Seq(Octet) /\ [i \in 1..e |-> 0] \in Seq(Nat)
        /\ Len([i \in 1..e |-> 0]) = e
    BY ONLY <2>1, IsASeq
  <2> QED
    BY ONLY <1>7, <2>2 DEF Zeros
<1>9. PICK Y : Y = d \o z
  OBVIOUS
<1>10. PICK W : W = X \o z
  OBVIOUS
<1>11. /\ Y \in Seq(Nat) /\ Len(Y) = 4 * m
       /\ \A i \in 1..(4 * m) : Y[i] = IF i <= l THEN t[i] ELSE 0
  <2>1. /\ d \o z \in Seq(Nat) /\ Len(d \o z) = Len(d) + Len(z)
        /\ \A i \in 1..(Len(d) + Len(z)) :
             (d \o z)[i] = IF i <= Len(d) THEN d[i] ELSE z[i - Len(d)]
    BY ONLY <1>6, <1>8, ConcatProperties
  <2>2. l + e = 4 * m
    BY ONLY <1>4, m \in Nat, e \in 0..2
  <2>3. ASSUME NEW i \in 1..(4 * m) PROVE Y[i] = IF i <= l THEN t[i] ELSE 0
    <3>1. Y[i] = IF i <= l THEN d[i] ELSE z[i - l]
      BY ONLY <1>6, <1>8, <1>9, <2>1, <2>2, i \in 1..(4 * m)
    <3>2. i <= l => i \in 1..l
      BY ONLY <1>4, i \in 1..(4 * m), l \in Nat
    <3>3. ~ (i <= l) => i - l \in 1..e
      BY ONLY <2>2, i \in 1..(4 * m), l \in Nat, e \in 0..2, m \in Nat
    <3> QED
      BY ONLY <1>6, <1>8, <3>1, <3>2, <3>3
  <2> QED
    BY ONLY <1>6, <1>8, <1>9, <2>1, <2>2, <2>3
<1>12. /\ W \in Seq(Octet) /\ Len(W) = 3 * m
       /\ \A i \in 1..(3 * m) : W[i] = At(X, i)
  <2>1. /\ X \o z \in Seq(Octet) /\ Len(X \o z) = Len(X) + Len(z)
        /\ \A i \in 1..(Len(X) + Len(z)) :
             (X \o z)[i] = IF i <= Len(X) THEN X[i] ELSE z[i - Len(X)]
    BY ONLY <1>8, ConcatProperties, X \in Seq(Octet)
  <2>2. ASSUME NEW i \in 1..(3 * m) PROVE W[i] = At(X, i)
    <3>1. W[i] = IF i <= n THEN X[i] ELSE z[i - n]
      BY ONLY <1>1, <1>8, <1>10, <2>1, i \in 1..(3 * m)
    <3>2. ~ (i <= n) => i - n \in 1..e
      BY ONLY <1>1, i \in 1..(3 * m), n \in Nat, e \in 0..2, m \in Nat
    <3> QED
      BY ONLY <1>1, <1>8, <3>1, <3>2 DEF At
  <2> QED
    BY ONLY <1>1, <1>8, <1>10, <2>1, <2>2
\* Where the padding is.
<1>13. ASSUME NEW g \in 1..m, NEW c \in 1..4
       PROVE  /\ 4 * (g - 1) + c \in 1..(4 * m)
              /\ 4 - c \in Padding(X, 3 * g - 2) <=> 4 * (g - 1) + c > l
              /\ 4 * (g - 1) + c > l =>
                   \/ c = 4 /\ 3 * g > n
                   \/ c = 3 /\ 3 * g > n /\ 3 * g - 1 > n
  <2>1. 4 - c \in Padding(X, 3 * g - 2)
          <=> (c = 4 /\ 3 * g - 2 + 2 - 0 > n) \/ (c = 3 /\ 3 * g - 2 + 2 - 1 > n)
    <3>1. Padding(X, 3 * g - 2) = {k \in {0, 1} : 3 * g - 2 + 2 - k > n}
      BY <1>1 DEF Padding
    <3>2. (4 - c = 0 <=> c = 4) /\ (4 - c = 1 <=> c = 3)
      OBVIOUS
    <3> QED
      BY ONLY <3>1, <3>2
  <2>2. e = 0 \/ e = 1 \/ e = 2
    OBVIOUS
  <2>3. c = 1 \/ c = 2 \/ c = 3 \/ c = 4
    OBVIOUS
  <2>4. /\ 4 * (g - 1) + c \in 1..(4 * m)
        /\ (c = 4 /\ 3 * g - 2 + 2 - 0 > n) \/ (c = 3 /\ 3 * g - 2 + 2 - 1 > n)
             <=> 4 * (g - 1) + c > l
        /\ 4 * (g - 1) + c > l =>
             \/ c = 4 /\ 3 * g > n
             \/ c = 3 /\ 3 * g > n /\ 3 * g - 1 > n
    BY ONLY <1>1, <1>4, <2>2, <2>3, g \in 1..m, n \in Nat, l \in Nat, m \in Nat
  <2> QED
    BY ONLY <2>1, <2>4
\* What the characters are.
<1>14. ASSUME NEW g \in 1..m, NEW c \in 1..4
       PROVE  t[4 * (g - 1) + c] = IF 4 * (g - 1) + c > l THEN Pad
                                   ELSE Char(Triple(X, 3 * g - 2), c)
  <2>1. 3 * g - 2 \in Nat /\ 3 * g - 2 > 0
    OBVIOUS
  <2>2. Group(X, 3 * g - 2)[c] = IF 4 - c \in Padding(X, 3 * g - 2) THEN Pad
                                 ELSE Char(Triple(X, 3 * g - 2), c)
    BY <2>1, GroupIs
  <2>3. t[4 * (g - 1) + c] = Group(X, 3 * g - 2)[c]
    BY <1>3
  <2>4. 4 - c \in Padding(X, 3 * g - 2) <=> 4 * (g - 1) + c > l
    BY <1>13
  <2> QED
    BY ONLY <2>2, <2>3, <2>4
<1>15. ASSUME NEW g \in 1..m, NEW c \in 1..4
       PROVE  Y[4 * (g - 1) + c] = Char(Triple(W, 3 * g - 2), c)
  <2>1. /\ 3 * g - 2 \in 1..(3 * m) /\ 3 * g - 1 \in 1..(3 * m) /\ 3 * g \in 1..(3 * m)
        /\ (3 * g - 2) + 1 = 3 * g - 1 /\ (3 * g - 2) + 2 = 3 * g
        /\ 3 * g - 2 \in Nat /\ 3 * g - 2 > 0 /\ 3 * g - 1 \in Nat /\ 3 * g - 1 > 0
    BY ONLY g \in 1..m, m \in Nat
  <2>2. \A i \in 1..(3 * m) : At(W, i) = At(X, i)
    <3>1. \A i \in 1..(3 * m) : i <= Len(W)
      BY <1>12
    <3> QED
      BY ONLY <1>12, <3>1 DEF At
  <2>3. Triple(W, 3 * g - 2) = Triple(X, 3 * g - 2)
    BY ONLY <2>1, <2>2 DEF Triple
  <2>4. Y[4 * (g - 1) + c] = IF 4 * (g - 1) + c <= l THEN t[4 * (g - 1) + c] ELSE 0
    BY <1>11, <1>13
  <2>5. 4 * (g - 1) + c <= l <=> ~ (4 * (g - 1) + c > l)
    BY ONLY l \in Nat, g \in 1..m, c \in 1..4, m \in Nat
  <2>6. CASE 4 * (g - 1) + c <= l
    BY ONLY <1>14, <2>3, <2>4, <2>5, <2>6, g \in 1..m, c \in 1..4
  <2>7. CASE 4 * (g - 1) + c > l
    <3>1. \A i \in Nat : i > n => At(X, i) = 0
      BY <1>1 DEF At
    <3>2. 3 * g \in Nat /\ 3 * g - 1 \in Nat
      BY ONLY <2>1, g \in 1..m
    <3>3. PICK x \in Nat, y \in Nat : x = At(X, 3 * g - 2) /\ y = At(X, 3 * g - 1)
      <4>1. At(X, 3 * g - 2) \in Octet /\ At(X, 3 * g - 1) \in Octet
        BY <2>1, AtIs
      <4> QED
        BY <4>1, OctetIs
    <3>4. Triple(X, 3 * g - 2) = (x * Byte + y) * Byte + At(X, 3 * g)
      BY ONLY <2>1, <3>3 DEF Triple
    <3>5. CASE c = 4 /\ 3 * g > n
      <4>1. At(X, 3 * g) = 0
        BY ONLY <3>1, <3>2, <3>5
      <4>2. Char((x * Byte + y) * Byte + 0, 4) = 0
        BY NoBits
      <4> QED
        BY ONLY <2>3, <2>4, <2>5, <2>7, <3>4, <3>5, <4>1, <4>2
    <3>6. CASE c = 3 /\ 3 * g > n /\ 3 * g - 1 > n
      <4>1. At(X, 3 * g) = 0 /\ y = 0
        BY ONLY <3>1, <3>2, <3>3, <3>6
      <4>2. Char((x * Byte + 0) * Byte + 0, 3) = 0
        BY NoBits
      <4> QED
        BY ONLY <2>3, <2>4, <2>5, <2>7, <3>4, <3>6, <4>1, <4>2
    <3> QED
      BY <1>13, <2>7, <3>5, <3>6
  <2> QED
    BY <2>5, <2>6, <2>7
<1>16. Value(Y, Digit) = Value(W, Byte)
  BY ONLY <1>11, <1>12, <1>15, TextValue, m \in Nat
<1>17. ASSUME NEW i \in 1..Len(t) PROVE t[i] = Pad <=> i > Len(d)
  <2>1. PICK g \in 1..m, c \in 1..4 : i = 4 * (g - 1) + c
    <3>1. PICK q \in Nat, r \in Nat : r < 4 /\ i - 1 = 4 * q + r
      <4>1. PICK j \in Nat, k \in Nat : j = i - 1 /\ k = 4 /\ k > 0
        <5>1. i - 1 \in Nat /\ 4 \in Nat /\ 4 > 0
          BY <1>3
        <5> QED
          BY <5>1
      <4>2. j \div k \in Nat /\ j % k \in Nat /\ j % k < k /\ j = k * (j \div k) + (j % k)
        BY <4>1, Division
      <4>3. PICK q \in Nat, r \in Nat : q = j \div k /\ r = j % k
        BY <4>2
      <4> QED
        BY ONLY <4>1, <4>2, <4>3
    <3>2. PICK k \in Nat : k = i /\ 1 <= k /\ k <= 4 * m
      BY ONLY <1>3, i \in 1..Len(t), m \in Nat
    <3>3. k = 4 * q + (r + 1)
      BY ONLY <3>1, <3>2, k \in Nat, q \in Nat, r \in Nat
    <3>4. q < m
      BY ONLY <3>2, <3>3, k \in Nat, q \in Nat, r \in Nat, m \in Nat
    <3>5. q + 1 \in 1..m /\ r + 1 \in 1..4 /\ (q + 1) - 1 = q
      BY ONLY <3>1, <3>4, q \in Nat, r \in Nat, m \in Nat
    <3>6. i = 4 * ((q + 1) - 1) + (r + 1)
      BY ONLY <3>2, <3>3, <3>5
    <3> QED
      BY ONLY <3>5, <3>6
  <2>2. t[i] = IF i > l THEN Pad ELSE Char(Triple(X, 3 * g - 2), c)
    BY ONLY <1>14, <2>1
  <2>3. Char(Triple(X, 3 * g - 2), c) # Pad
    <3>1. 3 * g - 2 \in Nat /\ 3 * g - 2 > 0
      OBVIOUS
    <3>2. PICK v \in Nat : v = Triple(X, 3 * g - 2) /\ v < Byte * Byte * Byte
      BY <3>1, AtIs
    <3>3. Char(v, c) \in Nat /\ Char(v, c) < Digit
      BY <3>2, CharsAreNumber
    <3> QED
      BY <3>2, <3>3, OctetIs DEF Pad
  <2> QED
    BY ONLY <1>6, <2>2, <2>3
<1> QED
  <2>1. Len(t) - e = l
    BY ONLY <1>3, <1>4
  <2> QED
    BY ONLY <1>2, <1>3, <1>5, <1>7, <1>9, <1>10, <1>16, <1>17, <2>1

\* What has been given is bytes.
TextInput == subject.parser = "text" => input \in Seq(Octet)

\* One more byte is one more.
LEMMA TextInputHolds == Inputs => []TextInput
<1>1. Start => TextInput
  BY EmptySeq DEF Start, TextInput
<1>2. TextInput /\ [Extend]_inputs => TextInput'
  <2> SUFFICES ASSUME TextInput, [Extend]_inputs, (subject.parser = "text")'
               PROVE  TextInput'
    BY DEF TextInput
  <2>1. CASE Extend
    <3>1. ExtendText
      BY <2>1 DEF Extend, ExtendPath, ExtendWire, ExtendHeader,
                  ExtendQuery, ExtendCalls, ExtendSealed, ExtendText
    <3>2. /\ subject.parser = "text" /\ subject' = subject
          /\ \E b \in {0, 1, Nibble, Byte - 1} : input' = Append(input, b)
      BY <3>1 DEF ExtendText
    <3>3. input' \in Seq(Octet)
      BY <3>2, OctetIs, AppendProperties DEF TextInput
    <3> QED
      BY <3>2, <3>3 DEF TextInput
  <2>2. CASE UNCHANGED inputs
    BY <2>2 DEF inputs, TextInput
  <2> QED
    BY <2>1, <2>2
<1> QED
  BY <1>1, <1>2, PTL DEF Inputs

\* The text has the bytes back, whatever their number is modulo three: as many
\* characters as whole groups need, padding in place of the missing bytes and
\* nowhere else, and the bytes' bits in their order; and so have the
\* hexadecimal digits (base64_encode, websocket.hpp; to_hex, crypto.hpp).
THEOREM BytesComeOutHolds == Inputs => []BytesComeOut
<1>1. TextInput => BytesComeOut
  <2> SUFFICES ASSUME TextInput, subject.parser = "text" PROVE BytesComeOut
    BY DEF BytesComeOut
  <2>1. PICK X \in Seq(Octet) : X = input
    BY DEF TextInput
  <2>2. PICK n \in Nat : n = Len(X)
    BY LenProperties
  <2>3. PICK e \in 0..2 : e = (3 - (n % 3)) % 3
    OBVIOUS
  <2>4. PICK m \in Nat : m = (n + 2) \div 3 /\ 3 * m = n + e
    <3>1. (n + 2) \div 3 \in Nat /\ 3 * ((n + 2) \div 3) = n + e
      BY ONLY <2>3, n \in Nat
    <3> QED
      BY <3>1
  <2>5. 3 * m = Len(X) + e /\ m = Groups(X)
    BY ONLY <2>2, <2>4 DEF Groups
  <2>6. PICK t, d : t = base64_encode(X) /\ d = SubSeq(t, 1, Len(t) - e)
    OBVIOUS
  <2>7. /\ Len(t) = 4 * m /\ \A i \in 1..Len(t) : t[i] = Pad <=> i > Len(d)
        /\ Value(d \o Zeros(e), Digit) = Value(X \o Zeros(e), Byte)
    BY <2>5, <2>6, Base64HasValue
  <2>8. Len(to_hex(X)) = 2 * n
    BY <2>2, HexIs
  <2>9. Value(to_hex(X), Nibble) = Value(X, Byte)
    BY HexHasValue
  <2> QED
    BY ONLY <2>1, <2>2, <2>3, <2>4, <2>6, <2>7, <2>8, <2>9 DEF BytesComeOut
<1> QED
  BY <1>1, TextInputHolds, PTL

(***************************************************************************)
(* The messages.  Of several lines with one name, the last one counts.     *)
(***************************************************************************)
NoLine(lines, name) == \A i \in 1..Len(lines) : lines[i][1] # name

\* Of the first k lines, the i-th is the last with this name.
LastAt(lines, k, name, i) ==
  /\ i \in 1..k /\ lines[i][1] = name
  /\ \A j \in 1..k : j > i => lines[j][1] # name

LastLine(lines, name, value) ==
  \E i \in 1..Len(lines) : LastAt(lines, Len(lines), name, i) /\ lines[i][2] = value

\* What HeaderMap computes, line by line.
Maps(lines, n, f) ==
  f = [i \in 0..n |-> IF i = 0 THEN <<>> ELSE SetHeader(f[i - 1], lines[i][1], lines[i][2])]

\* There are such maps, for any number of lines.
LEMMA MapsExist ==
  ASSUME NEW lines, NEW n \in Nat
  PROVE  \E f : Maps(lines, n, f)
<1> DEFINE T == {k \in Nat : \E f : Maps(lines, k, f)}
           Then(m, i) == SetHeader(m, lines[i][1], lines[i][2])
<1> HIDE DEF Then
<1>1. 0 \in T
  <2>1. Maps(lines, 0, [i \in 0..0 |-> <<>>])
    BY DEF Maps
  <2> QED
    BY <2>1
<1>2. ASSUME NEW k \in T PROVE k + 1 \in T
  <2>1. PICK f : Maps(lines, k, f)
    OBVIOUS
  <2> DEFINE g == [i \in 0..(k + 1) |-> IF i \in 0..k THEN f[i] ELSE Then(f[k], i)]
  <2>2. ASSUME NEW i \in 0..(k + 1)
        PROVE  g[i] = IF i = 0 THEN <<>> ELSE Then(g[i - 1], i)
    <3>1. CASE i = 0
      BY <2>1, <3>1 DEF Maps
    <3>2. CASE i # 0 /\ i \in 0..k
      <4>1. i - 1 \in 0..k /\ i - 1 \in 0..(k + 1)
        BY <3>2
      <4>2. g[i] = f[i] /\ g[i - 1] = f[i - 1]
        BY <3>2, <4>1
      <4>3. f[i] = Then(f[i - 1], i)
        BY <2>1, <3>2 DEF Maps, Then
      <4> QED
        BY <3>2, <4>2, <4>3
    <3>3. CASE i # 0 /\ i \notin 0..k
      <4>1. i - 1 = k /\ k \in 0..k /\ k \in 0..(k + 1)
        BY <3>3
      <4>2. g[i] = Then(f[k], i) /\ g[i - 1] = f[k]
        BY <3>3, <4>1
      <4> QED
        BY <3>3, <4>2
    <3> QED
      BY <3>1, <3>2, <3>3
  <2>3. Maps(lines, k + 1, g)
    BY <2>2 DEF Maps, Then
  <2> QED
    BY <2>3
<1>3. T = Nat
  <2> HIDE DEF T
  <2>1. T \subseteq Nat
    BY DEF T
  <2> QED
    BY <1>1, <1>2, <2>1, SetInduction
<1> QED
  BY <1>3

\* The map has the last line of each name.
LEMMA LookupIs ==
  ASSUME NEW S, NEW lines \in Seq(S), NEW name
  PROVE  /\ NoLine(lines, name) => Lookup(HeaderMap(lines), name) = Text("")
         /\ \A v : LastLine(lines, name, v) => Lookup(HeaderMap(lines), name) = v
<1>1. PICK n \in Nat : n = Len(lines)
  BY LenProperties
<1> DEFINE f == CHOOSE f : Maps(lines, n, f)
<1>2. Maps(lines, n, f)
  BY MapsExist
<1>3. HeaderMap(lines) = f[n]
  BY <1>1 DEF HeaderMap, Maps
<1> HIDE DEF f
<1>4. /\ f[0] = <<>>
      /\ \A i \in 1..n : f[i] = SetHeader(f[i - 1], lines[i][1], lines[i][2])
  <2>1. \A i \in 0..n : f[i] = IF i = 0 THEN <<>> ELSE SetHeader(f[i - 1], lines[i][1], lines[i][2])
    BY ONLY <1>2 DEF Maps
  <2>2. 0 \in 0..n /\ \A i \in 1..n : i \in 0..n /\ i # 0
    OBVIOUS
  <2> QED
    BY ONLY <2>1, <2>2
<1> DEFINE Holds(k) ==
             /\ (\A i \in 1..k : lines[i][1] # name) => name \notin DOMAIN f[k]
             /\ \A i \in 1..k : LastAt(lines, k, name, i) =>
                                  name \in DOMAIN f[k] /\ f[k][name] = lines[i][2]
           T == {k \in Nat : k <= n => Holds(k)}
<1>5. 0 \in T
  <2>1. DOMAIN <<>> = {}
    OBVIOUS
  <2>2. ~ \E i : i \in 1..0
    OBVIOUS
  <2>3. Holds(0)
    BY ONLY <1>4, <2>1, <2>2
  <2> QED
    BY <2>3
<1>6. ASSUME NEW k \in T PROVE k + 1 \in T
  <2> SUFFICES ASSUME k + 1 <= n PROVE Holds(k + 1)
    OBVIOUS
  <2>0. k \in Nat /\ n \in Nat
    OBVIOUS
  <2>1. k + 1 \in 1..n /\ (k + 1) - 1 = k /\ Holds(k)
    OBVIOUS
  <2>2. PICK x : x = lines[k + 1]
    OBVIOUS
  <2>3. f[k + 1] = SetHeader(f[k], x[1], x[2])
    BY ONLY <1>4, <2>1, <2>2
  <2>4. /\ DOMAIN f[k + 1] = DOMAIN f[k] \cup {x[1]} /\ f[k + 1][x[1]] = x[2]
        /\ \A m \in DOMAIN f[k] : m # x[1] => f[k + 1][m] = f[k][m]
    <3>1. PICK map, new, y, z : map = f[k] /\ new = f[k + 1] /\ y = x[1] /\ z = x[2]
      OBVIOUS
    <3>2. new = SetHeader(map, y, z)
      BY ONLY <2>3, <3>1
    <3>3. /\ DOMAIN new = DOMAIN map \cup {y} /\ new[y] = z
          /\ \A m \in DOMAIN map : m # y => new[m] = map[m]
      BY ONLY <3>2 DEF SetHeader
    <3> QED
      BY ONLY <3>1, <3>3
  <2>5. k + 1 \in 1..(k + 1) /\ \A i \in 1..k : i \in 1..(k + 1) /\ k + 1 > i
    BY ONLY <2>0
  <2>6. \A i \in 1..(k + 1) : i = k + 1 \/ i \in 1..k
    BY ONLY <2>0
  <2>7. (\A i \in 1..(k + 1) : lines[i][1] # name) => name \notin DOMAIN f[k + 1]
    BY ONLY <2>1, <2>2, <2>4, <2>5
  <2>8. ASSUME NEW i \in 1..(k + 1), LastAt(lines, k + 1, name, i)
        PROVE  name \in DOMAIN f[k + 1] /\ f[k + 1][name] = lines[i][2]
    <3>1. CASE i = k + 1
      BY ONLY <2>2, <2>4, <2>8, <3>1 DEF LastAt
    <3>2. CASE i \in 1..k
      <4>1. LastAt(lines, k, name, i) /\ x[1] # name
        BY ONLY <2>2, <2>5, <2>8, <3>2 DEF LastAt
      <4> QED
        BY ONLY <2>1, <2>4, <3>2, <4>1
    <3> QED
      BY <2>6, <3>1, <3>2
  <2> QED
    BY <2>7, <2>8
<1>7. T = Nat
  <2> HIDE DEF T
  <2>1. T \subseteq Nat
    BY DEF T
  <2> QED
    BY <1>5, <1>6, <2>1, SetInduction
<1>8. Holds(n)
  <2>1. n \in Nat /\ n <= n
    OBVIOUS
  <2>2. n \in T
    BY ONLY <1>7, <2>1
  <2> QED
    BY <2>1, <2>2
<1> QED
  BY ONLY <1>1, <1>3, <1>8 DEF NoLine, LastLine, Lookup

\* The last line with a name, of two texts one behind the other.
LEMMA LinesJoin ==
  ASSUME NEW S, NEW a \in Seq(S), NEW b \in Seq(S), NEW name
  PROVE  /\ NoLine(a, name) /\ NoLine(b, name) => NoLine(a \o b, name)
         /\ \A v : LastLine(b, name, v) => LastLine(a \o b, name, v)
         /\ \A v : LastLine(a, name, v) /\ NoLine(b, name) => LastLine(a \o b, name, v)
<1>0. PICK m \in Nat, n \in Nat : m = Len(a) /\ n = Len(b)
  BY LenProperties
<1>1. PICK c : c = a \o b /\ m = Len(a) /\ n = Len(b)
  BY <1>0
<1>2. Len(c) = m + n /\ \A i \in 1..(m + n) : c[i] = IF i <= m THEN a[i] ELSE b[i - m]
  BY <1>1, ConcatProperties
<1>3. ASSUME NEW i \in 1..m PROVE i \in 1..(m + n) /\ c[i] = a[i]
  BY ONLY <1>2, m \in Nat, n \in Nat, i \in 1..m
<1>4. ASSUME NEW i \in 1..n PROVE m + i \in 1..(m + n) /\ c[m + i] = b[i]
  <2>1. m + i \in 1..(m + n) /\ ~ (m + i <= m) /\ (m + i) - m = i
    BY ONLY m \in Nat, n \in Nat, i \in 1..n
  <2> QED
    BY ONLY <1>2, <2>1
<1>5. ASSUME NEW i \in 1..(m + n) PROVE i \in 1..m \/ \E j \in 1..n : i = m + j
  <2>1. i \in 1..m \/ (i - m \in 1..n /\ i = m + (i - m))
    BY ONLY m \in Nat, n \in Nat, i \in 1..(m + n)
  <2> QED
    BY ONLY <2>1
<1>6. NoLine(a, name) /\ NoLine(b, name) => NoLine(c, name)
  BY ONLY <1>1, <1>2, <1>3, <1>4, <1>5 DEF NoLine
<1>7. ASSUME NEW v, LastLine(b, name, v) PROVE LastLine(c, name, v)
  <2>1. PICK i \in 1..n : LastAt(b, n, name, i) /\ b[i][2] = v
    BY ONLY <1>1, <1>7 DEF LastLine
  <2>2. ASSUME NEW j \in 1..(m + n), j > m + i PROVE c[j][1] # name
    <3>1. PICK l \in 1..n : j = m + l /\ l > i
      <4>1. j - m \in 1..n /\ j = m + (j - m) /\ j - m > i
        BY ONLY <2>2, m \in Nat, n \in Nat, i \in 1..n, j \in 1..(m + n)
      <4> QED
        BY ONLY <4>1
    <3> QED
      BY ONLY <1>4, <2>1, <3>1 DEF LastAt
  <2>3. m + i \in 1..(m + n) /\ c[m + i] = b[i]
    BY <1>4
  <2>4. LastAt(c, m + n, name, m + i) /\ c[m + i][2] = v
    BY ONLY <2>1, <2>2, <2>3 DEF LastAt
  <2> QED
    BY ONLY <1>2, <2>3, <2>4 DEF LastLine
<1>8. ASSUME NEW v, LastLine(a, name, v), NoLine(b, name) PROVE LastLine(c, name, v)
  <2>1. PICK i \in 1..m : LastAt(a, m, name, i) /\ a[i][2] = v
    BY ONLY <1>1, <1>8 DEF LastLine
  <2>2. ASSUME NEW j \in 1..(m + n), j > i PROVE c[j][1] # name
    BY ONLY <1>1, <1>3, <1>4, <1>5, <1>8, <2>1, <2>2, j \in 1..(m + n) DEF LastAt, NoLine
  <2>3. i \in 1..(m + n) /\ c[i] = a[i]
    BY <1>3
  <2>4. LastAt(c, m + n, name, i) /\ c[i][2] = v
    BY ONLY <2>1, <2>2, <2>3 DEF LastAt
  <2> QED
    BY ONLY <1>2, <2>3, <2>4 DEF LastLine
<1> QED
  BY ONLY <1>1, <1>6, <1>7, <1>8

\* One line.
LEMMA OneLine ==
  ASSUME NEW S, NEW x \in S, NEW name
  PROVE  /\ <<x>> \in Seq(S)
         /\ x[1] # name => NoLine(<<x>>, name)
         /\ x[1] = name => LastLine(<<x>>, name, x[2])
<1>1. PICK c : c = <<x>>
  OBVIOUS
<1>2. c \in Seq(S) /\ Len(c) = 1 /\ c[1] = x
  BY <1>1
<1>3. \A i \in 1..1 : i = 1
  OBVIOUS
<1>4. 1 \in 1..1 /\ ~ (1 > 1)
  OBVIOUS
<1>5. x[1] # name => NoLine(c, name)
  BY ONLY <1>2, <1>3 DEF NoLine
<1>6. x[1] = name => LastLine(c, name, x[2])
  <2>1. x[1] = name => LastAt(c, 1, name, 1)
    BY ONLY <1>2, <1>3, <1>4 DEF LastAt
  <2> QED
    BY ONLY <1>2, <1>4, <2>1 DEF LastLine
<1> QED
  BY ONLY <1>1, <1>2, <1>5, <1>6

\* The header lines of the messages, the marks of their targets and their calls.
HeaderName  == {"X", "Host", "Connection", "Content-Type", "Content-Length"}
HeaderValue ==
  {Text(t) : t \in {"", "h", "1", "2", "close", "own", "plain", "json", "keep-alive"}}
  \cup {Size(n) : n \in Nat}
Line == HeaderName \X HeaderValue
Mark == {"/", "?", "a"}

\* A call sets one of these fields to a value it can have.
IsCall(c) ==
  /\ DOMAIN c \subseteq {"method", "path", "host", "body", "content_type", "keep_alive", "headers"}
  /\ "method" \in DOMAIN c => c.method \in Method
  /\ "path" \in DOMAIN c => c.path \in Seq(Mark)
  /\ "host" \in DOMAIN c => c.host \in HeaderValue
  /\ "body" \in DOMAIN c => c.body \in Nat
  /\ "content_type" \in DOMAIN c => c.content_type \in HeaderValue
  /\ "keep_alive" \in DOMAIN c => c.keep_alive \in BOOLEAN
  /\ "headers" \in DOMAIN c => c.headers \in Line

\* One line of the set.
LEMMA LineIs ==
  ASSUME NEW n \in HeaderName, NEW v \in HeaderValue
  PROVE  <<n, v>> \in Line /\ <<n, v>>[1] = n /\ <<n, v>>[2] = v
  BY DEF Line

\* header() is a call.
LEMMA HeaderIsCall ==
  ASSUME NEW n \in HeaderName, NEW v \in HeaderValue
  PROVE  IsCall(header(n, v))
<1>1. PICK l \in Line : l = <<n, v>>
  BY LineIs
<1>2. header(n, v) = [headers |-> l]
  BY <1>1 DEF header
<1>3. IsCall([headers |-> l])
  BY ONLY l \in Line DEF IsCall
<1> QED
  BY <1>2, <1>3

\* body() is one, which sets two fields.
LEMMA BodyIsCall ==
  ASSUME NEW n \in Nat, NEW v \in HeaderValue
  PROVE  IsCall(body(n, v))
  BY ONLY n \in Nat, v \in HeaderValue DEF IsCall, body

\* The calls of MCParsers are.
LEMMA CallsAre == \A c \in RequestCalls : IsCall(c)
<1>1. \A t \in {"", "h", "1", "2", "close", "own", "plain", "json", "keep-alive"} :
        Text(t) \in HeaderValue
  BY DEF HeaderValue
<1>2. \A n \in Nat : Size(n) \in HeaderValue
  BY DEF HeaderValue
<1>3. \A p \in Seq(Mark) : IsCall([path |-> p])
  BY DEF IsCall
<1>4. \A m \in Method : IsCall([method |-> m])
  BY DEF IsCall
<1>5. \A m \in Method, p \in Seq(Mark) : IsCall([method |-> m, path |-> p])
  BY DEF IsCall
<1>6. \A v \in HeaderValue : IsCall([host |-> v])
  BY DEF IsCall
<1>7. \A v \in BOOLEAN : IsCall([keep_alive |-> v])
  BY DEF IsCall
<1>8. /\ <<>> \in Seq(Mark) /\ <<"/", "?", "a", "?">> \in Seq(Mark) /\ <<"a">> \in Seq(Mark)
      /\ <<"/">> \in Seq(Mark) /\ <<"/", "?">> \in Seq(Mark)
  BY DEF Mark
<1>9. {"GET", "POST", "PUT", "DEL", "HEAD"} \subseteq Method
  BY DEF Method
<1>10. \A c \in {get(<<>>), post(<<"/", "?", "a", "?">>), put(<<"a">>), del(<<"/">>)} : IsCall(c)
  <2>1. IsCall(get(<<>>))
    BY ONLY <1>5, <1>8, <1>9 DEF get
  <2>2. IsCall(post(<<"/", "?", "a", "?">>))
    BY ONLY <1>5, <1>8, <1>9 DEF post
  <2>3. IsCall(put(<<"a">>)) /\ IsCall(del(<<"/">>))
    BY ONLY <1>5, <1>8, <1>9 DEF put, del
  <2> QED
    BY ONLY <2>1, <2>2, <2>3
<1>11. IsCall(target(<<"/", "?">>)) /\ IsCall(method("HEAD")) /\ IsCall(host(Text("h")))
  <2>1. IsCall(target(<<"/", "?">>))
    BY ONLY <1>3, <1>8 DEF target
  <2>2. IsCall(method("HEAD"))
    BY ONLY <1>4, <1>9 DEF method
  <2>3. IsCall(host(Text("h")))
    BY ONLY <1>1, <1>6 DEF host
  <2> QED
    BY ONLY <2>1, <2>2, <2>3
<1>12. IsCall(keep_alive(TRUE)) /\ IsCall(keep_alive(FALSE))
  BY ONLY <1>7 DEF keep_alive
<1>13. \A c \in Headers : IsCall(c)
  <2>1. {"X", "Connection", "Content-Type", "Content-Length"} \subseteq HeaderName
    BY DEF HeaderName
  <2>2. Text("1") \in HeaderValue /\ Text("2") \in HeaderValue /\ Text("close") \in HeaderValue
        /\ Text("own") \in HeaderValue /\ Size(9) \in HeaderValue
    BY <1>1, <1>2
  <2>3. \A n \in HeaderName, v \in HeaderValue : IsCall(header(n, v))
    BY HeaderIsCall
  <2> QED
    BY ONLY <2>1, <2>2, <2>3 DEF Headers
<1>14. \A c \in Bodies : IsCall(c)
  <2>1. Text("plain") \in HeaderValue /\ Text("json") \in HeaderValue
    BY <1>1
  <2>2. \A n \in Nat, v \in HeaderValue : IsCall(body(n, v))
    BY BodyIsCall
  <2>3. 0 \in Nat /\ 2 \in Nat /\ 3 \in Nat
    OBVIOUS
  <2> QED
    BY ONLY <2>1, <2>2, <2>3 DEF Bodies, json
<1> QED
  BY ONLY <1>10, <1>11, <1>12, <1>13, <1>14 DEF RequestCalls

\* The greatest number of a set.
LEMMA MaxIs ==
  ASSUME NEW I \in SUBSET Nat, NEW x \in I, \A y \in I : ~ (y > x)
  PROVE  Max(I) = x
<1>1. \A y \in I : x >= y
  OBVIOUS
<1>2. Max(I) \in I /\ \A y \in I : Max(I) >= y
  BY <1>1 DEF Max
<1>3. PICK m \in Nat : m = Max(I) /\ m >= x /\ x >= m
  BY <1>1, <1>2
<1>4. x \in Nat
  OBVIOUS
<1> QED
  BY ONLY <1>3, <1>4

\* Some numbers up to n have a greatest one.
LEMMA GreatestNumber ==
  ASSUME NEW n \in Nat, NEW I \in SUBSET (1..n), I # {}
  PROVE  \E x \in I : \A y \in I : ~ (y > x)
<1> DEFINE U == {u \in Nat : \A y \in I : y <= u}
<1>1. n \in U
  OBVIOUS
<1>2. PICK x \in U : \A u \in U : x <= u
  <2>1. U \subseteq Nat /\ U # {}
    BY <1>1
  <2> HIDE DEF U
  <2> QED
    BY <2>1, LeastNumber
<1>3. x \in Nat /\ \A y \in I : y \in Nat /\ y <= x /\ y > 0
  OBVIOUS
<1>4. x \in I
  <2> SUFFICES ASSUME x \notin I PROVE FALSE
    OBVIOUS
  <2>1. PICK y \in I : y > 0 /\ y <= x
    BY <1>3
  <2>2. x - 1 \in Nat /\ x > x - 1
    BY <1>3, <2>1
  <2>3. \A z \in I : z <= x - 1
    <3>1. \A z \in I : z # x /\ z \in Nat /\ z <= x
      BY <1>3
    <3> QED
      BY ONLY <1>3, <3>1
  <2>4. x - 1 \in U
    BY <2>2, <2>3
  <2> HIDE DEF U
  <2>5. x <= x - 1
    BY <1>2, <2>4
  <2> QED
    BY <1>3, <2>2, <2>5
<1> QED
  BY <1>3, <1>4

\* The last call that sets a field, of the first k.
SetTo(f, k, default, value) ==
  \/ value = default /\ \A i \in 1..k : f \notin DOMAIN input[i]
  \/ \E i \in 1..k : /\ f \in DOMAIN input[i] /\ value = input[i][f]
                     /\ \A j \in 1..k : j > i => f \notin DOMAIN input[j]

\* The last call that gives a header, of the first k.
Gives(c, name) == "headers" \in DOMAIN c /\ c.headers[1] = name

GivenTo(name, k, i) ==
  i \in 1..k /\ Gives(input[i], name) /\ \A j \in 1..k : j > i => ~ Gives(input[j], name)

\* One more call.
LEMMA SetToStep ==
  ASSUME NEW f, NEW k \in Nat, NEW default, NEW value
  PROVE  /\ f \notin DOMAIN input[k + 1] /\ SetTo(f, k, default, value)
              => SetTo(f, k + 1, default, value)
         /\ f \in DOMAIN input[k + 1] => SetTo(f, k + 1, default, input[k + 1][f])
<1>1. k + 1 \in 1..(k + 1) /\ \A i \in 1..k : i \in 1..(k + 1)
  OBVIOUS
<1>2. \A i \in 1..(k + 1) : i = k + 1 \/ i \in 1..k
  OBVIOUS
<1>3. \A i \in 1..(k + 1) : ~ (i > k + 1)
  OBVIOUS
<1>4. ASSUME f \notin DOMAIN input[k + 1], SetTo(f, k, default, value)
      PROVE  SetTo(f, k + 1, default, value)
  <2>1. CASE value = default /\ \A i \in 1..k : f \notin DOMAIN input[i]
    BY ONLY <1>2, <1>4, <2>1 DEF SetTo
  <2>2. CASE \E i \in 1..k : /\ f \in DOMAIN input[i] /\ value = input[i][f]
                             /\ \A j \in 1..k : j > i => f \notin DOMAIN input[j]
    BY ONLY <1>1, <1>2, <1>4, <2>2 DEF SetTo
  <2> QED
    BY ONLY <1>4, <2>1, <2>2 DEF SetTo
<1>5. ASSUME f \in DOMAIN input[k + 1] PROVE SetTo(f, k + 1, default, input[k + 1][f])
  BY ONLY <1>1, <1>3, <1>5 DEF SetTo
<1> QED
  BY ONLY <1>4, <1>5

\* It is what LastSet says.
LEMMA SetToIsLast ==
  ASSUME NEW f, NEW default, NEW value, Len(input) \in Nat,
         SetTo(f, Len(input), default, value)
  PROVE  LastSet(f, default) = value
<1> DEFINE I == {i \in 1..Len(input) : f \in DOMAIN input[i]}
<1>1. LastSet(f, default) = IF I = {} THEN default ELSE input[Max(I)][f]
  BY DEF LastSet
<1>2. CASE value = default /\ \A i \in 1..Len(input) : f \notin DOMAIN input[i]
  BY <1>1, <1>2
<1>3. CASE \E i \in 1..Len(input) : /\ f \in DOMAIN input[i] /\ value = input[i][f]
                                    /\ \A j \in 1..Len(input) : j > i => f \notin DOMAIN input[j]
  <2>1. PICK i \in I : value = input[i][f] /\ \A j \in I : ~ (j > i)
    BY <1>3
  <2>2. I \in SUBSET Nat
    OBVIOUS
  <2>3. Max(I) = i
    <3> HIDE DEF I
    <3> QED
      BY <2>1, <2>2, MaxIs
  <2> QED
    BY <1>1, <2>1, <2>3
<1> QED
  BY <1>2, <1>3 DEF SetTo

\* And so it is for the headers.
LEMMA GivenIs ==
  ASSUME NEW name, Len(input) \in Nat
  PROVE  /\ Given(name) = {} => \A i \in 1..Len(input) : ~ Gives(input[i], name)
         /\ Given(name) # {} => GivenTo(name, Len(input), Max(Given(name)))
<1> DEFINE I == Given(name)
<1>1. I = {i \in 1..Len(input) : Gives(input[i], name)} /\ I \in SUBSET Nat
  BY DEF Given, Gives
<1>2. ASSUME I # {} PROVE GivenTo(name, Len(input), Max(I))
  <2>1. PICK n \in Nat : n = Len(input) /\ I \in SUBSET (1..n)
    BY <1>1
  <2>2. PICK x \in I : \A y \in I : ~ (y > x)
    <3> HIDE DEF I
    <3> QED
      BY <1>2, <2>1, GreatestNumber
  <2>3. Max(I) = x
    <3> HIDE DEF I
    <3> QED
      BY <1>1, <2>2, MaxIs
  <2>4. \A j \in 1..Len(input) : j > x => ~ Gives(input[j], name)
    BY <1>1, <2>2
  <2> QED
    BY <1>1, <2>3, <2>4 DEF GivenTo
<1> QED
  BY <1>1, <1>2

\* What RequestMade computes, call by call.
Requested(cs, n, f) ==
  f = [i \in 0..n |-> IF i = 0 THEN NewRequest ELSE Set(f[i - 1], cs[i])]

\* There are such requests, for any number of calls.
LEMMA RequestedExist ==
  ASSUME NEW cs, NEW n \in Nat
  PROVE  \E f : Requested(cs, n, f)
<1> DEFINE T == {k \in Nat : \E f : Requested(cs, k, f)}
           Then(r, i) == Set(r, cs[i])
<1> HIDE DEF Then
<1>1. 0 \in T
  <2>1. Requested(cs, 0, [i \in 0..0 |-> NewRequest])
    BY DEF Requested
  <2> QED
    BY <2>1
<1>2. ASSUME NEW k \in T PROVE k + 1 \in T
  <2>1. PICK f : Requested(cs, k, f)
    OBVIOUS
  <2> DEFINE g == [i \in 0..(k + 1) |-> IF i \in 0..k THEN f[i] ELSE Then(f[k], i)]
  <2>2. ASSUME NEW i \in 0..(k + 1)
        PROVE  g[i] = IF i = 0 THEN NewRequest ELSE Then(g[i - 1], i)
    <3>1. CASE i = 0
      BY <2>1, <3>1 DEF Requested
    <3>2. CASE i # 0 /\ i \in 0..k
      <4>1. i - 1 \in 0..k /\ i - 1 \in 0..(k + 1)
        BY <3>2
      <4>2. g[i] = f[i] /\ g[i - 1] = f[i - 1]
        BY <3>2, <4>1
      <4>3. f[i] = Then(f[i - 1], i)
        BY <2>1, <3>2 DEF Requested, Then
      <4> QED
        BY <3>2, <4>2, <4>3
    <3>3. CASE i # 0 /\ i \notin 0..k
      <4>1. i - 1 = k /\ k \in 0..k /\ k \in 0..(k + 1)
        BY <3>3
      <4>2. g[i] = Then(f[k], i) /\ g[i - 1] = f[k]
        BY <3>3, <4>1
      <4> QED
        BY <3>3, <4>2
    <3> QED
      BY <3>1, <3>2, <3>3
  <2>3. Requested(cs, k + 1, g)
    BY <2>2 DEF Requested, Then
  <2> QED
    BY <2>3
<1>3. T = Nat
  <2> HIDE DEF T
  <2>1. T \subseteq Nat
    BY DEF T
  <2> QED
    BY <1>1, <1>2, <2>1, SetInduction
<1> QED
  BY <1>3

\* The fields of a request besides its headers.
Fields == {"method", "path", "host", "body", "content_type", "keep_alive"}

\* What the first k calls have made of a request.
Sofar(r, k) ==
  /\ DOMAIN r = Fields \cup {"headers"} /\ r.headers \in Seq(Line)
  /\ \A f \in Fields : SetTo(f, k, NewRequest[f], r[f])
  /\ \A name : (\A i \in 1..k : ~ Gives(input[i], name)) => NoLine(r.headers, name)
  /\ \A name : \A i \in 1..k :
       GivenTo(name, k, i) => LastLine(r.headers, name, input[i].headers[2])

\* One more call.
LEMMA SetIs ==
  ASSUME NEW r, NEW k \in Nat, Sofar(r, k), IsCall(input[k + 1])
  PROVE  Sofar(Set(r, input[k + 1]), k + 1)
<1>1. PICK c : c = input[k + 1]
  OBVIOUS
<1>2. PICK q : q = Set(r, c)
  OBVIOUS
<1>3. /\ DOMAIN q = DOMAIN r
      /\ \A f \in DOMAIN r : q[f] = IF f \notin DOMAIN c THEN r[f]
                                    ELSE IF f = "headers" THEN Append(r[f], c[f]) ELSE c[f]
  BY ONLY <1>2 DEF Set
<1>4. "headers" \notin Fields /\ DOMAIN r = Fields \cup {"headers"} /\ r.headers \in Seq(Line)
  BY DEF Sofar, Fields
<1>5. \A f \in Fields : q[f] = IF f \notin DOMAIN c THEN r[f] ELSE c[f]
  BY ONLY <1>3, <1>4
<1>6. q.headers = IF "headers" \notin DOMAIN c THEN r.headers ELSE Append(r.headers, c.headers)
  BY ONLY <1>3, <1>4
<1>7. ASSUME NEW f \in Fields PROVE SetTo(f, k + 1, NewRequest[f], q[f])
  <2>1. SetTo(f, k, NewRequest[f], r[f])
    BY DEF Sofar
  <2>2. CASE f \notin DOMAIN c
    <3>1. q[f] = r[f]
      BY ONLY <1>5, <2>2
    <3>2. SetTo(f, k + 1, NewRequest[f], r[f])
      BY <1>1, <2>1, <2>2, SetToStep
    <3> QED
      BY ONLY <3>1, <3>2
  <2>3. CASE f \in DOMAIN c
    <3>1. q[f] = input[k + 1][f]
      BY ONLY <1>1, <1>5, <2>3
    <3>2. SetTo(f, k + 1, NewRequest[f], input[k + 1][f])
      BY <1>1, <2>3, SetToStep
    <3> QED
      BY ONLY <3>1, <3>2
  <2> QED
    BY <2>2, <2>3
<1>8. k + 1 \in 1..(k + 1) /\ \A i \in 1..k : i \in 1..(k + 1) /\ k + 1 > i
  OBVIOUS
<1>9. \A i \in 1..(k + 1) : i = k + 1 \/ i \in 1..k
  OBVIOUS
<1>10. PICK h \in Seq(Line) : h = r.headers
  BY <1>4
<1>11. CASE "headers" \notin DOMAIN c
  <2>1. q.headers = h
    BY ONLY <1>6, <1>10, <1>11
  <2>2. ASSUME NEW name PROVE ~ Gives(input[k + 1], name)
    BY ONLY <1>1, <1>11 DEF Gives
  <2>3. ASSUME NEW name, \A i \in 1..(k + 1) : ~ Gives(input[i], name)
        PROVE  NoLine(h, name)
    <3>1. \A i \in 1..k : ~ Gives(input[i], name)
      BY ONLY <1>8, <2>3
    <3> QED
      BY <1>10, <3>1 DEF Sofar
  <2>4. ASSUME NEW name, NEW i \in 1..(k + 1), GivenTo(name, k + 1, i)
        PROVE  LastLine(h, name, input[i].headers[2])
    <3>1. i \in 1..k
      BY ONLY <1>9, <2>2, <2>4 DEF GivenTo
    <3>2. GivenTo(name, k, i)
      BY ONLY <1>8, <2>4, <3>1 DEF GivenTo
    <3> QED
      BY <1>10, <3>1, <3>2 DEF Sofar
  <2> QED
    BY ONLY <1>1, <1>2, <1>3, <1>4, <1>7, <1>10, <2>1, <2>3, <2>4 DEF Sofar
<1>12. CASE "headers" \in DOMAIN c
  <2>1. PICK l \in Line : l = c.headers
    BY <1>1, <1>12 DEF IsCall
  <2>2. q.headers = h \o <<l>>
    <3>1. Append(h, l) = h \o <<l>>
      BY AppendIsConcat
    <3> QED
      BY ONLY <1>6, <1>10, <1>12, <2>1, <3>1
  <2>3. h \o <<l>> \in Seq(Line)
    BY OneLine, ConcatProperties
  <2>4. PICK e \in Seq(Line) : e = <<l>>
    BY OneLine
  <2>5. ASSUME NEW name
        PROVE  /\ l[1] # name => NoLine(e, name)
               /\ l[1] = name => LastLine(e, name, l[2])
               /\ NoLine(h, name) /\ NoLine(e, name) => NoLine(h \o e, name)
               /\ \A v : LastLine(e, name, v) => LastLine(h \o e, name, v)
               /\ \A v : LastLine(h, name, v) /\ NoLine(e, name) => LastLine(h \o e, name, v)
    BY <2>4, OneLine, LinesJoin
  <2>6. \A name : Gives(input[k + 1], name) <=> l[1] = name
    BY ONLY <1>1, <1>12, <2>1 DEF Gives
  <2>7. ASSUME NEW name, \A i \in 1..(k + 1) : ~ Gives(input[i], name)
        PROVE  NoLine(h \o e, name)
    <3>1. (\A i \in 1..k : ~ Gives(input[i], name)) /\ l[1] # name
      BY ONLY <1>8, <2>6, <2>7
    <3>2. NoLine(h, name)
      BY <1>10, <3>1 DEF Sofar
    <3> QED
      BY ONLY <2>5, <3>1, <3>2
  <2>8. ASSUME NEW name, NEW i \in 1..(k + 1), GivenTo(name, k + 1, i)
        PROVE  LastLine(h \o e, name, input[i].headers[2])
    <3>1. CASE i = k + 1
      <4>1. l[1] = name /\ input[i].headers[2] = l[2]
        BY ONLY <1>1, <2>1, <2>6, <2>8, <3>1 DEF GivenTo
      <4> QED
        BY ONLY <2>5, <4>1
    <3>2. CASE i \in 1..k
      <4>1. GivenTo(name, k, i) /\ l[1] # name
        BY ONLY <1>8, <2>6, <2>8, <3>2 DEF GivenTo
      <4>2. LastLine(h, name, input[i].headers[2])
        BY <1>10, <3>2, <4>1 DEF Sofar
      <4> QED
        BY ONLY <2>5, <4>1, <4>2
    <3> QED
      BY ONLY <1>9, <3>1, <3>2, i \in 1..(k + 1)
  <2> QED
    BY ONLY <1>1, <1>2, <1>3, <1>4, <1>7, <2>2, <2>3, <2>4, <2>7, <2>8 DEF Sofar
<1> QED
  BY <1>11, <1>12

\* All the calls.
LEMMA RequestIs ==
  ASSUME input \in Seq(RequestCalls)
  PROVE  Sofar(RequestMade, Len(input))
<1>1. PICK n \in Nat : n = Len(input)
  BY LenProperties
<1> DEFINE f == CHOOSE f : Requested(input, n, f)
<1>2. Requested(input, n, f)
  BY RequestedExist
<1>3. RequestMade = f[n]
  BY <1>1 DEF RequestMade, Requested
<1> HIDE DEF f
<1>4. f[0] = NewRequest /\ \A i \in 1..n : f[i] = Set(f[i - 1], input[i])
  <2>1. \A i \in 0..n : f[i] = IF i = 0 THEN NewRequest ELSE Set(f[i - 1], input[i])
    BY ONLY <1>2 DEF Requested
  <2>2. 0 \in 0..n /\ \A i \in 1..n : i \in 0..n /\ i # 0
    OBVIOUS
  <2> QED
    BY ONLY <2>1, <2>2
<1> DEFINE T == {k \in Nat : k <= n => Sofar(f[k], k)}
<1>5. 0 \in T
  <2>1. DOMAIN NewRequest = Fields \cup {"headers"} /\ NewRequest.headers = <<>>
    BY DEF NewRequest, Fields
  <2>2. <<>> \in Seq(Line) /\ Len(<<>>) = 0 /\ ~ \E i : i \in 1..0
    OBVIOUS
  <2>3. \A name : NoLine(<<>>, name)
    BY ONLY <2>2 DEF NoLine
  <2>4. \A g : SetTo(g, 0, NewRequest[g], NewRequest[g])
    BY ONLY <2>2 DEF SetTo
  <2>5. Sofar(NewRequest, 0)
    BY ONLY <2>1, <2>2, <2>3, <2>4 DEF Sofar
  <2> QED
    BY <1>4, <2>5
<1>6. ASSUME NEW k \in T PROVE k + 1 \in T
  <2>0. k \in Nat
    OBVIOUS
  <2> SUFFICES ASSUME k + 1 <= n PROVE Sofar(f[k + 1], k + 1)
    BY <2>0
  <2>1. k + 1 \in 1..n /\ (k + 1) - 1 = k /\ Sofar(f[k], k)
    OBVIOUS
  <2>2. f[k + 1] = Set(f[k], input[k + 1])
    BY ONLY <1>4, <2>1
  <2>3. IsCall(input[k + 1])
    BY <1>1, <2>1, ElementOfSeq, CallsAre
  <2>4. PICK r : r = f[k]
    OBVIOUS
  <2>5. Sofar(r, k)
    BY ONLY <2>1, <2>4
  <2>6. Sofar(Set(r, input[k + 1]), k + 1)
    BY <2>0, <2>3, <2>5, SetIs
  <2> QED
    BY ONLY <2>2, <2>4, <2>6
<1>7. T = Nat
  <2> HIDE DEF T
  <2>1. T \subseteq Nat
    BY DEF T
  <2> QED
    BY <1>5, <1>6, <2>1, SetInduction
<1>8. n \in T /\ n <= n
  BY <1>7
<1> QED
  BY <1>1, <1>3, <1>8

\* A field of the request is what its last setter has set.
LEMMA RequestField ==
  ASSUME input \in Seq(RequestCalls), NEW f \in Fields
  PROVE  /\ RequestMade[f] = LastSet(f, NewRequest[f])
         /\ \/ RequestMade[f] = NewRequest[f]
            \/ \E c : IsCall(c) /\ f \in DOMAIN c /\ RequestMade[f] = c[f]
<1>1. PICK n \in Nat : n = Len(input)
  BY LenProperties
<1>2. PICK v : v = RequestMade[f]
  OBVIOUS
<1>3. SetTo(f, n, NewRequest[f], v)
  BY <1>1, <1>2, RequestIs DEF Sofar
<1>4. LastSet(f, NewRequest[f]) = v
  BY <1>1, <1>3, SetToIsLast
<1>5. \A i \in 1..n : IsCall(input[i])
  BY <1>1, ElementOfSeq, CallsAre
<1>6. v = NewRequest[f] \/ \E c : IsCall(c) /\ f \in DOMAIN c /\ v = c[f]
  BY ONLY <1>3, <1>5 DEF SetTo
<1> QED
  BY ONLY <1>2, <1>4, <1>6

\* And the fields have values they can have.
LEMMA RequestType ==
  ASSUME input \in Seq(RequestCalls)
  PROVE  /\ RequestMade.method \in Method /\ RequestMade.path \in Seq(Mark)
         /\ RequestMade.host \in HeaderValue /\ RequestMade.body \in Nat
         /\ RequestMade.content_type \in HeaderValue /\ RequestMade.keep_alive \in BOOLEAN
         /\ RequestMade.headers \in Seq(Line)
<1>1. /\ NewRequest.method = "GET" /\ NewRequest.path = <<"/">> /\ NewRequest.host = Text("")
      /\ NewRequest.body = 0 /\ NewRequest.content_type = Text("plain")
      /\ NewRequest.keep_alive = FALSE
  BY DEF NewRequest
<1>2. /\ "GET" \in Method /\ <<"/">> \in Seq(Mark) /\ Text("") \in HeaderValue /\ 0 \in Nat
      /\ Text("plain") \in HeaderValue /\ FALSE \in BOOLEAN
  BY DEF Method, Mark, HeaderValue
<1>3. RequestMade.method \in Method
  <2>1. "method" \in Fields
    BY DEF Fields
  <2>2. \/ RequestMade.method = NewRequest.method
        \/ \E c : IsCall(c) /\ "method" \in DOMAIN c /\ RequestMade.method = c.method
    BY <2>1, RequestField
  <2> QED
    BY ONLY <1>1, <1>2, <2>2 DEF IsCall
<1>4. RequestMade.path \in Seq(Mark)
  <2>1. "path" \in Fields
    BY DEF Fields
  <2>2. \/ RequestMade.path = NewRequest.path
        \/ \E c : IsCall(c) /\ "path" \in DOMAIN c /\ RequestMade.path = c.path
    BY <2>1, RequestField
  <2> QED
    BY ONLY <1>1, <1>2, <2>2 DEF IsCall
<1>5. RequestMade.host \in HeaderValue
  <2>1. "host" \in Fields
    BY DEF Fields
  <2>2. \/ RequestMade.host = NewRequest.host
        \/ \E c : IsCall(c) /\ "host" \in DOMAIN c /\ RequestMade.host = c.host
    BY <2>1, RequestField
  <2> QED
    BY ONLY <1>1, <1>2, <2>2 DEF IsCall
<1>6. RequestMade.body \in Nat
  <2>1. "body" \in Fields
    BY DEF Fields
  <2>2. \/ RequestMade.body = NewRequest.body
        \/ \E c : IsCall(c) /\ "body" \in DOMAIN c /\ RequestMade.body = c.body
    BY <2>1, RequestField
  <2> QED
    BY ONLY <1>1, <1>2, <2>2 DEF IsCall
<1>7. RequestMade.content_type \in HeaderValue
  <2>1. "content_type" \in Fields
    BY DEF Fields
  <2>2. \/ RequestMade.content_type = NewRequest.content_type
        \/ \E c : /\ IsCall(c) /\ "content_type" \in DOMAIN c
                  /\ RequestMade.content_type = c.content_type
    BY <2>1, RequestField
  <2> QED
    BY ONLY <1>1, <1>2, <2>2 DEF IsCall
<1>8. RequestMade.keep_alive \in BOOLEAN
  <2>1. "keep_alive" \in Fields
    BY DEF Fields
  <2>2. \/ RequestMade.keep_alive = NewRequest.keep_alive
        \/ \E c : /\ IsCall(c) /\ "keep_alive" \in DOMAIN c
                  /\ RequestMade.keep_alive = c.keep_alive
    BY <2>1, RequestField
  <2> QED
    BY ONLY <1>1, <1>2, <2>2 DEF IsCall
<1>9. RequestMade.headers \in Seq(Line)
  BY RequestIs DEF Sofar
<1> QED
  BY ONLY <1>3, <1>4, <1>5, <1>6, <1>7, <1>8, <1>9

\* A target is parted at its first "?".
LEMMA TargetParts ==
  ASSUME NEW t \in Seq(Mark), NEW m, m.target = t
  PROVE  LET r == parse_request(m)
         IN  ~ Contains(r.path, "?") /\ t \in {r.path, r.path \o <<"?">> \o r.query}
<1> DEFINE I == {i \in 1..Len(t) : t[i] = "?"}
           q == SelectInSeq(t, LAMBDA c : c = "?")
<1>1. q = IF I # {} THEN Min(I) ELSE 0
  BY DEF SelectInSeq
<1>2. I \subseteq Nat /\ Len(t) \in Nat
  BY LenProperties
<1>3. /\ parse_request(m).path = (IF q = 0 THEN t ELSE SubSeq(t, 1, q - 1))
      /\ parse_request(m).query = (IF q = 0 THEN <<>> ELSE SubSeq(t, q + 1, Len(t)))
  BY DEF parse_request
<1>4. CASE I = {}
  <2>1. q = 0
    BY <1>1, <1>4
  <2>2. ~ Contains(t, "?")
    BY <1>4 DEF Contains
  <2> QED
    BY <1>3, <2>1, <2>2
<1>5. CASE I # {}
  <2>1. PICK x \in I : \A y \in I : x <= y
    <3> HIDE DEF I
    <3> QED
      BY <1>2, <1>5, LeastNumber
  <2>2. q \in I /\ \A y \in I : q <= y
    BY <1>1, <1>5, <2>1 DEF Min
  <2>3. q \in Nat /\ q \in 1..Len(t) /\ t[q] = "?" /\ q # 0
    BY <1>2, <2>2
  <2>4. \A i \in 1..(q - 1) : t[i] # "?"
    <3> SUFFICES ASSUME NEW i \in 1..(q - 1), t[i] = "?" PROVE FALSE
      OBVIOUS
    <3>1. i \in I /\ i < q
      BY <1>2, <2>3
    <3> QED
      BY <2>2, <2>3, <3>1
  <2> HIDE DEF q
  <2>5. PICK n \in Nat, l \in Nat : n = q - 1 /\ l = Len(t) /\ n + 1 = q /\ n + 1 <= l
    <3>1. q - 1 \in Nat /\ (q - 1) + 1 = q /\ (q - 1) + 1 <= Len(t)
      BY ONLY <1>2, <2>3
    <3> QED
      BY ONLY <1>2, <3>1
  <2>6. PICK a : a = SubSeq(t, 1, n)
    OBVIOUS
  <2>7. a \in Seq(Mark) /\ Len(a) = n /\ \A k \in 1..n : a[k] = t[k]
    <3>1. n <= Len(t)
      BY ONLY <2>5, n \in Nat, l \in Nat
    <3> QED
      BY <2>6, <3>1, FrontCut
  <2>8. ~ Contains(a, "?")
    BY ONLY <2>4, <2>5, <2>7 DEF Contains
  <2>9. t = a \o <<"?">> \o SubSeq(t, q + 1, Len(t))
    <3>1. SubSeq(t, 1, n) \o SubSeq(t, n + 1, l) = t
      <4>1. 0 \in Nat /\ 0 + 1 = 1 /\ 0 <= n /\ n <= l /\ l <= Len(t)
        BY ONLY <2>5, n \in Nat, l \in Nat
      <4>2. SubSeq(t, 0 + 1, n) \o SubSeq(t, n + 1, l) = SubSeq(t, 0 + 1, l)
        BY <4>1, Join
      <4>3. SubSeq(t, 1, Len(t)) = t
        BY SubSeqFull
      <4> QED
        BY ONLY <2>5, <4>1, <4>2, <4>3
    <3>2. SubSeq(t, n + 1, n + 1) \o SubSeq(t, (n + 1) + 1, l) = SubSeq(t, n + 1, l)
      <4>1. n \in Nat /\ n + 1 \in Nat /\ n <= n + 1 /\ n + 1 <= l /\ l <= Len(t)
        BY ONLY <2>5, n \in Nat, l \in Nat
      <4> QED
        BY <4>1, Join
    <3>3. SubSeq(t, n + 1, n + 1) = <<"?">>
      <4>1. n \in Nat /\ n + 1 \in Nat /\ n <= n + 1 /\ n + 1 <= Len(t)
            /\ (n + 1) - n = 1 /\ 1 \in 1..1 /\ \A i \in 1..1 : i = 1
        BY ONLY <2>5, n \in Nat, l \in Nat
      <4>2. PICK e : e = SubSeq(t, n + 1, n + 1)
        OBVIOUS
      <4>3. e \in Seq(Mark) /\ Len(e) = 1 /\ e[1] = t[n + 1]
        BY <4>1, <4>2, Cut
      <4>4. e = <<e[1]>>
        BY ONLY <4>3
      <4> QED
        BY ONLY <2>3, <2>5, <4>2, <4>3, <4>4
    <3>4. PICK z : z = SubSeq(t, q + 1, Len(t))
      OBVIOUS
    <3>5. z \in Seq(Mark) /\ <<"?">> \in Seq(Mark)
      <4>1. q \in Nat /\ Len(t) \in Nat /\ q <= Len(t) /\ Len(t) <= Len(t)
        BY ONLY <2>3, <1>2
      <4>2. SubSeq(t, q + 1, Len(t)) \in Seq(Mark)
        BY <4>1, Cut
      <4> QED
        BY <3>4, <4>2 DEF Mark
    <3>6. (a \o <<"?">>) \o z = a \o (<<"?">> \o z)
      BY <2>7, <3>5, ConcatAssociative
    <3> QED
      BY ONLY <2>5, <2>6, <3>1, <3>2, <3>3, <3>4, <3>6
  <2> QED
    BY ONLY <1>3, <2>3, <2>5, <2>6, <2>8, <2>9
<1> QED
  BY <1>4, <1>5

\* Two lines.
LEMMA TwoLines ==
  ASSUME NEW S, NEW x \in S, NEW y \in S, NEW name
  PROVE  /\ <<x, y>> \in Seq(S)
         /\ x[1] # name /\ y[1] # name => NoLine(<<x, y>>, name)
         /\ y[1] = name => LastLine(<<x, y>>, name, y[2])
<1>1. PICK c : c = <<x, y>>
  OBVIOUS
<1>2. c \in Seq(S) /\ Len(c) = 2 /\ c[1] = x /\ c[2] = y
  BY <1>1
<1>3. \A i \in 1..2 : i = 1 \/ i = 2
  OBVIOUS
<1>4. 2 \in 1..2 /\ ~ (1 > 2) /\ ~ (2 > 2)
  OBVIOUS
<1>5. x[1] # name /\ y[1] # name => NoLine(c, name)
  BY ONLY <1>2, <1>3 DEF NoLine
<1>6. y[1] = name => LastLine(c, name, y[2])
  <2>1. y[1] = name => LastAt(c, 2, name, 2)
    BY ONLY <1>2, <1>3, <1>4 DEF LastAt
  <2> QED
    BY ONLY <1>2, <1>4, <2>1 DEF LastLine
<1> QED
  BY ONLY <1>1, <1>2, <1>5, <1>6

\* The lines that build() writes itself.
LEMMA OwnLinesAre ==
  ASSUME NEW r, r.host \in HeaderValue, r.content_type \in HeaderValue, r.body \in Nat
  PROVE  /\ OwnLines(r) \in Seq(Line)
         /\ LastLine(OwnLines(r), "Connection",
                     Text(IF r.keep_alive THEN "keep-alive" ELSE "close"))
         /\ r.body > 0 => LastLine(OwnLines(r), "Content-Length", Size(r.body))
         /\ ~ (r.body > 0) => NoLine(OwnLines(r), "Content-Length")
<1>1. PICK a : a = IF r.host = Text("") THEN <<>> ELSE <<<<"Host", r.host>>>>
  OBVIOUS
<1>2. PICK v : v = Text(IF r.keep_alive THEN "keep-alive" ELSE "close")
  OBVIOUS
<1>3. PICK b : b = <<<<"Connection", v>>>>
  OBVIOUS
<1>4. PICK x, y : x = <<"Content-Type", r.content_type>> /\ y = <<"Content-Length", Size(r.body)>>
  OBVIOUS
<1>5. PICK c : c = IF ~ HasEntity(r) THEN <<>> ELSE <<x, y>>
  OBVIOUS
<1>6. OwnLines(r) = (a \o b) \o c
  BY ONLY <1>1, <1>2, <1>3, <1>4, <1>5 DEF OwnLines
<1>7. {"Host", "Connection", "Content-Type", "Content-Length"} \subseteq HeaderName
  BY DEF HeaderName
<1>8. v \in HeaderValue /\ Size(r.body) \in HeaderValue
  BY <1>2 DEF HeaderValue
<1>9. /\ x \in Line /\ y \in Line
      /\ x[1] = "Content-Type" /\ y[1] = "Content-Length" /\ y[2] = Size(r.body)
  <2>1. "Content-Type" \in HeaderName /\ "Content-Length" \in HeaderName
    BY ONLY <1>7
  <2>2. PICK u \in HeaderValue, z \in HeaderValue : u = r.content_type /\ z = Size(r.body)
    BY <1>8
  <2>3. <<"Content-Type", u>> \in Line /\ <<"Content-Type", u>>[1] = "Content-Type"
    BY <2>1, LineIs
  <2>4. <<"Content-Length", z>> \in Line /\ <<"Content-Length", z>>[1] = "Content-Length"
        /\ <<"Content-Length", z>>[2] = z
    BY <2>1, LineIs
  <2> QED
    BY ONLY <1>4, <2>2, <2>3, <2>4
<1>10. <<>> \in Seq(Line) /\ \A name : NoLine(<<>>, name)
  BY DEF NoLine
<1>11. /\ a \in Seq(Line) /\ NoLine(a, "Content-Length")
  <2>1. CASE r.host = Text("")
    BY ONLY <1>1, <1>10, <2>1
  <2>2. CASE r.host # Text("")
    <3>0. "Host" \in HeaderName /\ r.host \in HeaderValue
      BY <1>7
    <3>1. PICK h \in Line : h = <<"Host", r.host>> /\ h[1] = "Host"
      <4>1. <<"Host", r.host>> \in Line /\ <<"Host", r.host>>[1] = "Host"
        BY ONLY <3>0, LineIs
      <4> QED
        BY ONLY <4>1
    <3>2. <<h>> \in Seq(Line) /\ NoLine(<<h>>, "Content-Length")
      BY <3>1, OneLine
    <3> QED
      BY ONLY <1>1, <2>2, <3>1, <3>2
  <2> QED
    BY <2>1, <2>2
<1>12. /\ b \in Seq(Line) /\ NoLine(b, "Content-Length") /\ LastLine(b, "Connection", v)
  <2>0. "Connection" \in HeaderName /\ v \in HeaderValue
    BY ONLY <1>7, <1>8
  <2>1. PICK h \in Line : h = <<"Connection", v>> /\ h[1] = "Connection" /\ h[2] = v
    <3>1. <<"Connection", v>> \in Line /\ <<"Connection", v>>[1] = "Connection"
          /\ <<"Connection", v>>[2] = v
      BY ONLY <2>0, LineIs
    <3> QED
      BY ONLY <3>1
  <2>2. /\ <<h>> \in Seq(Line)
        /\ NoLine(<<h>>, "Content-Length") /\ LastLine(<<h>>, "Connection", h[2])
    BY <2>1, OneLine
  <2> QED
    BY ONLY <1>3, <2>1, <2>2
<1>13. PICK ab : ab = a \o b
  OBVIOUS
<1>14. /\ ab \in Seq(Line) /\ NoLine(ab, "Content-Length") /\ LastLine(ab, "Connection", v)
  BY <1>11, <1>12, <1>13, ConcatProperties, LinesJoin
<1>15. CASE ~ HasEntity(r)
  <2>1. c = <<>>
    BY ONLY <1>5, <1>15
  <2>2. ab \o c = ab
    BY <1>14, <2>1, ConcatEmptySeq
  <2>3. ~ (r.body > 0)
    BY <1>15 DEF HasEntity
  <2> QED
    BY ONLY <1>2, <1>6, <1>13, <1>14, <2>2, <2>3
<1>16. CASE HasEntity(r)
  <2>1. PICK d : d = <<x, y>>
    OBVIOUS
  <2>2. d \in Seq(Line) /\ NoLine(d, "Connection") /\ LastLine(d, "Content-Length", y[2])
    BY <1>9, <2>1, TwoLines
  <2>3. c = d
    BY ONLY <1>5, <1>16, <2>1
  <2>4. c \in Seq(Line) /\ NoLine(c, "Connection") /\ LastLine(c, "Content-Length", Size(r.body))
    BY ONLY <1>9, <2>2, <2>3
  <2>5. /\ ab \o c \in Seq(Line) /\ LastLine(ab \o c, "Connection", v)
        /\ LastLine(ab \o c, "Content-Length", Size(r.body))
    BY <1>14, <2>4, ConcatProperties, LinesJoin
  <2>6. r.body > 0
    BY <1>16 DEF HasEntity
  <2> QED
    BY ONLY <1>2, <1>6, <1>13, <2>5, <2>6
<1> QED
  BY <1>15, <1>16

\* A method is read as it was written.
LEMMA MethodIs ==
  ASSUME NEW m \in Method
  PROVE  method_from_string(method_to_string(m)) = m
<1>1. \A a, b \in Method : method_to_string(a) = method_to_string(b) => a = b
  BY DEF Method, method_to_string
<1>2. PICK s : s = method_to_string(m)
  OBVIOUS
<1>3. \A a \in Method : method_to_string(a) = s => a = m
  BY ONLY <1>1, <1>2, m \in Method
<1>4. (CHOOSE a \in Method : method_to_string(a) = s) = m
  BY ONLY <1>2, <1>3, m \in Method
<1>5. method_from_string(s) = m
  BY ONLY <1>2, <1>4, m \in Method DEF method_from_string
<1> QED
  BY ONLY <1>2, <1>5

\* The size of the body is the number of the line that states it, and none without one.
LEMMA NoLength ==
  ASSUME NEW headers
  PROVE  /\ Lookup(headers, "Content-Length") = Text("") => ContentLength(headers) = 0
         /\ \A n : Lookup(headers, "Content-Length") = Size(n) => ContentLength(headers) = n
<1>1. PICK v : v = Lookup(headers, "Content-Length")
  OBVIOUS
<1>2. ContentLength(headers) = IF v[1] = "size" THEN v[2] ELSE 0
  BY ONLY <1>1 DEF ContentLength
<1>3. ASSUME v = Text("") PROVE ContentLength(headers) = 0
  <2>1. v[1] = "text"
    BY ONLY <1>3 DEF Text
  <2>2. "text" # "size"
    OBVIOUS
  <2> QED
    BY ONLY <1>2, <2>1, <2>2
<1>4. ASSUME NEW n, v = Size(n) PROVE ContentLength(headers) = n
  <2>1. v[1] = "size" /\ v[2] = n
    BY ONLY <1>4 DEF Size
  <2> QED
    BY ONLY <1>2, <2>1
<1> QED
  BY ONLY <1>1, <1>3, <1>4

\* The server gets the request that was built.
LEMMA RequestArrives ==
  ASSUME input \in Seq(RequestCalls)
  PROVE  RequestComesOut
<1>1. PICK R : R = RequestMade
  OBVIOUS
<1>2. /\ R.method \in Method /\ R.path \in Seq(Mark) /\ R.host \in HeaderValue /\ R.body \in Nat
      /\ R.content_type \in HeaderValue /\ R.keep_alive \in BOOLEAN /\ R.headers \in Seq(Line)
  BY <1>1, RequestType
<1>3. /\ R.method = LastSet("method", "GET") /\ R.path = LastSet("path", <<"/">>)
      /\ R.body = LastSet("body", 0) /\ R.keep_alive = LastSet("keep_alive", FALSE)
  <2>1. {"method", "path", "body", "keep_alive"} \subseteq Fields
    BY DEF Fields
  <2>2. /\ NewRequest["method"] = "GET" /\ NewRequest["path"] = <<"/">>
        /\ NewRequest["body"] = 0 /\ NewRequest["keep_alive"] = FALSE
    BY DEF NewRequest
  <2>3. \A f \in Fields : R[f] = LastSet(f, NewRequest[f])
    BY <1>1, RequestField
  <2> QED
    BY ONLY <2>1, <2>2, <2>3
<1>4. PICK n \in Nat : n = Len(input)
  BY LenProperties
<1>5. ASSUME NEW name
      PROVE  /\ Given(name) = {} => NoLine(R.headers, name)
             /\ Given(name) # {} => LastLine(R.headers, name, input[Max(Given(name))].headers[2])
  <2>1. CASE Given(name) = {}
    <3>1. \A i \in 1..n : ~ Gives(input[i], name)
      BY <1>4, <2>1, GivenIs
    <3> QED
      BY <1>1, <1>4, <2>1, <3>1, RequestIs DEF Sofar
  <2>2. CASE Given(name) # {}
    <3>1. PICK i : i = Max(Given(name))
      OBVIOUS
    <3>2. GivenTo(name, n, i)
      BY <1>4, <2>2, <3>1, GivenIs
    <3>3. i \in 1..n
      BY ONLY <3>2 DEF GivenTo
    <3>4. LastLine(R.headers, name, input[i].headers[2])
      BY <1>1, <1>4, <3>2, <3>3, RequestIs DEF Sofar
    <3> QED
      BY ONLY <2>2, <3>1, <3>4
  <2> QED
    BY <2>1, <2>2
<1>6. PICK o : o = OwnLines(R)
  OBVIOUS
<1>7. /\ o \in Seq(Line)
      /\ LastLine(o, "Connection", Text(IF R.keep_alive THEN "keep-alive" ELSE "close"))
      /\ R.body > 0 => LastLine(o, "Content-Length", Size(R.body))
      /\ ~ (R.body > 0) => NoLine(o, "Content-Length")
  BY <1>2, <1>6, OwnLinesAre
<1>8. PICK h \in Seq(Line) : h = R.headers
  BY <1>2
<1>9. PICK lines : lines = o \o h
  OBVIOUS
<1>10. lines \in Seq(Line)
  BY <1>7, <1>9, ConcatProperties
<1>11. ASSUME NEW name
       PROVE  /\ NoLine(o, name) /\ NoLine(h, name) => Lookup(HeaderMap(lines), name) = Text("")
              /\ \A v : LastLine(h, name, v) => Lookup(HeaderMap(lines), name) = v
              /\ \A v : LastLine(o, name, v) /\ NoLine(h, name)
                        => Lookup(HeaderMap(lines), name) = v
  <2>1. /\ NoLine(o, name) /\ NoLine(h, name) => NoLine(lines, name)
        /\ \A v : LastLine(h, name, v) => LastLine(lines, name, v)
        /\ \A v : LastLine(o, name, v) /\ NoLine(h, name) => LastLine(lines, name, v)
    BY <1>7, <1>9, LinesJoin
  <2>2. /\ NoLine(lines, name) => Lookup(HeaderMap(lines), name) = Text("")
        /\ \A v : LastLine(lines, name, v) => Lookup(HeaderMap(lines), name) = v
    BY <1>10, LookupIs
  <2> QED
    BY ONLY <2>1, <2>2
<1>12. PICK t \in Seq(Mark) : t = IF R.path = <<>> THEN <<"/">> ELSE R.path
  <2>1. <<"/">> \in Seq(Mark)
    BY DEF Mark
  <2> QED
    BY <1>2, <2>1
<1>13. PICK m : m = build(R)
  OBVIOUS
<1>14. m.target = t /\ m.method = method_to_string(R.method) /\ m.lines = lines
  BY ONLY <1>6, <1>8, <1>9, <1>12, <1>13 DEF build
<1>15. PICK r : r = parse_request(m)
  OBVIOUS
<1>16. r.method = R.method /\ r.headers = HeaderMap(lines)
  <2>1. r.method = method_from_string(m.method) /\ r.headers = HeaderMap(m.lines)
    BY ONLY <1>15 DEF parse_request
  <2>2. method_from_string(method_to_string(R.method)) = R.method
    BY <1>2, MethodIs
  <2> QED
    BY ONLY <1>14, <2>1, <2>2
<1>17. ~ Contains(r.path, "?") /\ t \in {r.path, r.path \o <<"?">> \o r.query}
  BY <1>14, <1>15, TargetParts
<1>18. GivenStands(r.headers, {"X", "Connection", "Content-Type", "Content-Length"})
  <2>1. ASSUME NEW name, Given(name) # {}
        PROVE  Lookup(r.headers, name) = input[Max(Given(name))].headers[2]
    BY ONLY <1>5, <1>8, <1>11, <1>16, <2>1
  <2> QED
    BY ONLY <2>1 DEF GivenStands
<1>19. Given("Connection") = {} =>
         Lookup(r.headers, "Connection") = Text(IF R.keep_alive THEN "keep-alive" ELSE "close")
  BY ONLY <1>5, <1>7, <1>8, <1>11, <1>16
<1>20. Given("Content-Length") = {} => ContentLength(r.headers) = R.body
  <2> SUFFICES ASSUME Given("Content-Length") = {} PROVE ContentLength(r.headers) = R.body
    OBVIOUS
  <2>1. NoLine(h, "Content-Length")
    BY ONLY <1>5, <1>8, Given("Content-Length") = {}
  <2>2. CASE R.body > 0
    <3>1. Lookup(r.headers, "Content-Length") = Size(R.body)
      BY ONLY <1>7, <1>11, <1>16, <2>1, <2>2
    <3> QED
      BY ONLY <3>1, NoLength
  <2>3. CASE ~ (R.body > 0)
    <3>1. Lookup(r.headers, "Content-Length") = Text("")
      BY ONLY <1>7, <1>11, <1>16, <2>1, <2>3
    <3>2. R.body = 0
      BY <1>2, <2>3
    <3>3. ContentLength(r.headers) = 0
      BY ONLY <3>1, NoLength
    <3> QED
      BY ONLY <3>2, <3>3
  <2> QED
    BY <2>2, <2>3
<1> QED
  BY ONLY <1>1, <1>3, <1>12, <1>13, <1>15, <1>16, <1>17, <1>18, <1>19, <1>20 DEF RequestComesOut

\* header() and a body that is not empty put a header into the map of a response.
Puts(c, name) ==
  \/ Gives(c, name)
  \/ name = "Content-Type" /\ "body" \in DOMAIN c /\ c.body > 0

PutValue(c) == IF "body" \in DOMAIN c THEN c.content_type ELSE c.headers[2]

PutTo(name, k, i) ==
  i \in 1..k /\ Puts(input[i], name) /\ \A j \in 1..k : j > i => ~ Puts(input[j], name)

\* No call gives a header and a body.
IsAnswerCall(c) == "headers" \in DOMAIN c => "body" \notin DOMAIN c

\* The calls of MCParsers do not.
LEMMA AnswerCallsAre == \A c \in ResponseCalls : IsAnswerCall(c)
<1>1. \A s : IsAnswerCall(status(s))
  BY DEF IsAnswerCall, status
<1>2. \A n, t : IsAnswerCall(body(n, t))
  BY DEF IsAnswerCall, body
<1>3. \A n, v : IsAnswerCall(header(n, v))
  BY DEF IsAnswerCall, header
<1> QED
  BY ONLY <1>1, <1>2, <1>3 DEF ResponseCalls, Headers, Bodies, html, json

\* What the first k calls have made of a response.
Answered(r, k) ==
  /\ SetTo("status", k, "OK", r.status)
  /\ SetTo("body", k, 0, r.body)
  /\ IsFiniteSet(DOMAIN r.headers)
  /\ \A name : (\A i \in 1..k : ~ Puts(input[i], name)) => name \notin DOMAIN r.headers
  /\ \A name : \A i \in 1..k :
       PutTo(name, k, i) => name \in DOMAIN r.headers /\ r.headers[name] = PutValue(input[i])

\* One more call.
LEMMA AnswerIs ==
  ASSUME NEW r, NEW k \in Nat, Answered(r, k), IsAnswerCall(input[k + 1])
  PROVE  Answered(SetResponse(r, input[k + 1]), k + 1)
<1>1. PICK c : c = input[k + 1]
  OBVIOUS
<1>2. PICK q : q = SetResponse(r, c)
  OBVIOUS
<1>3. /\ q.status = IF "status" \in DOMAIN c THEN c.status ELSE r.status
      /\ q.body = IF "body" \in DOMAIN c THEN c.body ELSE r.body
      /\ q.headers = IF "headers" \in DOMAIN c THEN SetHeader(r.headers, c.headers[1], c.headers[2])
                     ELSE IF "body" \in DOMAIN c /\ c.body > 0
                     THEN SetHeader(r.headers, "Content-Type", c.content_type) ELSE r.headers
  BY ONLY <1>2 DEF SetResponse
<1>4. SetTo("status", k + 1, "OK", q.status)
  <2>1. SetTo("status", k, "OK", r.status)
    BY DEF Answered
  <2>2. /\ "status" \notin DOMAIN c => SetTo("status", k + 1, "OK", r.status)
        /\ "status" \in DOMAIN c => SetTo("status", k + 1, "OK", c.status)
    BY <1>1, <2>1, SetToStep
  <2> QED
    BY ONLY <1>3, <2>2
<1>5. SetTo("body", k + 1, 0, q.body)
  <2>1. SetTo("body", k, 0, r.body)
    BY DEF Answered
  <2>2. /\ "body" \notin DOMAIN c => SetTo("body", k + 1, 0, r.body)
        /\ "body" \in DOMAIN c => SetTo("body", k + 1, 0, c.body)
    BY <1>1, <2>1, SetToStep
  <2> QED
    BY ONLY <1>3, <2>2
<1>6. k + 1 \in 1..(k + 1) /\ \A i \in 1..k : i \in 1..(k + 1) /\ k + 1 > i
  OBVIOUS
<1>7. \A i \in 1..(k + 1) : i = k + 1 \/ i \in 1..k
  OBVIOUS
<1>8. PICK h : h = r.headers
  OBVIOUS
<1>9. /\ IsFiniteSet(DOMAIN h)
      /\ \A name : (\A i \in 1..k : ~ Puts(input[i], name)) => name \notin DOMAIN h
      /\ \A name : \A i \in 1..k :
           PutTo(name, k, i) => name \in DOMAIN h /\ h[name] = PutValue(input[i])
  BY <1>8 DEF Answered
<1>10. CASE \A name : ~ Puts(c, name)
  <2>1. q.headers = h
    <3>1. "headers" \notin DOMAIN c
      BY ONLY <1>10 DEF Puts, Gives
    <3>2. ~ ("body" \in DOMAIN c /\ c.body > 0)
      BY ONLY <1>10 DEF Puts
    <3> QED
      BY ONLY <1>3, <1>8, <3>1, <3>2
  <2>2. ASSUME NEW name, \A i \in 1..(k + 1) : ~ Puts(input[i], name)
        PROVE  name \notin DOMAIN h
    BY ONLY <1>6, <1>9, <2>2
  <2>3. ASSUME NEW name, NEW i \in 1..(k + 1), PutTo(name, k + 1, i)
        PROVE  name \in DOMAIN h /\ h[name] = PutValue(input[i])
    <3>1. i \in 1..k
      BY ONLY <1>1, <1>7, <1>10, <2>3 DEF PutTo
    <3>2. PutTo(name, k, i)
      BY ONLY <1>6, <2>3, <3>1 DEF PutTo
    <3> QED
      BY ONLY <1>9, <3>1, <3>2
  <2> QED
    BY ONLY <1>1, <1>2, <1>4, <1>5, <1>9, <2>1, <2>2, <2>3 DEF Answered
<1>11. CASE \E name : Puts(c, name)
  <2>1. PICK n, v : /\ q.headers = SetHeader(h, n, v) /\ v = PutValue(c)
                    /\ \A name : Puts(c, name) <=> name = n
    <3>1. CASE "headers" \in DOMAIN c
      <4>1. "body" \notin DOMAIN c
        BY ONLY <1>1, <3>1, IsAnswerCall(input[k + 1]) DEF IsAnswerCall
      <4>2. q.headers = SetHeader(h, c.headers[1], c.headers[2])
        BY ONLY <1>3, <1>8, <3>1
      <4>3. PutValue(c) = c.headers[2]
        BY ONLY <4>1 DEF PutValue
      <4>4. \A name : Puts(c, name) <=> name = c.headers[1]
        BY ONLY <3>1, <4>1 DEF Puts, Gives
      <4> QED
        BY ONLY <4>2, <4>3, <4>4
    <3>2. CASE "headers" \notin DOMAIN c
      <4>1. "body" \in DOMAIN c /\ c.body > 0
        BY ONLY <1>11, <3>2 DEF Puts, Gives
      <4>2. q.headers = SetHeader(h, "Content-Type", c.content_type)
        BY ONLY <1>3, <1>8, <3>2, <4>1
      <4>3. PutValue(c) = c.content_type
        BY ONLY <4>1 DEF PutValue
      <4>4. \A name : Puts(c, name) <=> name = "Content-Type"
        BY ONLY <3>2, <4>1 DEF Puts, Gives
      <4> QED
        BY ONLY <4>2, <4>3, <4>4
    <3> QED
      BY <3>1, <3>2
  <2>2. PICK g : g = q.headers
    OBVIOUS
  <2>3. /\ DOMAIN g = DOMAIN h \cup {n} /\ g[n] = v
        /\ \A m \in DOMAIN h : m # n => g[m] = h[m]
    <3>1. g = SetHeader(h, n, v)
      BY ONLY <2>1, <2>2
    <3> QED
      BY ONLY <3>1 DEF SetHeader
  <2>4. IsFiniteSet(DOMAIN g)
    BY <1>9, <2>3, FS_AddElement
  <2>5. ASSUME NEW name, \A i \in 1..(k + 1) : ~ Puts(input[i], name)
        PROVE  name \notin DOMAIN g
    <3>1. (\A i \in 1..k : ~ Puts(input[i], name)) /\ name # n
      BY ONLY <1>1, <1>6, <2>1, <2>5
    <3> QED
      BY ONLY <1>9, <2>3, <3>1
  <2>6. ASSUME NEW name, NEW i \in 1..(k + 1), PutTo(name, k + 1, i)
        PROVE  name \in DOMAIN g /\ g[name] = PutValue(input[i])
    <3>1. CASE i = k + 1
      BY ONLY <1>1, <2>1, <2>3, <2>6, <3>1 DEF PutTo
    <3>2. CASE i \in 1..k
      <4>1. PutTo(name, k, i) /\ name # n
        BY ONLY <1>1, <1>6, <2>1, <2>6, <3>2 DEF PutTo
      <4> QED
        BY ONLY <1>9, <2>3, <3>2, <4>1
    <3> QED
      BY ONLY <1>7, <3>1, <3>2, i \in 1..(k + 1)
  <2> QED
    BY ONLY <1>1, <1>2, <1>4, <1>5, <2>2, <2>4, <2>5, <2>6 DEF Answered
<1> QED
  BY <1>10, <1>11

\* What ResponseMade computes, call by call.
Responded(cs, n, f) ==
  f = [i \in 0..n |-> IF i = 0 THEN NewResponse ELSE SetResponse(f[i - 1], cs[i])]

\* There are such responses, for any number of calls.
LEMMA RespondedExist ==
  ASSUME NEW cs, NEW n \in Nat
  PROVE  \E f : Responded(cs, n, f)
<1> DEFINE T == {k \in Nat : \E f : Responded(cs, k, f)}
           Then(r, i) == SetResponse(r, cs[i])
<1> HIDE DEF Then
<1>1. 0 \in T
  <2>1. Responded(cs, 0, [i \in 0..0 |-> NewResponse])
    BY DEF Responded
  <2> QED
    BY <2>1
<1>2. ASSUME NEW k \in T PROVE k + 1 \in T
  <2>1. PICK f : Responded(cs, k, f)
    OBVIOUS
  <2> DEFINE g == [i \in 0..(k + 1) |-> IF i \in 0..k THEN f[i] ELSE Then(f[k], i)]
  <2>2. ASSUME NEW i \in 0..(k + 1)
        PROVE  g[i] = IF i = 0 THEN NewResponse ELSE Then(g[i - 1], i)
    <3>1. CASE i = 0
      BY <2>1, <3>1 DEF Responded
    <3>2. CASE i # 0 /\ i \in 0..k
      <4>1. i - 1 \in 0..k /\ i - 1 \in 0..(k + 1)
        BY <3>2
      <4>2. g[i] = f[i] /\ g[i - 1] = f[i - 1]
        BY <3>2, <4>1
      <4>3. f[i] = Then(f[i - 1], i)
        BY <2>1, <3>2 DEF Responded, Then
      <4> QED
        BY <3>2, <4>2, <4>3
    <3>3. CASE i # 0 /\ i \notin 0..k
      <4>1. i - 1 = k /\ k \in 0..k /\ k \in 0..(k + 1)
        BY <3>3
      <4>2. g[i] = Then(f[k], i) /\ g[i - 1] = f[k]
        BY <3>3, <4>1
      <4> QED
        BY <3>3, <4>2
    <3> QED
      BY <3>1, <3>2, <3>3
  <2>3. Responded(cs, k + 1, g)
    BY <2>2 DEF Responded, Then
  <2> QED
    BY <2>3
<1>3. T = Nat
  <2> HIDE DEF T
  <2>1. T \subseteq Nat
    BY DEF T
  <2> QED
    BY <1>1, <1>2, <2>1, SetInduction
<1> QED
  BY <1>3

\* All the calls of a response.
LEMMA ResponseIs ==
  ASSUME input \in Seq(ResponseCalls)
  PROVE  Answered(ResponseMade, Len(input))
<1>1. PICK n \in Nat : n = Len(input)
  BY LenProperties
<1> DEFINE f == CHOOSE f : Responded(input, n, f)
<1>2. Responded(input, n, f)
  BY RespondedExist
<1>3. ResponseMade = f[n]
  BY <1>1 DEF ResponseMade, Responded
<1> HIDE DEF f
<1>4. f[0] = NewResponse /\ \A i \in 1..n : f[i] = SetResponse(f[i - 1], input[i])
  <2>1. \A i \in 0..n : f[i] = IF i = 0 THEN NewResponse ELSE SetResponse(f[i - 1], input[i])
    BY ONLY <1>2 DEF Responded
  <2>2. 0 \in 0..n /\ \A i \in 1..n : i \in 0..n /\ i # 0
    OBVIOUS
  <2> QED
    BY ONLY <2>1, <2>2
<1> DEFINE T == {k \in Nat : k <= n => Answered(f[k], k)}
<1>5. 0 \in T
  <2>1. NewResponse.status = "OK" /\ NewResponse.body = 0 /\ NewResponse.headers = <<>>
    BY DEF NewResponse
  <2>2. DOMAIN <<>> = {} /\ ~ \E i : i \in 1..0
    OBVIOUS
  <2>3. SetTo("status", 0, "OK", "OK") /\ SetTo("body", 0, 0, 0)
    BY ONLY <2>2 DEF SetTo
  <2>4. IsFiniteSet({})
    BY FS_EmptySet
  <2>5. Answered(NewResponse, 0)
    BY ONLY <2>1, <2>2, <2>3, <2>4 DEF Answered
  <2> QED
    BY <1>4, <2>5
<1>6. ASSUME NEW k \in T PROVE k + 1 \in T
  <2>0. k \in Nat
    OBVIOUS
  <2> SUFFICES ASSUME k + 1 <= n PROVE Answered(f[k + 1], k + 1)
    BY <2>0
  <2>1. k + 1 \in 1..n /\ (k + 1) - 1 = k /\ Answered(f[k], k)
    OBVIOUS
  <2>2. f[k + 1] = SetResponse(f[k], input[k + 1])
    BY ONLY <1>4, <2>1
  <2>3. IsAnswerCall(input[k + 1])
    BY <1>1, <2>1, ElementOfSeq, AnswerCallsAre
  <2>4. PICK r : r = f[k]
    OBVIOUS
  <2>5. Answered(r, k)
    BY ONLY <2>1, <2>4
  <2>6. Answered(SetResponse(r, input[k + 1]), k + 1)
    BY <2>0, <2>3, <2>5, AnswerIs
  <2> QED
    BY ONLY <2>2, <2>4, <2>6
<1>7. T = Nat
  <2> HIDE DEF T
  <2>1. T \subseteq Nat
    BY DEF T
  <2> QED
    BY <1>5, <1>6, <2>1, SetInduction
<1>8. n \in T /\ n <= n
  BY <1>7
<1> QED
  BY <1>1, <1>3, <1>8

\* The lines of a map, in whichever order they are enumerated.
LinesOf(M) == {<<name, M[name]>> : name \in DOMAIN M}

\* An enumeration of a finite set has all its elements.
LEMMA Enumeration ==
  ASSUME NEW S, IsFiniteSet(S)
  PROVE  SetToSeq(S) \in Seq(S) /\ \A x \in S : \E i \in 1..Len(SetToSeq(S)) : SetToSeq(S)[i] = x
<1>1. Cardinality(S) \in Nat /\ ExistsBijection(1..Cardinality(S), S)
  BY FS_CardinalityType
<1>2. PICK n \in Nat : n = Cardinality(S)
  BY <1>1
<1>3. \E f \in [1..n -> S] : IsInjective(f)
  BY <1>1, <1>2 DEF ExistsBijection, Bijection, Injection
<1>4. PICK e : e = SetToSeq(S)
  OBVIOUS
<1>5. e \in [1..n -> S] /\ IsInjective(e)
  BY ONLY <1>2, <1>3, <1>4 DEF SetToSeq
<1>6. e \in Injection(1..n, S)
  BY ONLY <1>5 DEF Injection
<1>7. Cardinality(1..n) = n
  <2>1. 1 \in Int /\ n \in Int
    OBVIOUS
  <2>2. Cardinality(1..n) = IF 1 > n THEN 0 ELSE n - 1 + 1
    BY <2>1, FS_Interval
  <2>3. (IF 1 > n THEN 0 ELSE n - 1 + 1) = n
    BY ONLY n \in Nat
  <2> QED
    BY ONLY <2>2, <2>3
<1>8. e \in Surjection(1..n, S)
  BY <1>2, <1>6, <1>7, FS_Injection
<1>9. e \in Seq(S) /\ Len(e) = n
  BY <1>5
<1>10. \A x \in S : \E i \in 1..n : e[i] = x
  BY ONLY <1>8 DEF Surjection
<1> QED
  BY ONLY <1>4, <1>9, <1>10

\* The lines of a map are one for each of its names.
LEMMA LinesOfMap ==
  ASSUME NEW M, IsFiniteSet(DOMAIN M)
  PROVE  /\ SetToSeq(LinesOf(M)) \in Seq(LinesOf(M))
         /\ \A name \in DOMAIN M : LastLine(SetToSeq(LinesOf(M)), name, M[name])
         /\ \A name : name \notin DOMAIN M => NoLine(SetToSeq(LinesOf(M)), name)
<1> DEFINE f == [name \in DOMAIN M |-> <<name, M[name]>>]
<1>1. f \in Surjection(DOMAIN M, LinesOf(M))
  BY DEF Surjection, LinesOf
<1>2. IsFiniteSet(LinesOf(M))
  <2> HIDE DEF f
  <2> QED
    BY <1>1, FS_Surjection
<1>3. PICK e : e = SetToSeq(LinesOf(M))
  OBVIOUS
<1>4. e \in Seq(LinesOf(M)) /\ \A x \in LinesOf(M) : \E i \in 1..Len(e) : e[i] = x
  BY <1>2, <1>3, Enumeration
<1>5. PICK n \in Nat : n = Len(e)
  BY <1>4, LenProperties
<1>6. \A i \in 1..n : e[i] \in LinesOf(M)
  BY <1>4, <1>5, ElementOfSeq
<1>7. \A x \in LinesOf(M) : x[1] \in DOMAIN M /\ x[2] = M[x[1]]
  BY DEF LinesOf
<1>8. ASSUME NEW name, name \notin DOMAIN M PROVE NoLine(e, name)
  BY ONLY <1>5, <1>6, <1>7, <1>8 DEF NoLine
<1>9. ASSUME NEW name \in DOMAIN M PROVE LastLine(e, name, M[name])
  <2> DEFINE I == {i \in 1..n : e[i][1] = name}
  <2>1. \E i \in 1..n : e[i][1] = name
    <3>1. PICK x : x = <<name, M[name]>>
      OBVIOUS
    <3>2. x \in LinesOf(M) /\ x[1] = name
      BY <3>1 DEF LinesOf
    <3> QED
      BY ONLY <1>4, <1>5, <3>2
  <2>2. I \in SUBSET (1..n) /\ I # {}
    BY <2>1
  <2>3. PICK i \in I : \A j \in I : ~ (j > i)
    <3> HIDE DEF I
    <3> QED
      BY <2>2, GreatestNumber
  <2>4. i \in 1..n /\ e[i][1] = name /\ \A j \in 1..n : j > i => e[j][1] # name
    BY <2>3
  <2>5. e[i][2] = M[name]
    BY ONLY <1>6, <1>7, <2>4
  <2> HIDE DEF I
  <2> QED
    BY ONLY <1>5, <2>4, <2>5 DEF LastLine, LastAt
<1> QED
  BY ONLY <1>3, <1>4, <1>8, <1>9

\* The last of the calls that put a header.
LEMMA PutIs ==
  ASSUME NEW name, NEW n \in Nat, NEW I, I = {i \in 1..n : Puts(input[i], name)}
  PROVE  /\ I = {} => \A i \in 1..n : ~ Puts(input[i], name)
         /\ I # {} => PutTo(name, n, Max(I))
<1>1. ASSUME I # {} PROVE PutTo(name, n, Max(I))
  <2>1. I \in SUBSET (1..n) /\ I \in SUBSET Nat
    OBVIOUS
  <2>2. PICK x \in I : \A y \in I : ~ (y > x)
    BY <1>1, <2>1, GreatestNumber
  <2>3. Max(I) = x
    BY <2>1, <2>2, MaxIs
  <2>4. x \in 1..n /\ Puts(input[x], name) /\ \A j \in 1..n : j > x => ~ Puts(input[j], name)
    BY <2>2
  <2> QED
    BY ONLY <2>3, <2>4 DEF PutTo
<1> QED
  BY <1>1

\* The client gets the response that was made.
LEMMA ResponseArrives ==
  ASSUME input \in Seq(ResponseCalls)
  PROVE  ResponseComesOut
<1>1. PICK R : R = ResponseMade
  OBVIOUS
<1>2. PICK n \in Nat : n = Len(input)
  BY LenProperties
<1>3. Answered(R, n)
  BY <1>1, <1>2, ResponseIs
<1>4. R.status = LastSet("status", "OK") /\ R.body = LastSet("body", 0)
  <2>1. SetTo("status", n, "OK", R.status) /\ SetTo("body", n, 0, R.body)
    BY <1>3 DEF Answered
  <2> QED
    BY <1>2, <2>1, SetToIsLast
<1>5. PICK M : M = R.headers
  OBVIOUS
<1>6. PICK e : e = SetToSeq(LinesOf(M))
  OBVIOUS
<1>7. /\ e \in Seq(LinesOf(M))
      /\ \A name \in DOMAIN M : LastLine(e, name, M[name])
      /\ \A name : name \notin DOMAIN M => NoLine(e, name)
  <2>1. IsFiniteSet(DOMAIN M)
    BY <1>3, <1>5 DEF Answered
  <2> QED
    BY <1>6, <2>1, LinesOfMap
<1>8. PICK x : x = <<"Content-Length", Size(R.body)>>
  OBVIOUS
<1>9. x[1] = "Content-Length" /\ x[2] = Size(R.body)
  BY <1>8
<1>10. PICK a : a = <<x>>
  OBVIOUS
<1>11. PICK S : S = LinesOf(M) \cup {x}
  OBVIOUS
<1>12. /\ a \in Seq(S) /\ LastLine(a, "Content-Length", Size(R.body))
       /\ \A name : name # "Content-Length" => NoLine(a, name)
  <2>1. x \in S
    BY <1>11
  <2> QED
    BY <1>9, <1>10, <2>1, OneLine
<1>13. e \in Seq(S)
  BY <1>7, <1>11
<1>14. PICK lines : lines = a \o e
  OBVIOUS
<1>15. lines \in Seq(S)
  BY <1>12, <1>13, <1>14, ConcatProperties
<1>16. PICK map : map = HeaderMap(lines)
  OBVIOUS
<1>17. ASSUME NEW name
       PROVE  /\ name \in DOMAIN M => Lookup(map, name) = M[name]
              /\ name \notin DOMAIN M /\ name = "Content-Length" => Lookup(map, name) = Size(R.body)
  <2>1. /\ \A v : LastLine(e, name, v) => LastLine(lines, name, v)
        /\ \A v : LastLine(a, name, v) /\ NoLine(e, name) => LastLine(lines, name, v)
    BY <1>12, <1>13, <1>14, LinesJoin
  <2>2. \A v : LastLine(lines, name, v) => Lookup(map, name) = v
    BY <1>15, <1>16, LookupIs
  <2> QED
    BY ONLY <1>7, <1>12, <2>1, <2>2
<1>18. PICK r : r = parse_response(serialize(R))
  OBVIOUS
<1>19. r.status = R.status /\ r.headers = map
  BY ONLY <1>5, <1>6, <1>8, <1>10, <1>14, <1>16, <1>18 DEF parse_response, serialize, LinesOf
<1>20. ASSUME NEW name, NEW I, I = {i \in 1..n : Puts(input[i], name)}
       PROVE  /\ I = {} => name \notin DOMAIN M
              /\ I # {} => Lookup(map, name) = PutValue(input[Max(I)])
  <2>1. /\ I = {} => \A i \in 1..n : ~ Puts(input[i], name)
        /\ I # {} => PutTo(name, n, Max(I))
    BY <1>20, PutIs
  <2>2. /\ \A m : (\A i \in 1..n : ~ Puts(input[i], m)) => m \notin DOMAIN M
        /\ \A m : \A i \in 1..n :
             PutTo(m, n, i) => m \in DOMAIN M /\ M[m] = PutValue(input[i])
    BY ONLY <1>3, <1>5 DEF Answered
  <2>3. ASSUME I # {} PROVE name \in DOMAIN M /\ M[name] = PutValue(input[Max(I)])
    <3>1. PICK i : i = Max(I)
      OBVIOUS
    <3>2. PutTo(name, n, i)
      BY ONLY <2>1, <2>3, <3>1
    <3>3. i \in 1..n
      BY ONLY <3>2 DEF PutTo
    <3> QED
      BY ONLY <2>2, <3>1, <3>2, <3>3
  <2> QED
    BY ONLY <1>17, <2>1, <2>2, <2>3
<1>21. \A i \in 1..n : IsAnswerCall(input[i])
  BY <1>2, ElementOfSeq, AnswerCallsAre
<1>22. ASSUME NEW name, name # "Content-Type"
       PROVE  /\ Given(name) = {} => name \notin DOMAIN M
              /\ Given(name) # {} => Lookup(map, name) = input[Max(Given(name))].headers[2]
  <2>1. PICK I : I = Given(name)
    OBVIOUS
  <2>2. I = {i \in 1..n : Gives(input[i], name)}
    BY ONLY <1>2, <2>1 DEF Given, Gives
  <2>3. \A i \in 1..n : Puts(input[i], name) <=> Gives(input[i], name)
    BY ONLY <1>22 DEF Puts
  <2>4. I = {i \in 1..n : Puts(input[i], name)}
    BY ONLY <2>2, <2>3
  <2>5. ASSUME I # {} PROVE PutValue(input[Max(I)]) = input[Max(I)].headers[2]
    <3>1. PICK i : i = Max(I)
      OBVIOUS
    <3>2. PutTo(name, n, i)
      BY <2>4, <2>5, <3>1, PutIs
    <3>3. i \in 1..n /\ Gives(input[i], name)
      BY ONLY <2>3, <3>2 DEF PutTo
    <3>4. "body" \notin DOMAIN input[i]
      BY ONLY <1>21, <3>3 DEF IsAnswerCall, Gives
    <3> QED
      BY ONLY <3>1, <3>4 DEF PutValue
  <2> QED
    BY ONLY <1>20, <2>1, <2>4, <2>5
<1>23. GivenStands(r.headers, {"X", "Connection", "Content-Length"})
  <2>1. \A name \in {"X", "Connection", "Content-Length"} : name # "Content-Type"
    OBVIOUS
  <2> QED
    BY ONLY <1>19, <1>22, <2>1 DEF GivenStands
<1>24. Given("Content-Length") = {} => ContentLength(r.headers) = R.body
  <2>1. "Content-Length" # "Content-Type"
    OBVIOUS
  <2>2. Given("Content-Length") = {} => Lookup(r.headers, "Content-Length") = Size(R.body)
    BY ONLY <1>17, <1>19, <1>22, <2>1
  <2> QED
    BY ONLY <2>2, NoLength
<1>25. PICK J : J = Given("Content-Type")
                    \cup {i \in 1..Len(input) : "body" \in DOMAIN input[i] /\ input[i].body > 0}
  OBVIOUS
<1>26. J = {i \in 1..n : Puts(input[i], "Content-Type")}
  BY ONLY <1>2, <1>25 DEF Given, Gives, Puts
<1>27. J # {} => Lookup(r.headers, "Content-Type") =
                   IF "body" \in DOMAIN input[Max(J)] THEN input[Max(J)].content_type
                   ELSE input[Max(J)].headers[2]
  BY ONLY <1>19, <1>20, <1>26 DEF PutValue
<1> QED
  BY ONLY <1>1, <1>4, <1>18, <1>19, <1>23, <1>24, <1>25, <1>27 DEF ResponseComesOut

\* What has been called is a sequence of the calls there are.
CallInput ==
  /\ subject.parser = "request" => input \in Seq(RequestCalls)
  /\ subject.parser = "response" => input \in Seq(ResponseCalls)

\* One more call is one of them.
LEMMA CallInputHolds == Inputs => []CallInput
<1>1. Start => CallInput
  BY EmptySeq DEF Start, CallInput
<1>2. CallInput /\ [Extend]_inputs => CallInput'
  <2> SUFFICES ASSUME CallInput, [Extend]_inputs PROVE CallInput'
    OBVIOUS
  <2>1. CASE Extend
    <3>1. CASE subject.parser \in {"request", "response"}
      <4>1. ExtendCalls
        BY <2>1, <3>1 DEF Extend, ExtendPath, ExtendWire, ExtendHeader,
                          ExtendQuery, ExtendCalls, ExtendSealed, ExtendText
      <4>2. PICK c \in (IF subject.parser = "request" THEN RequestCalls ELSE ResponseCalls) :
              input' = Append(input, c)
        BY <4>1 DEF ExtendCalls
      <4>3. subject' = subject
        BY <4>1 DEF ExtendCalls
      <4>4. CASE subject.parser = "request"
        <5>1. input \in Seq(RequestCalls) /\ c \in RequestCalls
          BY <4>2, <4>4 DEF CallInput
        <5>2. input' \in Seq(RequestCalls)
          BY <4>2, <5>1, AppendProperties
        <5> QED
          BY <4>3, <4>4, <5>2 DEF CallInput
      <4>5. CASE subject.parser = "response"
        <5>1. input \in Seq(ResponseCalls) /\ c \in ResponseCalls
          BY <4>2, <4>5 DEF CallInput
        <5>2. input' \in Seq(ResponseCalls)
          BY <4>2, <5>1, AppendProperties
        <5> QED
          BY <4>3, <4>5, <5>2 DEF CallInput
      <4> QED
        BY <3>1, <4>4, <4>5
    <3>2. CASE subject.parser \notin {"request", "response"}
      <4>1. subject' = subject
        BY <2>1 DEF Extend, ExtendPath, ExtendWire, ExtendHeader,
                    ExtendQuery, ExtendCalls, ExtendSealed, ExtendText
      <4> QED
        BY <3>2, <4>1 DEF CallInput
    <3> QED
      BY <3>1, <3>2
  <2>2. CASE UNCHANGED inputs
    BY <2>2 DEF inputs, CallInput
  <2> QED
    BY <2>1, <2>2
<1> QED
  BY <1>1, <1>2, PTL DEF Inputs

\* The other side gets the message that was made, however many setters were
\* called and in whichever order: the method and the parts of the target, the
\* last value of every header the application has given, the Connection header
\* and the size of the body (RequestBuilder::build, client.hpp; parse_request,
\* request.hpp; Response::serialize, response.hpp).
THEOREM MessagesComeOutHolds == Inputs => []MessagesComeOut
<1>1. CallInput => MessagesComeOut
  BY RequestArrives, ResponseArrives DEF CallInput, MessagesComeOut
<1> QED
  BY <1>1, CallInputHolds, PTL

(***************************************************************************)
(* The query.  The parts of a text are what lies between two separators.   *)
(***************************************************************************)
\* What SplitAmp computes, byte by byte.
Splits(s, n, f) ==
  f = [i \in 0..n |-> IF i = 0 THEN <<<<>>>> ELSE AddChar(f[i - 1], s[i])]

\* There are such parts, for any number of bytes.
LEMMA SplitsExist ==
  ASSUME NEW s, NEW n \in Nat
  PROVE  \E f : Splits(s, n, f)
<1> DEFINE T == {k \in Nat : \E f : Splits(s, k, f)}
           Then(p, i) == AddChar(p, s[i])
<1> HIDE DEF Then
<1>1. 0 \in T
  <2>1. Splits(s, 0, [i \in 0..0 |-> <<<<>>>>])
    BY DEF Splits
  <2> QED
    BY <2>1
<1>2. ASSUME NEW k \in T PROVE k + 1 \in T
  <2>1. PICK f : Splits(s, k, f)
    OBVIOUS
  <2> DEFINE g == [i \in 0..(k + 1) |-> IF i \in 0..k THEN f[i] ELSE Then(f[k], i)]
  <2>2. ASSUME NEW i \in 0..(k + 1)
        PROVE  g[i] = IF i = 0 THEN <<<<>>>> ELSE Then(g[i - 1], i)
    <3>1. CASE i = 0
      BY <2>1, <3>1 DEF Splits
    <3>2. CASE i # 0 /\ i \in 0..k
      <4>1. i - 1 \in 0..k /\ i - 1 \in 0..(k + 1)
        BY <3>2
      <4>2. g[i] = f[i] /\ g[i - 1] = f[i - 1]
        BY <3>2, <4>1
      <4>3. f[i] = Then(f[i - 1], i)
        BY <2>1, <3>2 DEF Splits, Then
      <4> QED
        BY <3>2, <4>2, <4>3
    <3>3. CASE i # 0 /\ i \notin 0..k
      <4>1. i - 1 = k /\ k \in 0..k /\ k \in 0..(k + 1)
        BY <3>3
      <4>2. g[i] = Then(f[k], i) /\ g[i - 1] = f[k]
        BY <3>3, <4>1
      <4> QED
        BY <3>3, <4>2
    <3> QED
      BY <3>1, <3>2, <3>3
  <2>3. Splits(s, k + 1, g)
    BY <2>2 DEF Splits, Then
  <2> QED
    BY <2>3
<1>3. T = Nat
  <2> HIDE DEF T
  <2>1. T \subseteq Nat
    BY DEF T
  <2> QED
    BY <1>1, <1>2, <2>1, SetInduction
<1> QED
  BY <1>3

\* Behind x, where the text begins or a separator is, and before y is no other.
Unbroken(s, x, y) ==
  /\ x = 0 \/ s[x] = Amp
  /\ \A i \in (x + 1)..(y - 1) : s[i] # Amp

\* A part that has ended with the separator at y.
IsEnded(s, k, x, y, v) ==
  /\ x \in 0..k /\ y \in 1..k /\ x < y /\ Unbroken(s, x, y) /\ s[y] = Amp
  /\ v = SubSeq(s, x + 1, y - 1)

\* The parts of the first k bytes: m that have ended, and the last.
PartsOf(s, k, p, m) ==
  /\ m \in Nat /\ p \in Seq(Seq(Nat)) /\ Len(p) = m + 1
  /\ \E x \in 0..k : Unbroken(s, x, k + 1) /\ p[m + 1] = SubSeq(s, x + 1, k)
  /\ \A j \in 1..m : \E x, y : IsEnded(s, k, x, y, p[j])
  /\ \A x, y, v : IsEnded(s, k, x, y, v) => \E j \in 1..m : p[j] = v

\* One more byte is in the cut that ends before it.
LEMMA CutGrows ==
  ASSUME NEW S, NEW s \in Seq(S), NEW x \in Nat, NEW k \in Nat, x <= k, k + 1 <= Len(s)
  PROVE  Append(SubSeq(s, x + 1, k), s[k + 1]) = SubSeq(s, x + 1, k + 1)
<1>1. Len(s) \in Nat
  BY LenProperties
<1>2. /\ k \in Nat /\ k + 1 \in Nat /\ k <= k + 1 /\ k <= Len(s)
      /\ (k + 1) - k = 1 /\ 1 \in 1..1 /\ k + 1 \in 1..Len(s)
  BY <1>1
<1>3. PICK a \in Seq(S) : a = SubSeq(s, x + 1, k)
  <2>1. SubSeq(s, x + 1, k) \in Seq(S)
    BY ONLY <1>2, Cut, s \in Seq(S), x \in Nat, x <= k
  <2> QED
    BY <2>1
<1>4. PICK b \in Seq(S) : b = SubSeq(s, k + 1, k + 1) /\ Len(b) = 1 /\ b[1] = s[k + 1]
  <2>1. PICK l \in Nat : l = k + 1
    BY <1>2
  <2>2. k <= l /\ l <= Len(s) /\ l - k = 1 /\ 1 \in 1..(l - k)
    BY ONLY <1>2, <2>1
  <2>3. SubSeq(s, k + 1, l) \in Seq(S) /\ Len(SubSeq(s, k + 1, l)) = l - k
        /\ \A i \in 1..(l - k) : SubSeq(s, k + 1, l)[i] = s[k + i]
    BY ONLY <1>2, <2>2, Cut, s \in Seq(S), l \in Nat
  <2> QED
    BY ONLY <2>1, <2>2, <2>3
<1>5. b = <<s[k + 1]>>
  <2>1. b \in Seq(S) /\ Len(b) = 1
    BY <1>4
  <2>2. b = <<b[1]>>
    BY ONLY <2>1
  <2> QED
    BY ONLY <1>4, <2>2
<1>6. a \o b = SubSeq(s, x + 1, k + 1)
  BY <1>2, <1>3, <1>4, Join
<1>7. s[k + 1] \in S
  BY <1>2, ElementOfSeq
<1>8. PICK c \in S : c = s[k + 1]
  BY <1>7
<1>9. Append(a, c) = a \o <<c>>
  BY AppendIsConcat
<1> QED
  BY ONLY <1>3, <1>5, <1>6, <1>8, <1>9

\* One more byte.
LEMMA SplitStep ==
  ASSUME NEW s \in Seq(Nat), NEW k \in Nat, k + 1 <= Len(s), NEW p, NEW m, PartsOf(s, k, p, m)
  PROVE  \E l : PartsOf(s, k + 1, AddChar(p, s[k + 1]), l)
<1>1. /\ m \in Nat /\ p \in Seq(Seq(Nat)) /\ Len(p) = m + 1
      /\ \A j \in 1..m : \E x, y : IsEnded(s, k, x, y, p[j])
      /\ \A x, y, v : IsEnded(s, k, x, y, v) => \E j \in 1..m : p[j] = v
  BY DEF PartsOf
<1>2. /\ m + 1 \in Nat /\ (m + 1) - 1 = m
      /\ m + 1 \in 1..(m + 1) /\ \A j \in 1..m : j \in 1..(m + 1) /\ j # m + 1
  BY <1>1
<1>3. PICK x0 \in 0..k : Unbroken(s, x0, k + 1) /\ p[m + 1] = SubSeq(s, x0 + 1, k)
  BY DEF PartsOf
<1>4. PICK c : c = s[k + 1]
  OBVIOUS
<1>5. PICK q : q = AddChar(p, c)
  OBVIOUS
<1>6. c \in Nat
  <2>1. Len(s) \in Nat
    BY LenProperties
  <2>2. k + 1 \in 1..Len(s)
    BY <2>1
  <2> QED
    BY <1>4, <2>2, ElementOfSeq
<1>7. /\ \A x \in 0..k : x \in 0..(k + 1) /\ x <= k /\ x \in Nat /\ x < k + 1
      /\ \A y \in 1..k : y \in 1..(k + 1)
      /\ k + 1 \in 1..(k + 1) /\ k + 1 \in 0..(k + 1) /\ (k + 1) - 1 = k
      /\ \A y \in 1..(k + 1) : y = k + 1 \/ y \in 1..k
  OBVIOUS
<1>8. \A x, y, v : IsEnded(s, k, x, y, v) => IsEnded(s, k + 1, x, y, v)
  BY ONLY <1>7 DEF IsEnded
<1>9. CASE c = Amp
  <2>1. q = Append(p, <<>>)
    BY ONLY <1>5, <1>9 DEF AddChar
  <2>2. <<>> \in Seq(Nat)
    OBVIOUS
  <2>3. /\ q \in Seq(Seq(Nat)) /\ Len(q) = (m + 1) + 1 /\ q[(m + 1) + 1] = <<>>
        /\ \A j \in 1..(m + 1) : q[j] = p[j]
    <3>1. /\ Append(p, <<>>) \in Seq(Seq(Nat)) /\ Len(Append(p, <<>>)) = Len(p) + 1
          /\ Append(p, <<>>)[Len(p) + 1] = <<>>
          /\ \A j \in 1..Len(p) : Append(p, <<>>)[j] = p[j]
      BY <1>1, <2>2, AppendProperties
    <3> QED
      BY ONLY <1>1, <2>1, <3>1
  <2>4. Unbroken(s, k + 1, (k + 1) + 1) /\ SubSeq(s, (k + 1) + 1, k + 1) = <<>>
    <3>1. k + 1 \in Nat /\ ~ \E i : i \in ((k + 1) + 1)..(((k + 1) + 1) - 1)
      OBVIOUS
    <3>2. SubSeq(s, (k + 1) + 1, k + 1) = <<>>
      BY <3>1, EmptyCut
    <3> QED
      BY ONLY <1>4, <1>9, <3>1, <3>2 DEF Unbroken
  <2>5. IsEnded(s, k + 1, x0, k + 1, p[m + 1])
    <3>1. x0 \in 0..(k + 1) /\ x0 < k + 1
      BY <1>3, <1>7
    <3> QED
      BY ONLY <1>3, <1>4, <1>7, <1>9, <3>1 DEF IsEnded
  <2>6. ASSUME NEW j \in 1..(m + 1)
        PROVE  \E x, y : IsEnded(s, k + 1, x, y, q[j])
    <3>0. q[j] = p[j]
      BY <2>3
    <3>1. CASE j = m + 1
      BY ONLY <2>5, <3>0, <3>1
    <3>2. CASE j \in 1..m
      BY ONLY <1>1, <1>8, <3>0, <3>2
    <3> QED
      BY <1>1, <3>1, <3>2
  <2>7. ASSUME NEW x, NEW y, NEW v, IsEnded(s, k + 1, x, y, v)
        PROVE  \E j \in 1..(m + 1) : q[j] = v
    <3>1. /\ x \in 0..(k + 1) /\ y \in 1..(k + 1) /\ x < y /\ Unbroken(s, x, y) /\ s[y] = Amp
          /\ v = SubSeq(s, x + 1, y - 1)
      BY ONLY <2>7 DEF IsEnded
    <3>2. x \in 0..k
      BY ONLY <3>1, k \in Nat
    <3>3. CASE y = k + 1
      <4>1. x = x0
        <5>1. x0 \in 0..k
          BY <1>3
        <5>2. CASE x < x0
          <6>1. x0 \in (x + 1)..(y - 1) /\ x0 # 0
            BY ONLY k \in Nat, <3>2, <3>3, <5>1, <5>2
          <6> QED
            BY ONLY <1>3, <3>1, <6>1 DEF Unbroken
        <5>3. CASE x0 < x
          <6>1. x \in (x0 + 1)..((k + 1) - 1) /\ x # 0
            BY ONLY k \in Nat, <3>2, <5>1, <5>3
          <6> QED
            BY ONLY <1>3, <3>1, <6>1 DEF Unbroken
        <5> QED
          BY ONLY <3>2, <5>1, <5>2, <5>3, k \in Nat
      <4>2. v = p[m + 1]
        BY ONLY <1>3, <1>7, <3>1, <3>3, <4>1
      <4> QED
        BY ONLY <1>2, <2>3, <4>2
    <3>4. CASE y \in 1..k
      <4>1. IsEnded(s, k, x, y, v)
        BY ONLY <3>1, <3>2, <3>4 DEF IsEnded
      <4>2. PICK j \in 1..m : p[j] = v
        BY ONLY <1>1, <4>1
      <4> QED
        BY ONLY <1>2, <2>3, <4>2
    <3> QED
      BY ONLY <1>7, <3>1, <3>3, <3>4
  <2>8. PartsOf(s, k + 1, q, m + 1)
    BY ONLY <1>2, <1>7, <2>3, <2>4, <2>6, <2>7 DEF PartsOf
  <2> QED
    BY ONLY <1>4, <1>5, <2>8
<1>10. CASE c # Amp
  <2>1. q = [p EXCEPT ![m + 1] = Append(@, c)]
    BY ONLY <1>1, <1>5, <1>10 DEF AddChar
  <2>2. PICK e : e = Append(p[m + 1], c)
    OBVIOUS
  <2>3. p[m + 1] \in Seq(Nat)
    BY <1>1, <1>2, ElementOfSeq
  <2>4. e \in Seq(Nat) /\ e = SubSeq(s, x0 + 1, k + 1)
    <3>1. e \in Seq(Nat)
      BY <1>6, <2>2, <2>3, AppendProperties
    <3>2. x0 \in Nat /\ x0 <= k
      BY <1>3
    <3>3. Append(SubSeq(s, x0 + 1, k), s[k + 1]) = SubSeq(s, x0 + 1, k + 1)
      BY <3>2, CutGrows
    <3> QED
      BY ONLY <1>3, <1>4, <2>2, <3>1, <3>3
  <2>5. /\ q \in Seq(Seq(Nat)) /\ Len(q) = m + 1 /\ q[m + 1] = e
        /\ \A j \in 1..m : q[j] = p[j]
    <3>1. q = [p EXCEPT ![m + 1] = e]
      BY ONLY <2>1, <2>2
    <3>2. q \in Seq(Seq(Nat)) /\ Len(q) = Len(p)
      BY <1>1, <1>2, <2>4, <3>1, ExceptSeq
    <3>3. DOMAIN p = 1..(m + 1)
      BY <1>1, LenProperties
    <3> QED
      BY ONLY <1>1, <1>2, <3>1, <3>2, <3>3
  <2>6. Unbroken(s, x0, (k + 1) + 1)
    <3>1. \A i \in (x0 + 1)..(((k + 1) + 1) - 1) : i = k + 1 \/ i \in (x0 + 1)..((k + 1) - 1)
      BY <1>3
    <3> QED
      BY ONLY <1>3, <1>4, <1>10, <3>1 DEF Unbroken
  <2>7. ASSUME NEW j \in 1..m
        PROVE  \E x, y : IsEnded(s, k + 1, x, y, q[j])
    <3>1. q[j] = p[j]
      BY <2>5
    <3> QED
      BY ONLY <1>1, <1>8, <2>7, <3>1
  <2>8. ASSUME NEW x, NEW y, NEW v, IsEnded(s, k + 1, x, y, v)
        PROVE  \E j \in 1..m : q[j] = v
    <3>1. /\ x \in 0..(k + 1) /\ y \in 1..(k + 1) /\ x < y /\ Unbroken(s, x, y) /\ s[y] = Amp
          /\ v = SubSeq(s, x + 1, y - 1)
      BY ONLY <2>8 DEF IsEnded
    <3>2. y \in 1..k
      BY ONLY <1>4, <1>7, <1>10, <3>1
    <3>3. x \in 0..k
      BY ONLY <3>1, k \in Nat
    <3>4. IsEnded(s, k, x, y, v)
      BY ONLY <3>1, <3>2, <3>3 DEF IsEnded
    <3>5. PICK j \in 1..m : p[j] = v
      BY ONLY <1>1, <3>4
    <3> QED
      BY ONLY <2>5, <3>5
  <2>9. x0 \in 0..(k + 1)
    BY <1>3, <1>7
  <2>10. PartsOf(s, k + 1, q, m)
    BY ONLY <1>1, <2>4, <2>5, <2>6, <2>7, <2>8, <2>9 DEF PartsOf
  <2> QED
    BY ONLY <1>4, <1>5, <2>10
<1> QED
  BY <1>9, <1>10

\* From one separator, or the beginning, to the next, or the end.
IsPart(s, x, y) ==
  /\ x \in 0..Len(s) /\ y \in 1..(Len(s) + 1) /\ x < y
  /\ Unbroken(s, x, y) /\ (y = Len(s) + 1 \/ s[y] = Amp)

\* These are the parts.
LEMMA PartsAre ==
  ASSUME NEW s \in Seq(Nat)
  PROVE  /\ SplitAmp(s) \in Seq(Seq(Nat))
         /\ \A j \in 1..Len(SplitAmp(s)) :
              \E x, y : IsPart(s, x, y) /\ SplitAmp(s)[j] = SubSeq(s, x + 1, y - 1)
         /\ \A x, y : IsPart(s, x, y) =>
              \E j \in 1..Len(SplitAmp(s)) : SplitAmp(s)[j] = SubSeq(s, x + 1, y - 1)
<1>1. PICK n \in Nat : n = Len(s)
  BY LenProperties
<1> DEFINE f == CHOOSE f : Splits(s, n, f)
<1>2. Splits(s, n, f)
  BY SplitsExist
<1>3. SplitAmp(s) = f[n]
  BY <1>1 DEF SplitAmp, Splits
<1> HIDE DEF f
<1>4. f[0] = <<<<>>>> /\ \A i \in 1..n : f[i] = AddChar(f[i - 1], s[i])
  <2>1. \A i \in 0..n : f[i] = IF i = 0 THEN <<<<>>>> ELSE AddChar(f[i - 1], s[i])
    BY ONLY <1>2 DEF Splits
  <2>2. 0 \in 0..n /\ \A i \in 1..n : i \in 0..n /\ i # 0
    OBVIOUS
  <2> QED
    BY ONLY <2>1, <2>2
<1> DEFINE T == {k \in Nat : k <= n => \E m : PartsOf(s, k, f[k], m)}
<1>5. 0 \in T
  <2>1. PICK e \in Seq(Nat) : e = <<>>
    BY EmptySeq
  <2>2. PICK p : p = <<e>>
    OBVIOUS
  <2>3. p \in Seq(Seq(Nat)) /\ Len(p) = 0 + 1 /\ 0 \in Nat /\ p[0 + 1] = e
    BY <2>2
  <2>4. SubSeq(s, 0 + 1, 0) = e
    BY <2>1, EmptyCut
  <2>5. 0 \in 0..0 /\ (~ \E i : i \in 1..0) /\ ~ \E i : i \in (0 + 1)..((0 + 1) - 1)
    OBVIOUS
  <2>6. \A x, y, v : ~ IsEnded(s, 0, x, y, v)
    BY ONLY <2>5 DEF IsEnded
  <2>7. Unbroken(s, 0, 0 + 1)
    BY ONLY <2>5 DEF Unbroken
  <2>8. PartsOf(s, 0, p, 0)
    BY ONLY <2>3, <2>4, <2>5, <2>6, <2>7 DEF PartsOf
  <2> QED
    BY <1>4, <2>1, <2>2, <2>8
<1>6. ASSUME NEW k \in T PROVE k + 1 \in T
  <2>0. k \in Nat
    OBVIOUS
  <2> SUFFICES ASSUME k + 1 <= n PROVE \E m : PartsOf(s, k + 1, f[k + 1], m)
    BY <2>0
  <2>1. k + 1 \in 1..n /\ (k + 1) - 1 = k
    BY <2>0
  <2>2. f[k + 1] = AddChar(f[k], s[k + 1])
    BY ONLY <1>4, <2>1
  <2>3. PICK p : p = f[k]
    OBVIOUS
  <2>4. PICK m : PartsOf(s, k, p, m)
    BY <2>0, <2>3
  <2>5. \E l : PartsOf(s, k + 1, AddChar(p, s[k + 1]), l)
    BY <1>1, <2>0, <2>4, SplitStep
  <2> QED
    BY ONLY <2>2, <2>3, <2>5
<1>7. T = Nat
  <2> HIDE DEF T
  <2>1. T \subseteq Nat
    BY DEF T
  <2> QED
    BY <1>5, <1>6, <2>1, SetInduction
<1>8. n \in T /\ n <= n
  BY <1>7
<1>9. PICK p : p = SplitAmp(s)
  OBVIOUS
<1>10. PICK m : PartsOf(s, n, p, m)
  BY <1>3, <1>8, <1>9
<1>11. /\ m \in Nat /\ p \in Seq(Seq(Nat)) /\ Len(p) = m + 1
       /\ \A j \in 1..m : \E x, y : IsEnded(s, n, x, y, p[j])
       /\ \A x, y, v : IsEnded(s, n, x, y, v) => \E j \in 1..m : p[j] = v
  BY <1>10 DEF PartsOf
<1>12. PICK x0 \in 0..n : Unbroken(s, x0, n + 1) /\ p[m + 1] = SubSeq(s, x0 + 1, n)
  BY <1>10 DEF PartsOf
<1>13. /\ \A x \in 0..n : x < n + 1
       /\ \A y \in 1..n : y \in 1..(n + 1)
       /\ n + 1 \in 1..(n + 1) /\ (n + 1) - 1 = n
       /\ \A y \in 1..(n + 1) : y = n + 1 \/ y \in 1..n
  OBVIOUS
<1>14. /\ \A j \in 1..m : j \in 1..(m + 1)
       /\ m + 1 \in 1..(m + 1) /\ \A j \in 1..(m + 1) : j = m + 1 \/ j \in 1..m
  BY <1>11
<1>15. ASSUME NEW j \in 1..(m + 1)
       PROVE  \E x, y : IsPart(s, x, y) /\ p[j] = SubSeq(s, x + 1, y - 1)
  <2>1. CASE j = m + 1
    <3>1. IsPart(s, x0, n + 1)
      BY ONLY <1>1, <1>12, <1>13 DEF IsPart
    <3>2. p[j] = SubSeq(s, x0 + 1, (n + 1) - 1)
      BY ONLY <1>12, <1>13, <2>1
    <3> QED
      BY ONLY <3>1, <3>2
  <2>2. CASE j \in 1..m
    <3>1. PICK x, y : IsEnded(s, n, x, y, p[j])
      BY ONLY <1>11, <2>2
    <3>2. IsPart(s, x, y) /\ p[j] = SubSeq(s, x + 1, y - 1)
      BY ONLY <1>1, <1>13, <3>1 DEF IsPart, IsEnded
    <3> QED
      BY ONLY <3>2
  <2> QED
    BY <1>14, <2>1, <2>2
<1>16. ASSUME NEW x, NEW y, IsPart(s, x, y)
       PROVE  \E j \in 1..(m + 1) : p[j] = SubSeq(s, x + 1, y - 1)
  <2>1. x \in 0..n /\ y \in 1..(n + 1) /\ x < y /\ Unbroken(s, x, y) /\ (y = n + 1 \/ s[y] = Amp)
    BY ONLY <1>1, <1>16 DEF IsPart
  <2>2. CASE y = n + 1
    <3>1. x = x0
      <4>1. x0 \in 0..n
        BY <1>12
      <4>2. CASE x < x0
        <5>1. x0 \in (x + 1)..(y - 1) /\ x0 # 0
          BY ONLY n \in Nat, <2>1, <2>2, <4>1, <4>2
        <5> QED
          BY ONLY <1>12, <2>1, <5>1 DEF Unbroken
      <4>3. CASE x0 < x
        <5>1. x \in (x0 + 1)..((n + 1) - 1) /\ x # 0
          BY ONLY n \in Nat, <2>1, <4>1, <4>3
        <5> QED
          BY ONLY <1>12, <2>1, <5>1 DEF Unbroken
      <4> QED
        BY ONLY <2>1, <4>1, <4>2, <4>3, n \in Nat
    <3>2. p[m + 1] = SubSeq(s, x + 1, y - 1)
      BY ONLY <1>12, <1>13, <2>2, <3>1
    <3> QED
      BY ONLY <1>14, <3>2
  <2>3. CASE y \in 1..n
    <3>1. s[y] = Amp
      BY ONLY <2>1, <2>3, n \in Nat
    <3>2. PICK v : v = SubSeq(s, x + 1, y - 1)
      OBVIOUS
    <3>3. IsEnded(s, n, x, y, v)
      BY ONLY <2>1, <2>3, <3>1, <3>2 DEF IsEnded
    <3>4. PICK j \in 1..m : p[j] = v
      BY ONLY <1>11, <3>3
    <3> QED
      BY ONLY <1>14, <3>2, <3>4
  <2> QED
    BY ONLY <1>13, <2>1, <2>2, <2>3
<1>17. \A j \in 1..Len(p) : \E x, y : IsPart(s, x, y) /\ p[j] = SubSeq(s, x + 1, y - 1)
  BY ONLY <1>11, <1>15
<1>18. \A x, y : IsPart(s, x, y) => \E j \in 1..Len(p) : p[j] = SubSeq(s, x + 1, y - 1)
  BY ONLY <1>11, <1>16
<1>19. /\ p \in Seq(Seq(Nat))
       /\ \A j \in 1..Len(p) : \E x, y : IsPart(s, x, y) /\ p[j] = SubSeq(s, x + 1, y - 1)
       /\ \A x, y : IsPart(s, x, y) => \E j \in 1..Len(p) : p[j] = SubSeq(s, x + 1, y - 1)
  BY ONLY <1>11, <1>17, <1>18
<1> HIDE DEF T
<1> QED
  BY ONLY <1>9, <1>19

\* What parse_query computes, pair by pair.
Putting(cs, n, f) ==
  f = [i \in 0..n |-> IF i = 0 THEN <<>> ELSE PutPair(f[i - 1], cs[i])]

\* There are such maps, for any number of pairs.
LEMMA PuttingExist ==
  ASSUME NEW cs, NEW n \in Nat
  PROVE  \E f : Putting(cs, n, f)
<1> DEFINE T == {k \in Nat : \E f : Putting(cs, k, f)}
           Then(r, i) == PutPair(r, cs[i])
<1> HIDE DEF Then
<1>1. 0 \in T
  <2>1. Putting(cs, 0, [i \in 0..0 |-> <<>>])
    BY DEF Putting
  <2> QED
    BY <2>1
<1>2. ASSUME NEW k \in T PROVE k + 1 \in T
  <2>1. PICK f : Putting(cs, k, f)
    OBVIOUS
  <2> DEFINE g == [i \in 0..(k + 1) |-> IF i \in 0..k THEN f[i] ELSE Then(f[k], i)]
  <2>2. ASSUME NEW i \in 0..(k + 1)
        PROVE  g[i] = IF i = 0 THEN <<>> ELSE Then(g[i - 1], i)
    <3>1. CASE i = 0
      BY <2>1, <3>1 DEF Putting
    <3>2. CASE i # 0 /\ i \in 0..k
      <4>1. i - 1 \in 0..k /\ i - 1 \in 0..(k + 1)
        BY <3>2
      <4>2. g[i] = f[i] /\ g[i - 1] = f[i - 1]
        BY <3>2, <4>1
      <4>3. f[i] = Then(f[i - 1], i)
        BY <2>1, <3>2 DEF Putting, Then
      <4> QED
        BY <3>2, <4>2, <4>3
    <3>3. CASE i # 0 /\ i \notin 0..k
      <4>1. i - 1 = k /\ k \in 0..k /\ k \in 0..(k + 1)
        BY <3>3
      <4>2. g[i] = Then(f[k], i) /\ g[i - 1] = f[k]
        BY <3>3, <4>1
      <4> QED
        BY <3>3, <4>2
    <3> QED
      BY <3>1, <3>2, <3>3
  <2>3. Putting(cs, k + 1, g)
    BY <2>2 DEF Putting, Then
  <2> QED
    BY <2>3
<1>3. T = Nat
  <2> HIDE DEF T
  <2>1. T \subseteq Nat
    BY DEF T
  <2> QED
    BY <1>1, <1>2, <2>1, SetInduction
<1> QED
  BY <1>3

\* The map of the first k pairs.
PairsPut(p, k, out) ==
  /\ DOMAIN out = {KeyPart(p[i]) : i \in {j \in 1..k : p[j] # <<>>}}
  /\ \A key \in DOMAIN out : \E i \in 1..k :
       p[i] # <<>> /\ KeyPart(p[i]) = key /\ out[key] = ValuePart(p[i])

\* One more pair.
LEMMA PairPut ==
  ASSUME NEW p, NEW k \in Nat, NEW out, PairsPut(p, k, out)
  PROVE  PairsPut(p, k + 1, PutPair(out, p[k + 1]))
<1>1. PICK x, q : x = p[k + 1] /\ q = PutPair(out, x)
  OBVIOUS
<1>2. /\ k + 1 \in 1..(k + 1) /\ \A i \in 1..k : i \in 1..(k + 1)
      /\ \A i \in 1..(k + 1) : i = k + 1 \/ i \in 1..k
  OBVIOUS
<1>3. /\ DOMAIN out = {KeyPart(p[i]) : i \in {j \in 1..k : p[j] # <<>>}}
      /\ \A key \in DOMAIN out : \E i \in 1..k :
           p[i] # <<>> /\ KeyPart(p[i]) = key /\ out[key] = ValuePart(p[i])
  BY DEF PairsPut
<1>4. CASE x = <<>>
  <2>1. q = out
    BY ONLY <1>1, <1>4 DEF PutPair
  <2>2. {j \in 1..(k + 1) : p[j] # <<>>} = {j \in 1..k : p[j] # <<>>}
    BY ONLY <1>1, <1>2, <1>4
  <2>3. PairsPut(p, k + 1, out)
    BY ONLY <1>2, <1>3, <2>2 DEF PairsPut
  <2> QED
    BY ONLY <1>1, <2>1, <2>3
<1>5. CASE x # <<>>
  <2>1. PICK n, v : n = KeyPart(x) /\ v = ValuePart(x)
    OBVIOUS
  <2>2. q = [key \in DOMAIN out \cup {n} |-> IF key = n THEN v ELSE out[key]]
    BY ONLY <1>1, <1>5, <2>1 DEF PutPair
  <2>3. DOMAIN q = {KeyPart(p[i]) : i \in {j \in 1..(k + 1) : p[j] # <<>>}}
    <3>1. DOMAIN q = DOMAIN out \cup {n}
      BY ONLY <2>2
    <3>2. {j \in 1..(k + 1) : p[j] # <<>>} = {j \in 1..k : p[j] # <<>>} \cup {k + 1}
      BY ONLY <1>1, <1>2, <1>5
    <3>3. n = KeyPart(p[k + 1])
      BY ONLY <1>1, <2>1
    <3>4. PICK I : I = {j \in 1..k : p[j] # <<>>}
      OBVIOUS
    <3>5. {KeyPart(p[i]) : i \in I \cup {k + 1}} = {KeyPart(p[i]) : i \in I} \cup {KeyPart(p[k + 1])}
      OBVIOUS
    <3> QED
      BY ONLY <1>3, <3>1, <3>2, <3>3, <3>4, <3>5
  <2>4. ASSUME NEW key \in DOMAIN q
        PROVE  \E i \in 1..(k + 1) :
                 p[i] # <<>> /\ KeyPart(p[i]) = key /\ q[key] = ValuePart(p[i])
    <3>1. CASE key = n
      <4>1. q[key] = v
        BY ONLY <2>2, <3>1
      <4> QED
        BY ONLY <1>1, <1>2, <1>5, <2>1, <3>1, <4>1
    <3>2. CASE key # n
      <4>1. key \in DOMAIN out /\ q[key] = out[key]
        BY ONLY <2>2, <2>4, <3>2
      <4> QED
        BY ONLY <1>2, <1>3, <4>1
    <3> QED
      BY <3>1, <3>2
  <2>5. PairsPut(p, k + 1, q)
    BY ONLY <2>3, <2>4 DEF PairsPut
  <2> QED
    BY ONLY <1>1, <2>5
<1> QED
  BY <1>4, <1>5

\* All the pairs.
LEMMA QueryIs ==
  ASSUME NEW s \in Seq(Nat)
  PROVE  PairsPut(SplitAmp(s), Len(SplitAmp(s)), parse_query(s))
<1>1. PICK p \in Seq(Seq(Nat)) : p = SplitAmp(s)
  BY PartsAre
<1>2. PICK n \in Nat : n = Len(p)
  BY LenProperties
<1> DEFINE f == CHOOSE f : Putting(p, n, f)
<1>3. Putting(p, n, f)
  BY PuttingExist
<1>4. parse_query(s) = f[n]
  BY <1>1, <1>2 DEF parse_query, Putting
<1> HIDE DEF f
<1>5. f[0] = <<>> /\ \A i \in 1..n : f[i] = PutPair(f[i - 1], p[i])
  <2>1. \A i \in 0..n : f[i] = IF i = 0 THEN <<>> ELSE PutPair(f[i - 1], p[i])
    BY ONLY <1>3 DEF Putting
  <2>2. 0 \in 0..n /\ \A i \in 1..n : i \in 0..n /\ i # 0
    OBVIOUS
  <2> QED
    BY ONLY <2>1, <2>2
<1> DEFINE T == {k \in Nat : k <= n => PairsPut(p, k, f[k])}
<1>6. 0 \in T
  <2>1. DOMAIN <<>> = {} /\ ~ \E i : i \in 1..0
    OBVIOUS
  <2>2. PairsPut(p, 0, <<>>)
    BY ONLY <2>1 DEF PairsPut
  <2> QED
    BY <1>5, <2>2
<1>7. ASSUME NEW k \in T PROVE k + 1 \in T
  <2>0. k \in Nat
    OBVIOUS
  <2> SUFFICES ASSUME k + 1 <= n PROVE PairsPut(p, k + 1, f[k + 1])
    BY <2>0
  <2>1. k + 1 \in 1..n /\ (k + 1) - 1 = k /\ PairsPut(p, k, f[k])
    OBVIOUS
  <2>2. f[k + 1] = PutPair(f[k], p[k + 1])
    BY ONLY <1>5, <2>1
  <2>3. PICK out : out = f[k]
    OBVIOUS
  <2>4. PairsPut(p, k, out)
    BY ONLY <2>1, <2>3
  <2>5. PairsPut(p, k + 1, PutPair(out, p[k + 1]))
    BY <2>0, <2>4, PairPut
  <2> QED
    BY ONLY <2>2, <2>3, <2>5
<1>8. T = Nat
  <2> HIDE DEF T
  <2>1. T \subseteq Nat
    BY DEF T
  <2> QED
    BY <1>6, <1>7, <2>1, SetInduction
<1>9. n \in T /\ n <= n
  BY <1>8
<1>10. PairsPut(p, n, f[n])
  BY <1>9
<1> HIDE DEF T
<1> QED
  BY ONLY <1>1, <1>2, <1>4, <1>10

\* What a token of the run is written as.
LEMMA WrittenAre ==
  /\ Written(97) = <<97>> /\ Written(Blank) = <<Plus>>
  /\ Written(Sep) = <<Amp>> /\ Written(Eq) = <<Equals>>
  /\ Written(Amp) = <<Percent, 50, 54>> /\ Written(Equals) = <<Percent, 51, 68>>
  /\ Written(Percent) = <<Percent, 50, 53>> /\ Written(233) = <<Percent, 101, 57>>
<1>1. Written(97) = <<97>> /\ Written(Blank) = <<Plus>>
      /\ Written(Sep) = <<Amp>> /\ Written(Eq) = <<Equals>>
  BY DEF Written, Blank, Plus, Sep, Amp, Eq, Equals
<1>2. \A t \in {Amp, Equals, Percent, 233} :
        Written(t) = <<Percent, HexChar(t \div 16, t > 127), HexChar(t % 16, t > 127)>>
  BY DEF Written, Blank, Plus, Sep, Amp, Eq, Equals, Percent
<1>5. Written(Amp) = <<Percent, 50, 54>>
  <2>1. PICK t \in Nat : t = 38
    OBVIOUS
  <2>2. t \div 16 = 2 /\ t % 16 = 6 /\ ~ (t > 127)
    BY ONLY <2>1
  <2>3. HexChar(t \div 16, t > 127) = 50 /\ HexChar(t % 16, t > 127) = 54
    BY ONLY <2>2 DEF HexChar
  <2>4. Written(t) = <<Percent, HexChar(t \div 16, t > 127), HexChar(t % 16, t > 127)>>
    BY <1>2, <2>1 DEF Amp
  <2> QED
    BY ONLY <2>1, <2>3, <2>4 DEF Amp
<1>6. Written(Equals) = <<Percent, 51, 68>>
  <2>1. PICK t \in Nat : t = 61
    OBVIOUS
  <2>2. t \div 16 = 3 /\ t % 16 = 13 /\ ~ (t > 127)
    BY ONLY <2>1
  <2>3. HexChar(t \div 16, t > 127) = 51 /\ HexChar(t % 16, t > 127) = 68
    BY ONLY <2>2 DEF HexChar
  <2>4. Written(t) = <<Percent, HexChar(t \div 16, t > 127), HexChar(t % 16, t > 127)>>
    BY <1>2, <2>1 DEF Equals
  <2> QED
    BY ONLY <2>1, <2>3, <2>4 DEF Equals
<1>7. Written(Percent) = <<Percent, 50, 53>>
  <2>1. PICK t \in Nat : t = 37
    OBVIOUS
  <2>2. t \div 16 = 2 /\ t % 16 = 5 /\ ~ (t > 127)
    BY ONLY <2>1
  <2>3. HexChar(t \div 16, t > 127) = 50 /\ HexChar(t % 16, t > 127) = 53
    BY ONLY <2>2 DEF HexChar
  <2>4. Written(t) = <<Percent, HexChar(t \div 16, t > 127), HexChar(t % 16, t > 127)>>
    BY <1>2, <2>1 DEF Percent
  <2> QED
    BY ONLY <2>1, <2>3, <2>4 DEF Percent
<1>8. Written(233) = <<Percent, 101, 57>>
  <2>1. PICK t \in Nat : t = 233
    OBVIOUS
  <2>2. t \div 16 = 14 /\ t % 16 = 9 /\ (t > 127)
    BY ONLY <2>1
  <2>3. HexChar(t \div 16, t > 127) = 101 /\ HexChar(t % 16, t > 127) = 57
    BY ONLY <2>2 DEF HexChar
  <2>4. Written(t) = <<Percent, HexChar(t \div 16, t > 127), HexChar(t % 16, t > 127)>>
    BY <1>2, <2>1
  <2> QED
    BY ONLY <2>1, <2>3, <2>4
<1> QED
  BY ONLY <1>1, <1>5, <1>6, <1>7, <1>8

\* The digits of the run's escapes.
LEMMA DigitsAre ==
  /\ strtol16(50, 54) = Amp /\ strtol16(51, 68) = Equals
  /\ strtol16(50, 53) = Percent /\ strtol16(101, 57) = 233
<1>1. {50, 51, 53, 54, 57, 68, 101} \subseteq (48..57) \cup (65..70) \cup (97..102)
  OBVIOUS
<1>2. \A c \in {50, 51, 53, 54, 57, 68, 101} : IsHex(c)
  BY <1>1 DEF IsHex, HexValue
<1>3. \A c \in {50, 51, 53, 54, 57, 68, 101} :
        HexValue[c] = IF c <= 57 THEN c - 48 ELSE IF c <= 70 THEN c - 55 ELSE c - 87
  BY <1>1 DEF HexValue
<1>4. /\ HexValue[50] = 2 /\ HexValue[51] = 3 /\ HexValue[53] = 5 /\ HexValue[54] = 6
      /\ HexValue[57] = 9
  <2>1. HexValue[50] = 2
    BY <1>3
  <2>2. HexValue[51] = 3
    BY <1>3
  <2>3. HexValue[53] = 5
    BY <1>3
  <2>4. HexValue[54] = 6
    BY <1>3
  <2>5. HexValue[57] = 9
    BY <1>3
  <2> QED
    BY ONLY <2>1, <2>2, <2>3, <2>4, <2>5
<1>5. HexValue[68] = 13
  BY <1>3
<1>6. HexValue[101] = 14
  BY <1>3
<1>7. \A a, b \in {50, 51, 53, 54, 57, 68, 101} :
        strtol16(a, b) = 16 * HexValue[a] + HexValue[b]
  <2>1. ASSUME NEW a, NEW b, IsHex(a), IsHex(b)
        PROVE  strtol16(a, b) = 16 * HexValue[a] + HexValue[b]
    BY ONLY <2>1 DEF strtol16
  <2> QED
    BY ONLY <1>2, <2>1
<1>8. strtol16(50, 54) = 38 /\ strtol16(51, 68) = 61 /\ strtol16(50, 53) = 37
      /\ strtol16(101, 57) = 233
  BY ONLY <1>4, <1>5, <1>6, <1>7
<1> QED
  BY ONLY <1>8 DEF Amp, Equals, Percent

\* The byte that a token stands for; a second mark of a value is one.
Plain(t) == IF t = Eq THEN Equals ELSE t

\* One byte as it is, or three that are an escape.
IsOne(w, v) == Len(w) = 1 /\ w[1] # Percent /\ v = IF w[1] = Plus THEN Blank ELSE w[1]

IsThree(w, v) == Len(w) = 3 /\ w[1] = Percent /\ strtol16(w[2], w[3]) = v

\* A token is written without the marks, if it is none, and read as what it is.
LEMMA TokenIs ==
  ASSUME NEW t \in QueryTokens
  PROVE  /\ Written(t) \in Seq(Nat) /\ Len(Written(t)) \in {1, 3}
         /\ \A i \in 1..Len(Written(t)) :
              (Written(t)[i] = Amp <=> t = Sep) /\ (Written(t)[i] = Equals <=> t = Eq)
         /\ t \in {Sep, Eq} => Len(Written(t)) = 1
         /\ t # Sep => IsOne(Written(t), Plain(t)) \/ IsThree(Written(t), Plain(t))
<1>1. /\ Amp = 38 /\ Equals = 61 /\ Percent = 37 /\ Plus = 43 /\ Blank = 32 /\ Sep = 256 /\ Eq = 257
  BY DEF Amp, Equals, Percent, Plus, Blank, Sep, Eq
<1>2. ASSUME NEW x \in Nat, Written(t) = <<x>>, x # Percent, x = Amp <=> t = Sep, x = Equals <=> t = Eq,
             t # Sep => Plain(t) = IF x = Plus THEN Blank ELSE x
      PROVE  /\ Written(t) \in Seq(Nat) /\ Len(Written(t)) = 1
             /\ \A i \in 1..Len(Written(t)) :
                  (Written(t)[i] = Amp <=> t = Sep) /\ (Written(t)[i] = Equals <=> t = Eq)
             /\ t # Sep => IsOne(Written(t), Plain(t))
  <2>1. PICK w : w = Written(t)
    OBVIOUS
  <2>2. w \in Seq(Nat) /\ Len(w) = 1 /\ w[1] = x /\ \A i \in 1..1 : i = 1
    BY <1>2, <2>1
  <2>3. \A i \in 1..Len(w) : (w[i] = Amp <=> t = Sep) /\ (w[i] = Equals <=> t = Eq)
    BY ONLY <1>2, <2>2
  <2>4. t # Sep => IsOne(w, Plain(t))
    BY ONLY <1>2, <2>2 DEF IsOne
  <2> QED
    BY ONLY <2>1, <2>2, <2>3, <2>4
<1>3. ASSUME NEW x \in Nat, NEW y \in Nat, Written(t) = <<Percent, x, y>>,
             {x, y} \cap {Amp, Equals} = {}, t \notin {Sep, Eq}, strtol16(x, y) = t
      PROVE  /\ Written(t) \in Seq(Nat) /\ Len(Written(t)) = 3
             /\ \A i \in 1..Len(Written(t)) :
                  (Written(t)[i] = Amp <=> t = Sep) /\ (Written(t)[i] = Equals <=> t = Eq)
             /\ IsThree(Written(t), Plain(t))
  <2>1. PICK w : w = Written(t)
    OBVIOUS
  <2>2. Percent \in Nat /\ Percent # Amp /\ Percent # Equals
    BY <1>1
  <2>3. w \in Seq(Nat) /\ Len(w) = 3 /\ w[1] = Percent /\ w[2] = x /\ w[3] = y
    BY <1>3, <2>1, <2>2
  <2>4. \A i \in 1..3 : i = 1 \/ i = 2 \/ i = 3
    OBVIOUS
  <2>5. \A i \in 1..Len(w) : (w[i] = Amp <=> t = Sep) /\ (w[i] = Equals <=> t = Eq)
    BY ONLY <1>3, <2>2, <2>3, <2>4
  <2>6. IsThree(w, Plain(t))
    BY ONLY <1>3, <2>3 DEF IsThree, Plain
  <2> QED
    BY ONLY <2>1, <2>3, <2>5, <2>6
<1>4. CASE t \in {97, Blank, Sep, Eq}
  <2>1. PICK x \in {97, 43, 38, 61} :
          /\ Written(t) = <<x>> /\ (x = Amp <=> t = Sep) /\ (x = Equals <=> t = Eq)
          /\ t # Sep => Plain(t) = IF x = Plus THEN Blank ELSE x
    BY <1>1, <1>4, WrittenAre DEF Plain
  <2>2. x \in Nat /\ x # Percent
    BY <1>1
  <2> QED
    BY <1>2, <2>1, <2>2
<1>5. CASE t \in {Amp, Equals, Percent, 233}
  <2>1. PICK x \in {50, 51, 101}, y \in {54, 68, 53, 57} :
          Written(t) = <<Percent, x, y>> /\ strtol16(x, y) = t
    BY <1>5, WrittenAre, DigitsAre
  <2>2. x \in Nat /\ y \in Nat /\ {x, y} \cap {Amp, Equals} = {} /\ t \notin {Sep, Eq}
    BY <1>1, <1>5
  <2>3. /\ Written(t) \in Seq(Nat) /\ Len(Written(t)) = 3
        /\ \A i \in 1..Len(Written(t)) :
             (Written(t)[i] = Amp <=> t = Sep) /\ (Written(t)[i] = Equals <=> t = Eq)
        /\ IsThree(Written(t), Plain(t))
    BY <1>3, <2>1, <2>2
  <2> QED
    BY ONLY <2>2, <2>3
<1> QED
  BY <1>4, <1>5 DEF QueryTokens

(***************************************************************************)
(* Where each token of a query is written.                                 *)
(***************************************************************************)
Place(s, a, b, w) == b = a + Len(w) /\ \A i \in 1..Len(w) : s[a + i] = w[i]

\* s is what the tokens are written as; the first j of them end at pos[j].
Encodes(s, t, pos) ==
  /\ s \in Seq(Nat) /\ t \in Seq(QueryTokens)
  /\ pos[0] = 0 /\ pos[Len(t)] = Len(s)
  /\ \A j \in 0..Len(t) : pos[j] \in Nat
  /\ \A j \in 1..Len(t) : Place(s, pos[j - 1], pos[j], Written(t[j]))

\* Each token takes one byte at least.
LEMMA PlacesGrow ==
  ASSUME NEW s, NEW t, NEW pos, Encodes(s, t, pos), NEW a \in 0..Len(t), NEW b \in 0..Len(t), a <= b
  PROVE  /\ pos[a] \in Nat /\ pos[b] \in Nat /\ pos[a] + (b - a) <= pos[b]
         /\ pos[b] <= Len(s)
<1>1. PICK n \in Nat : n = Len(t)
  BY LenProperties DEF Encodes
<1>2. PICK g \in [0..n -> Nat] : \A j \in 0..n : g[j] = pos[j]
  <2>1. [j \in 0..n |-> pos[j]] \in [0..n -> Nat]
    BY <1>1 DEF Encodes
  <2> QED
    BY <2>1
<1>3. ASSUME NEW j \in 1..n PROVE g[j] >= g[j - 1] + 1
  <2>1. t[j] \in QueryTokens
    BY <1>1, ElementOfSeq DEF Encodes
  <2>2. Len(Written(t[j])) \in {1, 3}
    BY <2>1, TokenIs
  <2>3. pos[j] = pos[j - 1] + Len(Written(t[j]))
    BY <1>1 DEF Encodes, Place
  <2>4. j - 1 \in 0..n /\ j \in 0..n
    OBVIOUS
  <2>5. g[j] = g[j - 1] + Len(Written(t[j])) /\ g[j - 1] \in Nat
    BY <1>2, <2>3, <2>4
  <2>6. PICK l \in {1, 3} : l = Len(Written(t[j]))
    BY <2>2
  <2>7. PICK x \in Nat : x = g[j - 1]
    BY <2>5
  <2>8. PICK y : y = g[j]
    OBVIOUS
  <2>9. y = x + l
    BY ONLY <2>5, <2>6, <2>7, <2>8
  <2>10. y >= x + 1
    BY ONLY <2>9, l \in {1, 3}, x \in Nat
  <2> QED
    BY ONLY <2>7, <2>8, <2>10
<1> DEFINE T == {k \in Nat : \A x, y \in 0..n : y = x + k => g[x] + k <= g[y]}
<1>4. 0 \in T
  <2>1. \A x, y \in 0..n : y = x + 0 => y = x /\ g[x] \in Nat
    BY <1>2
  <2> QED
    BY <2>1
<1>5. ASSUME NEW k \in T PROVE k + 1 \in T
  <2> SUFFICES ASSUME NEW x \in 0..n, NEW y \in 0..n, y = x + (k + 1)
               PROVE  g[x] + (k + 1) <= g[y]
    OBVIOUS
  <2>1. k \in Nat /\ y \in 1..n /\ y - 1 \in 0..n /\ y - 1 = x + k
    OBVIOUS
  <2>2. g[x] + k <= g[y - 1]
    BY <2>1
  <2>3. g[y] >= g[y - 1] + 1
    BY <1>3, <2>1
  <2>4. g[x] \in Nat /\ g[y] \in Nat /\ g[y - 1] \in Nat
    BY <2>1
  <2> QED
    BY ONLY <2>1, <2>2, <2>3, <2>4
<1>6. T = Nat
  <2> HIDE DEF T
  <2>1. T \subseteq Nat
    BY DEF T
  <2> QED
    BY <1>4, <1>5, <2>1, SetInduction
<1>7. ASSUME NEW x \in 0..n, NEW y \in 0..n, x <= y PROVE g[x] + (y - x) <= g[y]
  <2>1. y - x \in Nat /\ y = x + (y - x)
    BY <1>7
  <2>2. y - x \in T
    BY ONLY <1>6, <2>1
  <2> QED
    BY <2>1, <2>2
<1>8. a \in 0..n /\ b \in 0..n /\ n \in 0..n /\ b <= n
  BY <1>1
<1>9. g[a] + (b - a) <= g[b] /\ g[b] + (n - b) <= g[n]
  BY <1>7, <1>8
<1>10. g[a] \in Nat /\ g[b] \in Nat /\ g[n] \in Nat
  BY <1>8
<1>11. g[b] <= g[n]
  BY ONLY <1>8, <1>9, <1>10, n \in Nat
<1>12. g[n] = Len(s)
  BY <1>1, <1>2, <1>8 DEF Encodes
<1> QED
  BY ONLY <1>2, <1>8, <1>9, <1>10, <1>11, <1>12

\* A mark is written at the end of its place, which holds nothing else.
LEMMA MarkPlace ==
  ASSUME NEW s, NEW t, NEW pos, Encodes(s, t, pos), NEW j \in 1..Len(t), t[j] \in {Sep, Eq}
  PROVE  /\ pos[j] = pos[j - 1] + 1
         /\ t[j] = Sep => s[pos[j]] = Amp
         /\ t[j] = Eq => s[pos[j]] = Equals
<1>1. t[j] \in QueryTokens
  BY ElementOfSeq DEF Encodes
<1>2. PICK w : w = Written(t[j])
  OBVIOUS
<1>3. Len(w) = 1 /\ (w[1] = Amp <=> t[j] = Sep) /\ (w[1] = Equals <=> t[j] = Eq)
  <2>1. Len(w) = 1 /\ 1 \in 1..1
    BY <1>1, <1>2, TokenIs
  <2>2. \A i \in 1..Len(w) : (w[i] = Amp <=> t[j] = Sep) /\ (w[i] = Equals <=> t[j] = Eq)
    BY <1>1, <1>2, TokenIs
  <2> QED
    BY ONLY <2>1, <2>2
<1>4. Place(s, pos[j - 1], pos[j], w)
  BY <1>2 DEF Encodes
<1>5. pos[j] = pos[j - 1] + 1 /\ s[pos[j - 1] + 1] = w[1]
  <2>1. 1 \in 1..1
    OBVIOUS
  <2> QED
    BY ONLY <1>3, <1>4, <2>1 DEF Place
<1> QED
  BY ONLY <1>3, <1>5

\* Where a byte is a mark, the token is one.
LEMMA ByteIsOf ==
  ASSUME NEW s, NEW t, NEW pos, Encodes(s, t, pos), NEW i \in 1..Len(s)
  PROVE  \E j \in 1..Len(t) :
           /\ pos[j - 1] < i /\ i <= pos[j]
           /\ s[i] = Amp => t[j] = Sep /\ i = pos[j]
           /\ s[i] = Equals => t[j] = Eq /\ i = pos[j]
<1>1. PICK n \in Nat : n = Len(t)
  BY LenProperties DEF Encodes
<1>2. Len(s) \in Nat /\ pos[n] = Len(s) /\ pos[0] = 0 /\ \A j \in 0..n : pos[j] \in Nat
  BY <1>1, LenProperties DEF Encodes
<1> DEFINE U == {j \in 0..n : i <= pos[j]}
<1>3. n \in U
  BY <1>2
<1>4. PICK j \in U : \A u \in U : j <= u
  <2>1. U \subseteq Nat /\ U # {}
    BY <1>3
  <2> HIDE DEF U
  <2> QED
    BY <2>1, LeastNumber
<1>5. j \in 1..n /\ j - 1 \in 0..n /\ j - 1 < j /\ i <= pos[j]
  <2>1. j # 0
    BY <1>2, <1>4
  <2> QED
    BY <1>4, <2>1
<1>6. pos[j - 1] < i
  <2>1. j - 1 \notin U
    BY <1>4, <1>5
  <2>2. ~ (i <= pos[j - 1]) /\ pos[j - 1] \in Nat
    BY <1>2, <1>5, <2>1
  <2> QED
    BY ONLY <2>2, i \in 1..Len(s)
<1> HIDE DEF U
<1>7. t[j] \in QueryTokens
  BY <1>1, <1>5, ElementOfSeq DEF Encodes
<1>8. PICK w : w = Written(t[j])
  OBVIOUS
<1>9. Place(s, pos[j - 1], pos[j], w)
  BY <1>1, <1>5, <1>8 DEF Encodes
<1>10. PICK m \in Nat : m = Len(w)
  BY <1>7, <1>8, TokenIs
<1>11. PICK x \in Nat, y \in Nat : x = pos[j - 1] /\ y = pos[j]
  BY <1>2, <1>5
<1>12. y = x + m /\ \A l \in 1..m : s[x + l] = w[l]
  BY ONLY <1>9, <1>10, <1>11 DEF Place
<1>13. PICK l \in 1..m : i = x + l
  <2>1. i - x \in 1..m /\ i = x + (i - x)
    BY <1>5, <1>6, <1>11, <1>12
  <2> QED
    BY <2>1
<1>14. s[i] = w[l]
  BY ONLY <1>12, <1>13
<1>15. (w[l] = Amp => t[j] = Sep) /\ (w[l] = Equals => t[j] = Eq)
  BY <1>7, <1>8, <1>10, TokenIs
<1>16. t[j] \in {Sep, Eq} => m = 1
  BY <1>7, <1>8, <1>10, TokenIs
<1>17. t[j] \in {Sep, Eq} => i = pos[j]
  BY ONLY <1>11, <1>12, <1>13, <1>16, m \in Nat, l \in 1..m
<1> QED
  BY ONLY <1>1, <1>5, <1>6, <1>14, <1>15, <1>17

\* Some of the tokens, one behind the other, are written in one piece.
LEMMA EncodesPart ==
  ASSUME NEW s, NEW t, NEW pos, Encodes(s, t, pos), NEW a \in 0..Len(t), NEW b \in 0..Len(t), a <= b
  PROVE  Encodes(SubSeq(s, pos[a] + 1, pos[b]), SubSeq(t, a + 1, b),
                 [j \in 0..(b - a) |-> pos[a + j] - pos[a]])
<1>1. PICK n \in Nat : n = Len(t)
  BY LenProperties DEF Encodes
<1>2. s \in Seq(Nat) /\ t \in Seq(QueryTokens)
  BY DEF Encodes
<1>3. PICK m \in Nat : m = b - a /\ a + m = b
  BY <1>1
<1>4. PICK p \in Nat, q \in Nat : p = pos[a] /\ q = pos[b] /\ p <= q /\ q <= Len(s)
  <2>1. pos[a] \in Nat /\ pos[b] \in Nat /\ pos[a] + (b - a) <= pos[b] /\ pos[b] <= Len(s)
    BY PlacesGrow
  <2>2. pos[a] <= pos[b]
    BY ONLY <1>3, <2>1
  <2> QED
    BY ONLY <2>1, <2>2
<1>5. PICK z : z = SubSeq(s, p + 1, q)
  OBVIOUS
<1>6. z \in Seq(Nat) /\ Len(z) = q - p /\ \A i \in 1..(q - p) : z[i] = s[p + i]
  <2>1. /\ SubSeq(s, p + 1, q) \in Seq(Nat) /\ Len(SubSeq(s, p + 1, q)) = q - p
        /\ \A i \in 1..(q - p) : SubSeq(s, p + 1, q)[i] = s[p + i]
    <3>1. ASSUME NEW v \in Seq(Nat), NEW x \in Nat, NEW y \in Nat, x <= y, y <= Len(v)
          PROVE  /\ SubSeq(v, x + 1, y) \in Seq(Nat) /\ Len(SubSeq(v, x + 1, y)) = y - x
                 /\ \A i \in 1..(y - x) : SubSeq(v, x + 1, y)[i] = v[x + i]
      BY ONLY <3>1, v \in Seq(Nat), x \in Nat, y \in Nat, Cut
    <3> QED
      BY ONLY <1>2, <1>4, <3>1, p \in Nat, q \in Nat
  <2> QED
    BY ONLY <1>5, <2>1
<1>7. PICK u : u = SubSeq(t, a + 1, b)
  OBVIOUS
<1>8. u \in Seq(QueryTokens) /\ Len(u) = m /\ \A j \in 1..m : u[j] = t[a + j]
  <2>1. a \in Nat /\ b \in Nat /\ b <= Len(t)
    BY <1>1
  <2>2. /\ SubSeq(t, a + 1, b) \in Seq(QueryTokens) /\ Len(SubSeq(t, a + 1, b)) = b - a
        /\ \A j \in 1..(b - a) : SubSeq(t, a + 1, b)[j] = t[a + j]
    BY ONLY <1>2, <2>1, a <= b, Cut
  <2> QED
    BY ONLY <1>3, <1>7, <2>2
<1>9. PICK g : g = [j \in 0..m |-> pos[a + j] - p]
  OBVIOUS
<1>10. \A j \in 0..m : g[j] = pos[a + j] - p
  BY ONLY <1>9
<1>11. ASSUME NEW j \in 0..m
       PROVE  /\ a + j \in 0..n /\ pos[a + j] \in Nat /\ p <= pos[a + j] /\ pos[a + j] <= q
  <2>1. a + j \in 0..n /\ a <= a + j /\ a + j <= b /\ a + j \in 0..Len(t)
    BY <1>1, <1>3
  <2>2. /\ pos[a + j] \in Nat /\ pos[a] + ((a + j) - a) <= pos[a + j]
        /\ pos[a + j] + (b - (a + j)) <= pos[b]
    BY <2>1, PlacesGrow
  <2>3. (a + j) - a \in Nat /\ b - (a + j) \in Nat
    BY <2>1, <1>1
  <2> QED
    BY ONLY <1>4, <2>1, <2>2, <2>3, p \in Nat, q \in Nat
<1>12. g[0] = 0 /\ g[m] = q - p /\ \A j \in 0..m : g[j] \in Nat
  <2>1. 0 \in 0..m /\ m \in 0..m /\ a + 0 = a
    OBVIOUS
  <2>2. g[0] = p - p /\ g[m] = q - p
    BY ONLY <1>3, <1>4, <1>10, <2>1
  <2>3. p - p = 0
    OBVIOUS
  <2>4. ASSUME NEW j \in 0..m PROVE g[j] \in Nat
    <3>1. pos[a + j] \in Nat /\ p <= pos[a + j] /\ g[j] = pos[a + j] - p
      BY <1>10, <1>11
    <3> QED
      BY ONLY <3>1, p \in Nat
  <2> QED
    BY ONLY <2>2, <2>3, <2>4
<1>13. ASSUME NEW j \in 1..m PROVE Place(z, g[j - 1], g[j], Written(u[j]))
  <2>1. /\ j \in 0..m /\ j - 1 \in 0..m /\ a + (j - 1) = (a + j) - 1 /\ a + j \in 1..n
    BY <1>1, <1>3
  <2>2. PICK w : w = Written(u[j])
    OBVIOUS
  <2>3. t[a + j] \in QueryTokens
    BY <1>1, <1>2, <2>1, ElementOfSeq
  <2>4. u[j] = t[a + j]
    BY <1>8
  <2>5. PICK l \in Nat : l = Len(w)
    BY <2>2, <2>3, <2>4, TokenIs
  <2>6. Place(s, pos[(a + j) - 1], pos[a + j], w)
    BY <1>1, <2>1, <2>2, <2>4 DEF Encodes
  <2>7. PICK x \in Nat, y \in Nat : x = pos[(a + j) - 1] /\ y = pos[a + j] /\ p <= x /\ y <= q
    BY <1>11, <2>1
  <2>8. y = x + l /\ \A i \in 1..l : s[x + i] = w[i]
    BY ONLY <2>5, <2>6, <2>7 DEF Place
  <2>9. g[j - 1] = x - p /\ g[j] = y - p
    BY ONLY <1>10, <2>1, <2>7
  <2>10. y - p = (x - p) + l
    BY ONLY <2>8, x \in Nat, y \in Nat, p \in Nat, l \in Nat
  <2>11. ASSUME NEW i \in 1..l PROVE z[(x - p) + i] = w[i]
    <3>0. y = x + l /\ p <= x /\ y <= q
      BY ONLY <2>7, <2>8
    <3>1. (x - p) + i \in 1..(q - p) /\ p + ((x - p) + i) = x + i
      BY ONLY <3>0, x \in Nat, y \in Nat, p \in Nat, q \in Nat, l \in Nat, i \in 1..l
    <3> QED
      BY ONLY <1>6, <2>8, <2>11, <3>1
  <2> QED
    BY ONLY <2>2, <2>5, <2>9, <2>10, <2>11 DEF Place
<1>14. Encodes(z, u, g)
  BY ONLY <1>6, <1>8, <1>12, <1>13 DEF Encodes
<1> QED
  BY ONLY <1>3, <1>4, <1>5, <1>7, <1>9, <1>14

(***************************************************************************)
(* What url_decode makes of the tokens.                                    *)
(***************************************************************************)
\* What url_decode computes, from the last byte to the first.
Decodings(s, n, f) ==
  f = [r \in 0..n |->
         LET i == Len(s) - r + 1
         IN  IF r = 0 THEN <<>>
             ELSE IF IsEscape(s, i) THEN <<strtol16(s[i + 1], s[i + 2])>> \o f[r - 3]
             ELSE <<IF s[i] = Plus THEN Blank ELSE s[i]>> \o f[r - 1]]

\* There are such texts, for any number of bytes.
LEMMA DecodingsExist ==
  ASSUME NEW s \in Seq(Nat), NEW n \in Nat
  PROVE  \E f : Decodings(s, n, f)
<1>1. PICK l \in Nat : l = Len(s)
  BY LenProperties
<1> DEFINE T == {k \in Nat : \E f : Decodings(s, k, f)}
           From(r) == l - r + 1
           Then(f, r) == IF IsEscape(s, From(r))
                         THEN <<strtol16(s[From(r) + 1], s[From(r) + 2])>> \o f[r - 3]
                         ELSE <<IF s[From(r)] = Plus THEN Blank ELSE s[From(r)]>> \o f[r - 1]
<1>2. ASSUME NEW k \in Nat, NEW f
      PROVE  Decodings(s, k, f) <=> f = [r \in 0..k |-> IF r = 0 THEN <<>> ELSE Then(f, r)]
  BY <1>1 DEF Decodings
<1>3. ASSUME NEW k \in Nat, NEW f, NEW g, NEW r \in 1..(k + 1), \A i \in 0..k : f[i] = g[i]
      PROVE  Then(f, r) = Then(g, r)
  <2>1. r - 1 \in 0..k
    OBVIOUS
  <2>2. IsEscape(s, From(r)) => r - 3 \in 0..k
    BY <1>1 DEF IsEscape
  <2> QED
    BY <1>3, <2>1, <2>2
<1> HIDE DEF Then
<1>4. 0 \in T
  <2>1. Decodings(s, 0, [r \in 0..0 |-> <<>>])
    BY <1>2
  <2> QED
    BY <2>1
<1>5. ASSUME NEW k \in T PROVE k + 1 \in T
  <2>1. PICK f : Decodings(s, k, f)
    OBVIOUS
  <2>2. \A r \in 0..k : f[r] = IF r = 0 THEN <<>> ELSE Then(f, r)
    BY <1>2, <2>1
  <2> DEFINE g == [r \in 0..(k + 1) |-> IF r \in 0..k THEN f[r] ELSE Then(f, r)]
  <2>3. \A r \in 0..k : f[r] = g[r]
    OBVIOUS
  <2>4. ASSUME NEW r \in 0..(k + 1)
        PROVE  g[r] = IF r = 0 THEN <<>> ELSE Then(g, r)
    <3>1. CASE r = 0
      BY <2>2, <3>1
    <3>2. CASE r # 0
      <4>1. r \in 1..(k + 1)
        BY <3>2
      <4>2. Then(f, r) = Then(g, r)
        BY <1>3, <2>3, <4>1
      <4>3. g[r] = Then(f, r)
        BY <2>2, <3>2
      <4> QED
        BY <3>2, <4>2, <4>3
    <3> QED
      BY <3>1, <3>2
  <2>5. g = [r \in 0..(k + 1) |-> IF r = 0 THEN <<>> ELSE Then(g, r)]
    BY <2>4
  <2>6. PICK h : h = g
    OBVIOUS
  <2>7. PICK j \in Nat : j = k + 1
    OBVIOUS
  <2>8. h = [r \in 0..j |-> IF r = 0 THEN <<>> ELSE Then(h, r)]
    BY ONLY <2>5, <2>6, <2>7
  <2>9. Decodings(s, j, h)
    BY ONLY <1>2, <2>8, j \in Nat
  <2>10. j \in T
    BY <2>9
  <2> QED
    BY <2>7, <2>10
<1>6. T = Nat
  <2> HIDE DEF T
  <2>1. T \subseteq Nat
    BY DEF T
  <2> QED
    BY <1>4, <1>5, <2>1, SetInduction
<1> QED
  BY <1>6

\* A value in front of others.
LEMMA InFront ==
  ASSUME NEW S, NEW v \in S, NEW m \in Nat, NEW z \in Seq(S), Len(z) = m,
         NEW y \in Seq(S), Len(y) = m + 1, y[1] = v, \A i \in 1..m : y[i + 1] = z[i]
  PROVE  <<v>> \o z = y
<1>1. PICK h : h = <<v>> \o z
  OBVIOUS
<1>2. h \in Seq(S) /\ Len(h) = m + 1 /\ h[1] = v /\ \A i \in 2..(m + 1) : h[i] = z[i - 1]
  BY <1>1
<1>3. ASSUME NEW i \in 1..(m + 1) PROVE h[i] = y[i]
  <2>1. CASE i = 1
    BY <1>2, <2>1
  <2>2. CASE i # 1
    <3>1. i \in 2..(m + 1) /\ i - 1 \in 1..m /\ (i - 1) + 1 = i
      BY <2>2
    <3> QED
      BY <1>2, <3>1
  <2> QED
    BY <2>1, <2>2
<1> QED
  BY <1>1, <1>2, <1>3

\* The last m tokens, read.
LastRead(t, n, m) == [i \in 1..m |-> Plain(t[(n - m) + i])]

\* The text of tokens that are no separators is read as what they are.
LEMMA TokensRead ==
  ASSUME NEW s, NEW t, NEW pos, Encodes(s, t, pos), \A j \in 1..Len(t) : t[j] # Sep
  PROVE  url_decode(s) = [i \in 1..Len(t) |-> Plain(t[i])]
<1>1. PICK n \in Nat : n = Len(t)
  BY LenProperties DEF Encodes
<1>2. PICK l \in Nat : l = Len(s)
  BY LenProperties DEF Encodes
<1>3. s \in Seq(Nat) /\ t \in Seq(QueryTokens) /\ pos[0] = 0 /\ pos[n] = l
  BY <1>1, <1>2 DEF Encodes
<1> DEFINE g == CHOOSE f : Decodings(s, l, f)
<1>4. Decodings(s, l, g)
  BY <1>3, DecodingsExist
<1>5. url_decode(s) = g[l]
  BY <1>2 DEF url_decode, Decodings
<1> HIDE DEF g
<1>6. g[0] = <<>>
  BY <1>4 DEF Decodings
<1>7. ASSUME NEW r \in 1..l
      PROVE  LET i == l - r + 1
             IN  g[r] = IF IsEscape(s, i) THEN <<strtol16(s[i + 1], s[i + 2])>> \o g[r - 3]
                        ELSE <<IF s[i] = Plus THEN Blank ELSE s[i]>> \o g[r - 1]
  <2>1. g = [k \in 0..l |->
               LET i == l - k + 1
               IN  IF k = 0 THEN <<>>
                   ELSE IF IsEscape(s, i) THEN <<strtol16(s[i + 1], s[i + 2])>> \o g[k - 3]
                   ELSE <<IF s[i] = Plus THEN Blank ELSE s[i]>> \o g[k - 1]]
    BY ONLY <1>2, <1>4 DEF Decodings
  <2>2. PICK h : h = g
    OBVIOUS
  <2>3. h = [k \in 0..l |->
               LET i == l - k + 1
               IN  IF k = 0 THEN <<>>
                   ELSE IF IsEscape(s, i) THEN <<strtol16(s[i + 1], s[i + 2])>> \o g[k - 3]
                   ELSE <<IF s[i] = Plus THEN Blank ELSE s[i]>> \o g[k - 1]]
    BY ONLY <2>1, <2>2
  <2>4. r \in 0..l /\ r # 0
    OBVIOUS
  <2>5. LET i == l - r + 1
        IN  h[r] = IF IsEscape(s, i) THEN <<strtol16(s[i + 1], s[i + 2])>> \o g[r - 3]
                   ELSE <<IF s[i] = Plus THEN Blank ELSE s[i]>> \o g[r - 1]
    BY ONLY <2>3, <2>4
  <2> QED
    BY ONLY <2>2, <2>5
<1>8. ASSUME NEW m \in 0..n
      PROVE  /\ LastRead(t, n, m) \in Seq(Nat) /\ Len(LastRead(t, n, m)) = m
             /\ \A i \in 1..m : LastRead(t, n, m)[i] = Plain(t[(n - m) + i])
  <2>1. ASSUME NEW i \in 1..m PROVE Plain(t[(n - m) + i]) \in Nat
    <3>1. t[(n - m) + i] \in QueryTokens
      BY <1>1, <1>3, ElementOfSeq
    <3> QED
      BY <3>1 DEF Plain, QueryTokens, Blank, Amp, Equals, Percent, Sep, Eq
  <2> QED
    BY <2>1 DEF LastRead
<1> DEFINE T == {m \in Nat : m <= n => g[l - pos[n - m]] = LastRead(t, n, m)}
<1>9. 0 \in T
  <2>1. l - pos[n - 0] = 0
    BY <1>3
  <2>2. LastRead(t, n, 0) = <<>>
    BY DEF LastRead
  <2> QED
    BY <1>6, <2>1, <2>2
<1>10. ASSUME NEW m \in T PROVE m + 1 \in T
  <2> SUFFICES ASSUME m + 1 <= n PROVE g[l - pos[n - (m + 1)]] = LastRead(t, n, m + 1)
    OBVIOUS
  <2>1. m \in Nat /\ m \in 0..n /\ m + 1 \in 0..n /\ n - m \in 1..n
        /\ g[l - pos[n - m]] = LastRead(t, n, m)
    OBVIOUS
  <2> HIDE DEF T
  <2>2. PICK j \in 1..n : j = n - m /\ j - 1 = n - (m + 1) /\ j - 1 \in 0..n
    BY <2>1
  <2>3. PICK w : w = Written(t[j])
    OBVIOUS
  <2>4. t[j] \in QueryTokens /\ t[j] # Sep
    BY <1>1, <1>3, ElementOfSeq
  <2>5. PICK v : v = Plain(t[j])
    OBVIOUS
  <2>6. v \in Nat /\ (IsOne(w, v) \/ IsThree(w, v))
    <3>1. IsOne(w, v) \/ IsThree(w, v)
      BY <2>3, <2>4, <2>5, TokenIs
    <3>2. v \in Nat
      BY <2>4, <2>5 DEF Plain, QueryTokens, Blank, Amp, Equals, Percent, Sep, Eq
    <3> QED
      BY <3>1, <3>2
  <2>7. PICK x \in Nat, y \in Nat : x = pos[j - 1] /\ y = pos[j] /\ y <= l
    <3>1. pos[j - 1] \in Nat /\ pos[j] \in Nat /\ pos[j] <= Len(s)
      <4>1. j - 1 \in 0..Len(t) /\ j \in 0..Len(t) /\ j - 1 <= j
        BY <1>1, <2>2
      <4> QED
        BY <4>1, PlacesGrow
    <3> QED
      BY <1>2, <3>1
  <2>8. Place(s, x, y, w)
    BY <1>1, <2>3, <2>7 DEF Encodes
  <2>9. PICK z : z = LastRead(t, n, m)
    OBVIOUS
  <2>10. PICK u : u = LastRead(t, n, m + 1)
    OBVIOUS
  <2>11. <<v>> \o z = u
    <3>1. z \in Seq(Nat) /\ Len(z) = m /\ \A i \in 1..m : z[i] = Plain(t[(n - m) + i])
      BY <1>8, <2>1, <2>9
    <3>2. u \in Seq(Nat) /\ Len(u) = m + 1
          /\ \A i \in 1..(m + 1) : u[i] = Plain(t[(n - (m + 1)) + i])
      BY <1>8, <2>1, <2>10
    <3>3. 1 \in 1..(m + 1) /\ (n - (m + 1)) + 1 = j
          /\ \A i \in 1..m : i + 1 \in 1..(m + 1) /\ (n - (m + 1)) + (i + 1) = (n - m) + i
      BY <2>1, <2>2
    <3>4. u[1] = v
      BY <2>5, <3>2, <3>3
    <3>5. ASSUME NEW i \in 1..m PROVE u[i + 1] = z[i]
      <4>1. u[i + 1] = Plain(t[(n - (m + 1)) + (i + 1)])
        BY <3>2, <3>3
      <4> QED
        BY <3>1, <3>3, <4>1
    <3>6. m \in Nat /\ v \in Nat
      BY <2>1, <2>6
    <3> QED
      BY ONLY <3>1, <3>2, <3>4, <3>5, <3>6, InFront
  <2>12. g[l - y] = z
    BY <2>1, <2>2, <2>7, <2>9
  <2>13. CASE IsOne(w, v)
    <3>1. y = x + 1 /\ s[x + 1] = w[1] /\ w[1] # Percent /\ v = IF w[1] = Plus THEN Blank ELSE w[1]
      <4>1. 1 \in 1..1
        OBVIOUS
      <4> QED
        BY ONLY <2>8, <2>13, <4>1 DEF Place, IsOne
    <3>2. PICK r \in 1..l : r = l - x /\ r - 1 = l - y /\ l - r + 1 = x + 1
      <4>1. y <= l /\ y = x + 1
        BY <2>7, <3>1
      <4>2. l - x \in 1..l /\ (l - x) - 1 = l - y /\ l - (l - x) + 1 = x + 1
        BY ONLY <4>1, x \in Nat, y \in Nat, l \in Nat
      <4> QED
        BY <4>2
    <3>3. ~ IsEscape(s, x + 1)
      BY <3>1 DEF IsEscape
    <3>4. g[r] = <<IF s[x + 1] = Plus THEN Blank ELSE s[x + 1]>> \o g[r - 1]
      BY <1>7, <3>2, <3>3
    <3>5. g[r] = <<v>> \o z
      BY ONLY <2>12, <3>1, <3>2, <3>4
    <3> QED
      BY <2>2, <2>7, <2>10, <2>11, <3>2, <3>5
  <2>14. CASE IsThree(w, v)
    <3>1. y = x + 3 /\ s[x + 1] = Percent /\ strtol16(s[x + 2], s[x + 3]) = v
      <4>1. 1 \in 1..3 /\ 2 \in 1..3 /\ 3 \in 1..3
        OBVIOUS
      <4>2. y = x + 3 /\ s[x + 1] = w[1] /\ s[x + 2] = w[2] /\ s[x + 3] = w[3]
        BY ONLY <2>8, <2>14, <4>1 DEF Place, IsThree
      <4> QED
        BY ONLY <2>14, <4>2 DEF IsThree
    <3>2. PICK r \in 1..l : r = l - x /\ r - 3 = l - y /\ l - r + 1 = x + 1
      <4>1. y <= l /\ y = x + 3
        BY <2>7, <3>1
      <4>2. l - x \in 1..l /\ (l - x) - 3 = l - y /\ l - (l - x) + 1 = x + 1
        BY ONLY <4>1, x \in Nat, y \in Nat, l \in Nat
      <4> QED
        BY <4>2
    <3>3. IsEscape(s, x + 1)
      BY <1>2, <2>7, <3>1 DEF IsEscape
    <3>4. (x + 1) + 1 = x + 2 /\ (x + 1) + 2 = x + 3
      OBVIOUS
    <3>5. g[r] = <<strtol16(s[(x + 1) + 1], s[(x + 1) + 2])>> \o g[r - 3]
      BY <1>7, <3>2, <3>3
    <3>6. g[r] = <<v>> \o z
      BY ONLY <2>12, <3>1, <3>2, <3>4, <3>5
    <3> QED
      BY <2>2, <2>7, <2>10, <2>11, <3>2, <3>6
  <2> QED
    BY <2>6, <2>13, <2>14
<1>11. T = Nat
  <2> HIDE DEF T
  <2>1. T \subseteq Nat
    BY DEF T
  <2> QED
    BY <1>9, <1>10, <2>1, SetInduction
<1>12. n \in T
  BY <1>11
<1>13. g[l - pos[n - n]] = LastRead(t, n, n)
  BY <1>12
<1>14. n - n = 0 /\ l - 0 = l /\ \A i \in 1..n : (n - n) + i = i
  OBVIOUS
<1>15. LastRead(t, n, n) = [i \in 1..n |-> Plain(t[i])]
  BY ONLY <1>14 DEF LastRead
<1> QED
  BY <1>1, <1>3, <1>5, <1>13, <1>14, <1>15

\* The first place of a mark, or 0.
SelectMark(s, c) == SelectInSeq(s, LAMBDA x : x = c)

LEMMA FirstMark ==
  ASSUME NEW S, NEW s \in Seq(S), NEW c
  PROVE  LET n == SelectMark(s, c)
         IN  /\ n \in 0..Len(s)
             /\ n = 0 => \A i \in 1..Len(s) : s[i] # c
             /\ n > 0 => s[n] = c /\ \A i \in 1..(n - 1) : s[i] # c
<1> DEFINE n == SelectMark(s, c)
           I == {i \in 1..Len(s) : s[i] = c}
<1>1. n = IF I # {} THEN Min(I) ELSE 0
  BY DEF SelectMark, SelectInSeq
<1>2. I \subseteq Nat /\ Len(s) \in Nat
  BY LenProperties
<1>3. CASE I = {}
  BY <1>1, <1>2, <1>3
<1>4. CASE I # {}
  <2>1. PICK x \in I : \A y \in I : x <= y
    <3> HIDE DEF I
    <3> QED
      BY <1>2, <1>4, LeastNumber
  <2>2. n \in I /\ \A y \in I : n <= y
    BY <1>1, <1>4, <2>1 DEF Min
  <2>3. n \in 1..Len(s) /\ s[n] = c
    BY <2>2
  <2>4. \A i \in 1..(n - 1) : s[i] # c
    <3> SUFFICES ASSUME NEW i \in 1..(n - 1), s[i] = c PROVE FALSE
      OBVIOUS
    <3>1. i \in I
      BY <1>2, <2>3
    <3> QED
      BY <2>2, <2>3, <3>1
  <2>5. n \in 0..Len(s) /\ n # 0
    BY <1>2, <2>3
  <2> QED
    BY <2>3, <2>4, <2>5
<1> QED
  BY <1>3, <1>4

\* The text of a pair has its first mark where the first token is one.
LEMMA EqualsAtIs ==
  ASSUME NEW s, NEW t, NEW pos, Encodes(s, t, pos)
  PROVE  LET e == SelectMark(t, Eq)
         IN  EqualsAt(s) = IF e = 0 THEN 0 ELSE pos[e]
<1>1. PICK n \in Nat, l \in Nat : n = Len(t) /\ l = Len(s)
  BY LenProperties DEF Encodes
<1>2. PICK e \in 0..n : e = SelectMark(t, Eq)
  BY <1>1, FirstMark DEF Encodes
<1>3. PICK x \in 0..l : x = EqualsAt(s)
  <2>1. EqualsAt(s) = SelectMark(s, Equals)
    BY DEF EqualsAt, SelectMark
  <2> QED
    BY <1>1, <2>1, FirstMark DEF Encodes
<1>4. /\ e = 0 => \A i \in 1..n : t[i] # Eq
      /\ e > 0 => t[e] = Eq /\ \A i \in 1..(e - 1) : t[i] # Eq
  BY <1>1, <1>2, FirstMark DEF Encodes
<1>5. /\ x = 0 => \A i \in 1..l : s[i] # Equals
      /\ x > 0 => s[x] = Equals /\ \A i \in 1..(x - 1) : s[i] # Equals
  <2>1. EqualsAt(s) = SelectMark(s, Equals)
    BY DEF EqualsAt, SelectMark
  <2> QED
    BY <1>1, <1>3, <2>1, FirstMark DEF Encodes
<1>6. ASSUME x # 0 PROVE \E j \in 1..n : t[j] = Eq /\ x = pos[j]
  <2>1. x \in 1..Len(s) /\ s[x] = Equals
    BY <1>1, <1>5, <1>6
  <2>2. PICK j \in 1..Len(t) :
          /\ pos[j - 1] < x /\ x <= pos[j]
          /\ s[x] = Amp => t[j] = Sep /\ x = pos[j]
          /\ s[x] = Equals => t[j] = Eq /\ x = pos[j]
    BY <2>1, ByteIsOf
  <2> QED
    BY <1>1, <2>1, <2>2
<1>7. CASE e = 0
  <2>1. x = 0
    BY <1>4, <1>6, <1>7
  <2> QED
    BY <1>2, <1>3, <1>7, <2>1
<1>8. CASE e # 0
  <2>1. e \in 1..Len(t) /\ t[e] = Eq
    BY <1>1, <1>4, <1>8
  <2>2. pos[e] = pos[e - 1] + 1 /\ s[pos[e]] = Equals
    BY <2>1, MarkPlace
  <2>3. PICK y \in Nat : y = pos[e] /\ y <= l /\ y # 0
    <3>1. e \in 0..Len(t) /\ e - 1 \in 0..Len(t) /\ e <= e
      BY <2>1
    <3>2. pos[e] \in Nat /\ pos[e] <= Len(s)
      BY <3>1, PlacesGrow
    <3>3. pos[e - 1] \in Nat
      BY <3>1 DEF Encodes
    <3> QED
      BY <1>1, <2>2, <3>2, <3>3
  <2>4. s[y] = Equals /\ y \in 1..l
    BY <2>2, <2>3
  <2>5. x # 0 /\ x <= y
    <3>1. x # 0
      BY <1>5, <2>4
    <3>2. ~ (y \in 1..(x - 1))
      BY <1>5, <2>4
    <3> QED
      BY <2>4, <3>1, <3>2
  <2>6. PICK j \in 1..n : t[j] = Eq /\ x = pos[j]
    BY <1>6, <2>5
  <2>7. e <= j
    BY <1>4, <1>8, <2>6
  <2>8. y <= x
    <3>1. e \in 0..Len(t) /\ j \in 0..Len(t)
      BY <1>1
    <3>2. pos[e] + (j - e) <= pos[j]
      BY <2>7, <3>1, PlacesGrow
    <3>3. j - e \in Nat
      BY <2>7
    <3> QED
      BY ONLY <2>3, <2>6, <3>2, <3>3, x \in 0..l, y \in Nat, l \in Nat
  <2>9. x = y
    BY <2>5, <2>8
  <2> QED
    BY <1>2, <1>3, <1>8, <2>3, <2>9
<1> QED
  BY <1>7, <1>8

\* What is read of some of the tokens.
LEMMA PartReads ==
  ASSUME NEW s, NEW t, NEW pos, Encodes(s, t, pos), \A j \in 1..Len(t) : t[j] # Sep,
         NEW a \in 0..Len(t), NEW b \in 0..Len(t), a <= b
  PROVE  url_decode(SubSeq(s, pos[a] + 1, pos[b])) = [i \in 1..(b - a) |-> Plain(t[a + i])]
<1>1. PICK n \in Nat : n = Len(t)
  BY LenProperties DEF Encodes
<1>2. PICK z : z = SubSeq(s, pos[a] + 1, pos[b])
  OBVIOUS
<1>3. PICK u : u = SubSeq(t, a + 1, b)
  OBVIOUS
<1>4. PICK g : g = [j \in 0..(b - a) |-> pos[a + j] - pos[a]]
  OBVIOUS
<1>5. Encodes(z, u, g)
  BY <1>2, <1>3, <1>4, EncodesPart
<1>6. a \in Nat /\ b \in Nat /\ a <= b /\ b <= Len(t) /\ t \in Seq(QueryTokens)
  BY <1>1 DEF Encodes
<1>7. Len(u) = b - a /\ \A j \in 1..(b - a) : u[j] = t[a + j]
  BY ONLY <1>3, <1>6, Cut
<1>8. \A j \in 1..Len(u) : u[j] # Sep
  BY <1>1, <1>6, <1>7
<1>9. url_decode(z) = [i \in 1..Len(u) |-> Plain(u[i])]
  BY <1>5, <1>8, TokensRead
<1>10. [i \in 1..Len(u) |-> Plain(u[i])] = [i \in 1..(b - a) |-> Plain(t[a + i])]
  BY ONLY <1>7
<1> QED
  BY <1>2, <1>9, <1>10

\* A pair is read as the key and the value that were written.
LEMMA PairIs ==
  ASSUME NEW s, NEW t, NEW pos, Encodes(s, t, pos), \A j \in 1..Len(t) : t[j] # Sep
  PROVE  KeyPart(s) = KeyOf(t) /\ ValuePart(s) = ValueOf(t) /\ (s = <<>> <=> t = <<>>)
<1>1. PICK n \in Nat, l \in Nat : n = Len(t) /\ l = Len(s)
  BY LenProperties DEF Encodes
<1>2. PICK e \in 0..n : e = SelectMark(t, Eq)
  BY <1>1, FirstMark DEF Encodes
<1>3. /\ e = 0 => \A i \in 1..n : t[i] # Eq
      /\ e > 0 => t[e] = Eq /\ \A i \in 1..(e - 1) : t[i] # Eq
  BY <1>1, <1>2, FirstMark DEF Encodes
<1>4. EqualsAt(s) = IF e = 0 THEN 0 ELSE pos[e]
  BY <1>2, EqualsAtIs
<1>5. s \in Seq(Nat) /\ t \in Seq(QueryTokens) /\ pos[0] = 0 /\ pos[n] = l
  BY <1>1 DEF Encodes
<1>6. KeyOf(t) = IF e = 0 THEN t ELSE SubSeq(t, 1, e - 1)
  BY <1>2 DEF KeyOf, SelectMark
<1>7. 0 \in 0..Len(t) /\ n \in 0..Len(t) /\ 0 <= n /\ n - 0 = n
  BY <1>1
<1>8. s = <<>> <=> t = <<>>
  <2>1. pos[0] + (n - 0) <= pos[n]
    BY <1>7, PlacesGrow
  <2>2. n <= l
    BY ONLY <1>5, <1>7, <2>1, n \in Nat
  <2>3. n = 0 => l = 0
    BY <1>5
  <2>4. l = 0 <=> s = <<>>
    BY <1>1, <1>5
  <2>5. n = 0 <=> t = <<>>
    BY <1>1, <1>5
  <2> QED
    BY ONLY <2>2, <2>3, <2>4, <2>5, n \in Nat, l \in Nat
<1>9. CASE e = 0
  <2>1. url_decode(SubSeq(s, pos[0] + 1, pos[n])) = [i \in 1..(n - 0) |-> Plain(t[0 + i])]
    BY <1>7, PartReads
  <2>2. SubSeq(s, pos[0] + 1, pos[n]) = s
    <3>1. 0 + 1 = 1
      OBVIOUS
    <3>2. SubSeq(s, 1, Len(s)) = s
      BY <1>5
    <3> QED
      BY ONLY <1>1, <1>5, <3>1, <3>2
  <2>3. [i \in 1..(n - 0) |-> Plain(t[0 + i])] = t
    <3>1. ASSUME NEW i \in 1..n PROVE Plain(t[0 + i]) = t[i]
      BY <1>3, <1>9 DEF Plain
    <3>2. [i \in 1..n |-> t[i]] = t
      BY <1>1, <1>5
    <3> QED
      BY ONLY <1>7, <3>1, <3>2
  <2>4. KeyPart(s) = url_decode(s) /\ ValuePart(s) = <<>>
    BY <1>4, <1>9 DEF KeyPart, ValuePart
  <2>5. KeyOf(t) = t
    BY <1>6, <1>9
  <2>6. ValueOf(t) = <<>>
    <3>1. n - n - 0 = 0
      OBVIOUS
    <3>2. 1..0 = {}
      OBVIOUS
    <3> QED
      BY ONLY <1>1, <2>5, <3>1, <3>2 DEF ValueOf
  <2> QED
    BY ONLY <1>8, <2>1, <2>2, <2>3, <2>4, <2>5, <2>6
<1>10. CASE e # 0
  <2>1. e \in 1..Len(t) /\ t[e] = Eq /\ e \in 0..Len(t) /\ e - 1 \in 0..Len(t) /\ 0 <= e - 1 /\ e <= n
    BY <1>1, <1>3, <1>10
  <2>2. pos[e] = pos[e - 1] + 1
    BY <2>1, MarkPlace
  <2>3. PICK x \in Nat, y \in Nat : x = pos[e - 1] /\ y = pos[e] /\ y = x + 1 /\ y # 0 /\ y - 1 = x
    <3>1. pos[e - 1] \in Nat /\ pos[e] \in Nat
      BY <2>1 DEF Encodes
    <3> QED
      BY <2>2, <3>1
  <2>4. EqualsAt(s) = y
    BY <1>4, <1>10, <2>3
  <2>5. KeyPart(s) = url_decode(SubSeq(s, 1, x)) /\ ValuePart(s) = url_decode(SubSeq(s, y + 1, l))
    BY ONLY <1>1, <2>3, <2>4 DEF KeyPart, ValuePart
  <2>6. url_decode(SubSeq(s, 1, x)) = [i \in 1..(e - 1) |-> Plain(t[i])]
    <3>1. url_decode(SubSeq(s, pos[0] + 1, pos[e - 1])) = [i \in 1..((e - 1) - 0) |-> Plain(t[0 + i])]
      BY <1>7, <2>1, PartReads
    <3>2. 0 + 1 = 1 /\ (e - 1) - 0 = e - 1 /\ \A i \in 1..(e - 1) : 0 + i = i
      OBVIOUS
    <3> QED
      BY ONLY <1>5, <2>3, <3>1, <3>2
  <2>7. url_decode(SubSeq(s, y + 1, l)) = [i \in 1..(n - e) |-> Plain(t[e + i])]
    <3>1. url_decode(SubSeq(s, pos[e] + 1, pos[n])) = [i \in 1..(n - e) |-> Plain(t[e + i])]
      BY <1>7, <2>1, PartReads
    <3> QED
      BY ONLY <1>5, <2>3, <3>1
  <2>8. PICK k \in Nat : k = e - 1 /\ k + 1 = e /\ k <= Len(t) /\ k # n
    BY <1>1, <2>1
  <2>9. PICK w : w = SubSeq(t, 1, k)
    OBVIOUS
  <2>10. w \in Seq(QueryTokens) /\ Len(w) = k /\ \A i \in 1..k : w[i] = t[i]
    BY ONLY <1>5, <2>8, <2>9, FrontCut, k \in Nat
  <2>11. KeyOf(t) = w
    BY <1>6, <1>10, <2>8, <2>9
  <2>12. [i \in 1..k |-> Plain(t[i])] = w
    <3>1. ASSUME NEW i \in 1..k PROVE Plain(t[i]) = w[i]
      <4>1. t[i] # Eq
        BY <1>3, <1>10, <2>8
      <4> QED
        BY <2>10, <4>1 DEF Plain
    <3>2. [i \in 1..k |-> w[i]] = w
      BY ONLY <2>10
    <3> QED
      BY ONLY <3>1, <3>2
  <2>13. ValueOf(t) = [i \in 1..(n - e) |-> Plain(t[e + i])]
    <3>1. w # t
      BY <1>1, <2>8, <2>10
    <3>2. n - k - 1 = n - e /\ \A i \in 1..(n - e) : k + 1 + i = e + i
      BY <2>8
    <3>3. ValueOf(t) = [i \in 1..(n - k - 1) |-> LET x1 == t[k + 1 + i] IN IF x1 = Eq THEN Equals ELSE x1]
      BY ONLY <1>1, <2>10, <2>11, <3>1 DEF ValueOf
    <3> QED
      BY ONLY <2>8, <3>2, <3>3 DEF Plain
  <2> QED
    BY ONLY <1>8, <2>5, <2>6, <2>7, <2>8, <2>11, <2>12, <2>13
<1> QED
  BY <1>9, <1>10

\* One text behind the other, from none.
Joined(h, w, n) ==
  /\ h[0] = <<>>
  /\ \A j \in 1..n : w[j] \in Seq(Nat) /\ h[j] = h[j - 1] \o w[j]

\* The first k of them, each at its place.
JoinedTo(h, w, k) ==
  /\ h[k] \in Seq(Nat)
  /\ \A j \in 0..k : Len(h[j]) \in Nat /\ Len(h[j]) <= Len(h[k])
  /\ \A j \in 1..k : Place(h[k], Len(h[j - 1]), Len(h[j]), w[j])

LEMMA JoinedStep ==
  ASSUME NEW h, NEW w, NEW n \in Nat, Joined(h, w, n), NEW k \in Nat, k + 1 <= n, JoinedTo(h, w, k)
  PROVE  JoinedTo(h, w, k + 1)
<1>1. PICK m \in 1..n : m = k + 1 /\ m - 1 = k
  OBVIOUS
<1>2. PICK a \in Seq(Nat) : a = h[k]
  BY DEF JoinedTo
<1>3. PICK b \in Seq(Nat) : b = w[m]
  BY DEF Joined
<1>4. PICK c : c = h[m]
  OBVIOUS
<1>5. c = a \o b
  BY <1>1, <1>2, <1>3, <1>4 DEF Joined
<1>6. PICK x \in Nat, y \in Nat : x = Len(a) /\ y = Len(b)
  BY LenProperties
<1>7. c \in Seq(Nat) /\ Len(c) = x + y /\ (\A i \in 1..x : c[i] = a[i])
      /\ \A i \in 1..y : c[x + i] = b[i]
  <2>1. c \in Seq(Nat) /\ Len(c) = x + y
    BY ONLY <1>5, <1>6, a \in Seq(Nat), b \in Seq(Nat)
  <2>2. \A i \in 1..x : c[i] = a[i]
    BY ONLY <1>5, <1>6, x \in Nat, y \in Nat, a \in Seq(Nat), b \in Seq(Nat)
  <2>3. \A i \in 1..y : c[x + i] = b[i]
    BY ONLY <1>5, <1>6, x \in Nat, y \in Nat, a \in Seq(Nat), b \in Seq(Nat)
  <2> QED
    BY ONLY <2>1, <2>2, <2>3
<1>8. \A j \in 0..k : Len(h[j]) \in Nat /\ Len(h[j]) <= x
  BY <1>2, <1>6 DEF JoinedTo
<1>9. ASSUME NEW j \in 0..m PROVE Len(h[j]) \in Nat /\ Len(h[j]) <= Len(h[m])
  <2>1. CASE j \in 0..k
    <3>1. PICK z \in Nat : z = Len(h[j]) /\ z <= x
      BY <1>8, <2>1
    <3>2. z <= x + y
      BY ONLY <3>1, z \in Nat, x \in Nat, y \in Nat
    <3> QED
      BY ONLY <1>4, <1>7, <3>1, <3>2
  <2>2. CASE j \notin 0..k
    <3>1. j = m
      BY <1>1, <2>2
    <3>2. x + y \in Nat /\ x + y <= x + y
      OBVIOUS
    <3> QED
      BY ONLY <1>4, <1>7, <3>1, <3>2
  <2> QED
    BY <2>1, <2>2
<1>10. ASSUME NEW j \in 1..m PROVE Place(h[m], Len(h[j - 1]), Len(h[j]), w[j])
  <2>1. CASE j \in 1..k
    <3>1. Place(a, Len(h[j - 1]), Len(h[j]), w[j])
      BY <1>2, <2>1 DEF JoinedTo
    <3>2. PICK u \in Nat, v \in Nat : u = Len(h[j - 1]) /\ v = Len(h[j]) /\ v <= x
      <4>1. j - 1 \in 0..k /\ j \in 0..k
        BY <2>1
      <4> QED
        BY <1>8, <4>1
    <3>3. PICK z \in Nat : z = Len(w[j])
      <4>0. j \in 1..n
        BY ONLY <1>1, <2>1, k \in Nat, n \in Nat
      <4>1. w[j] \in Seq(Nat)
        BY ONLY Joined(h, w, n), <4>0 DEF Joined
      <4> QED
        BY <4>1, LenProperties
    <3>4. v = u + z /\ \A i \in 1..z : a[u + i] = w[j][i]
      BY ONLY <3>1, <3>2, <3>3 DEF Place
    <3>5. ASSUME NEW i \in 1..z PROVE c[u + i] = w[j][i]
      <4>1. u + i \in 1..x
        BY ONLY <3>2, <3>4, u \in Nat, v \in Nat, x \in Nat, z \in Nat, i \in 1..z
      <4> QED
        BY <1>7, <3>4, <4>1
    <3> QED
      BY ONLY <1>4, <3>2, <3>3, <3>4, <3>5 DEF Place
  <2>2. CASE j \notin 1..k
    <3>1. j = m
      BY <1>1, <2>2
    <3>2. Place(c, x, x + y, b)
      BY ONLY <1>6, <1>7 DEF Place
    <3> QED
      BY ONLY <1>1, <1>2, <1>3, <1>4, <1>6, <1>7, <3>1, <3>2
  <2> QED
    BY <2>1, <2>2
<1>11. JoinedTo(h, w, m)
  BY ONLY <1>4, <1>7, <1>9, <1>10 DEF JoinedTo
<1> QED
  BY <1>1, <1>11

LEMMA JoinedIs ==
  ASSUME NEW h, NEW w, NEW n \in Nat, Joined(h, w, n)
  PROVE  JoinedTo(h, w, n)
<1> DEFINE T == {k \in Nat : k <= n => JoinedTo(h, w, k)}
<1>1. 0 \in T
  <2>1. h[0] = <<>> /\ <<>> \in Seq(Nat) /\ Len(<<>>) = 0 /\ 0 \in Nat /\ 0 <= 0
    BY DEF Joined
  <2>2. (\A j \in 0..0 : j = 0) /\ 1..0 = {}
    OBVIOUS
  <2>3. JoinedTo(h, w, 0)
    BY ONLY <2>1, <2>2 DEF JoinedTo
  <2> QED
    BY <2>3
<1>2. ASSUME NEW k \in T PROVE k + 1 \in T
  <2>1. ASSUME k + 1 <= n PROVE JoinedTo(h, w, k + 1)
    <3>1. k \in Nat /\ JoinedTo(h, w, k)
      BY <2>1
    <3> QED
      BY <2>1, <3>1, JoinedStep
  <2> QED
    BY <2>1
<1>3. T = Nat
  <2> HIDE DEF T
  <2>1. T \subseteq Nat
    BY DEF T
  <2> QED
    BY <1>1, <1>2, <2>1, SetInduction
<1> QED
  BY <1>3

\* What the tokens are written as.
WrittenQuery(t) == FlattenSeq([i \in 1..Len(t) |-> Written(t[i])])

LEMMA QueryEncodes ==
  ASSUME NEW t \in Seq(QueryTokens)
  PROVE  \E pos : Encodes(WrittenQuery(t), t, pos)
<1>1. PICK n \in Nat : n = Len(t)
  BY LenProperties
<1>2. PICK w : w = [i \in 1..n |-> Written(t[i])]
  OBVIOUS
<1>3. Len(w) = n /\ \A i \in 1..n : w[i] = Written(t[i])
  BY ONLY <1>2, n \in Nat
<1>4. \A i \in 1..n : w[i] \in Seq(Nat)
  <2>1. ASSUME NEW i \in 1..n PROVE w[i] \in Seq(Nat)
    <3>1. t[i] \in QueryTokens
      BY <1>1, ElementOfSeq
    <3> QED
      BY <1>3, <3>1, TokenIs
  <2> QED
    BY <2>1
<1>5. PICK s : s = WrittenQuery(t)
  OBVIOUS
<1>6. s = FlattenSeq(w)
  BY <1>1, <1>2, <1>5 DEF WrittenQuery
<1>7. \E h : Joined(h, w, n) /\ h[n] = s
  <2>1. CASE n = 0
    <3>1. w = <<>>
      BY <1>2, <2>1
    <3>2. s = <<>>
      BY <1>3, <1>6, <2>1, <3>1 DEF FlattenSeq
    <3>3. PICK h : h = [j \in 0..0 |-> <<>>]
      OBVIOUS
    <3>4. h[0] = <<>> /\ 1..0 = {}
      BY <3>3
    <3> QED
      BY ONLY <2>1, <3>2, <3>4 DEF Joined
  <2>2. CASE n # 0
    <3>1. PICK f : Flattening(w, n, f) /\ FlattenSeq(w) = f[n]
      BY <1>3, <2>2, FlattenIs
    <3>2. \A i \in 1..n : f[i] = IF i = 1 THEN w[i] ELSE f[i - 1] \o w[i]
      BY ONLY <3>1 DEF Flattening
    <3>3. PICK h : h = [j \in 0..n |-> IF j = 0 THEN <<>> ELSE f[j]]
      OBVIOUS
    <3>4. h[0] = <<>> /\ \A j \in 1..n : h[j] = f[j]
      BY <3>3
    <3>5. ASSUME NEW j \in 1..n PROVE h[j] = h[j - 1] \o w[j]
      <4>1. CASE j = 1
        <5>1. h[j] = w[j] /\ h[j - 1] = <<>>
          BY <3>2, <3>4, <4>1
        <5>2. PICK v \in Seq(Nat) : v = w[j]
          BY <1>4
        <5>3. <<>> \o v = v
          BY ONLY v \in Seq(Nat)
        <5> QED
          BY ONLY <5>1, <5>2, <5>3
      <4>2. CASE j # 1
        <5>1. j - 1 \in 1..n
          BY <4>2
        <5> QED
          BY <3>2, <3>4, <4>2, <5>1
      <4> QED
        BY <4>1, <4>2
    <3>6. Joined(h, w, n)
      BY <1>4, <3>4, <3>5 DEF Joined
    <3>7. h[n] = s
      BY <1>6, <2>2, <3>1, <3>4
    <3> QED
      BY <3>6, <3>7
  <2> QED
    BY <2>1, <2>2
<1>8. PICK h : Joined(h, w, n) /\ h[n] = s
  BY <1>7
<1>9. JoinedTo(h, w, n)
  BY <1>8, JoinedIs
<1>10. PICK pos : pos = [j \in 0..n |-> Len(h[j])]
  OBVIOUS
<1>11. \A j \in 0..n : pos[j] = Len(h[j]) /\ pos[j] \in Nat
  BY ONLY <1>9, <1>10 DEF JoinedTo
<1>12. s \in Seq(Nat) /\ pos[0] = 0 /\ pos[n] = Len(s)
  <2>1. 0 \in 0..n /\ n \in 0..n
    OBVIOUS
  <2>2. h[0] = <<>>
    BY <1>8 DEF Joined
  <2>3. pos[0] = 0
    BY <1>11, <2>1, <2>2
  <2>4. s \in Seq(Nat)
    BY <1>8, <1>9 DEF JoinedTo
  <2> QED
    BY <1>8, <1>11, <2>1, <2>3, <2>4
<1>13. ASSUME NEW j \in 1..n PROVE Place(s, pos[j - 1], pos[j], Written(t[j]))
  <2>1. j - 1 \in 0..n /\ j \in 0..n
    OBVIOUS
  <2>2. Place(s, Len(h[j - 1]), Len(h[j]), w[j])
    BY <1>8, <1>9 DEF JoinedTo
  <2> QED
    BY <1>3, <1>11, <2>1, <2>2
<1>14. Encodes(s, t, pos)
  BY ONLY <1>1, <1>11, <1>12, <1>13, t \in Seq(QueryTokens) DEF Encodes
<1> QED
  BY <1>5, <1>14

\* A pair of the tokens, which may be empty, and what the run makes of them.
TokenPart(t, a, b) ==
  /\ a \in 0..Len(t) /\ b \in 1..(Len(t) + 1) /\ a < b
  /\ a = 0 \/ t[a] = Sep
  /\ b = Len(t) + 1 \/ t[b] = Sep
  /\ \A k \in (a + 1)..(b - 1) : t[k] # Sep

TokenEnds(t) == {i \in 1..Len(t) : t[i] = Sep} \cup {Len(t) + 1}

PairsOf(t) ==
  {SubSeq(t, p[1], p[2] - 1) : p \in {q \in (1..Len(t)) \X TokenEnds(t) :
     q[1] \in {e + 1 : e \in TokenEnds(t)} \cup {1} /\ \A k \in q[1]..(q[2] - 1) : k \notin TokenEnds(t)}}
  \ {<<>>}

\* Pairs are the parts that are not empty.
LEMMA PairsAre ==
  ASSUME NEW t \in Seq(QueryTokens)
  PROVE  /\ \A v \in PairsOf(t) : \E a, b : TokenPart(t, a, b) /\ v = SubSeq(t, a + 1, b - 1)
         /\ \A a, b : TokenPart(t, a, b) /\ SubSeq(t, a + 1, b - 1) # <<>>
                        => SubSeq(t, a + 1, b - 1) \in PairsOf(t)
<1>1. PICK n \in Nat : n = Len(t)
  BY LenProperties
<1>2. \A i \in 1..n : i \in TokenEnds(t) <=> t[i] = Sep
  BY <1>1 DEF TokenEnds
<1>3. TokenEnds(t) \subseteq 1..(n + 1) /\ n + 1 \in TokenEnds(t)
  BY <1>1 DEF TokenEnds
<1>4. ASSUME NEW v \in PairsOf(t)
      PROVE  \E a, b : TokenPart(t, a, b) /\ v = SubSeq(t, a + 1, b - 1)
  <2>1. PICK x \in 1..n, y \in TokenEnds(t) :
          /\ v = SubSeq(t, x, y - 1) /\ v # <<>>
          /\ x \in {e + 1 : e \in TokenEnds(t)} \cup {1}
          /\ \A k \in x..(y - 1) : k \notin TokenEnds(t)
    BY <1>1 DEF PairsOf
  <2>2. y \in 1..(n + 1)
    BY <1>3
  <2>3. x <= y - 1
    <3>1. ASSUME ~ (x <= y - 1) PROVE FALSE
      <4>1. SubSeq(t, x, y - 1) = <<>>
        BY ONLY <2>2, <3>1, SubSeqEmpty, x \in 1..n, n \in Nat, t \in Seq(QueryTokens)
      <4> QED
        BY <2>1, <4>1
    <3> QED
      BY <3>1
  <2>4. PICK a \in Nat : a + 1 = x /\ a < y /\ a \in 0..(n - 1)
    <3>1. x - 1 \in Nat /\ (x - 1) + 1 = x /\ x - 1 < y /\ x - 1 \in 0..(n - 1)
      BY <2>2, <2>3
    <3> QED
      BY <3>1
  <2>5. a = 0 \/ t[a] = Sep
    <3>1. CASE x = 1
      BY <2>4, <3>1
    <3>2. CASE x # 1
      <4>1. PICK e \in TokenEnds(t) : x = e + 1
        BY <2>1, <3>2
      <4>2. e \in 1..(n + 1)
        BY <1>3
      <4>3. e = a /\ a \in 1..n
        BY <2>4, <4>1, <4>2
      <4> QED
        BY <1>2, <4>3
    <3> QED
      BY <3>1, <3>2
  <2>6. y = n + 1 \/ t[y] = Sep
    BY <1>2, <2>2
  <2>7. ASSUME NEW k \in (a + 1)..(y - 1) PROVE t[k] # Sep
    <3>1. k \in x..(y - 1) /\ k \in 1..n
      BY <2>2, <2>4
    <3> QED
      BY <1>2, <2>1, <3>1
  <2>8. TokenPart(t, a, y)
    <3>1. a \in 0..n
      BY <2>4
    <3> QED
      BY ONLY <1>1, <2>2, <2>4, <2>5, <2>6, <2>7, <3>1 DEF TokenPart
  <2> QED
    BY <2>1, <2>4, <2>8
<1>5. ASSUME NEW a, NEW b, TokenPart(t, a, b), SubSeq(t, a + 1, b - 1) # <<>>
      PROVE  SubSeq(t, a + 1, b - 1) \in PairsOf(t)
  <2>1. /\ a \in 0..n /\ b \in 1..(n + 1) /\ a < b
        /\ a = 0 \/ t[a] = Sep
        /\ b = n + 1 \/ t[b] = Sep
        /\ \A k \in (a + 1)..(b - 1) : t[k] # Sep
    BY ONLY <1>1, <1>5 DEF TokenPart
  <2>2. PICK x \in Nat : x = a + 1
    BY <2>1
  <2>3. x <= b - 1
    <3>1. ASSUME ~ (x <= b - 1) PROVE FALSE
      <4>1. SubSeq(t, x, b - 1) = <<>>
        BY ONLY <2>1, <2>2, <3>1, SubSeqEmpty, x \in Nat, n \in Nat, t \in Seq(QueryTokens)
      <4> QED
        BY <1>5, <2>2, <4>1
    <3> QED
      BY <3>1
  <2>4. x \in 1..n
    BY <2>1, <2>2, <2>3
  <2>5. b \in TokenEnds(t)
    BY <1>2, <1>3, <2>1
  <2>6. x \in {e + 1 : e \in TokenEnds(t)} \cup {1}
    <3>1. CASE a = 0
      BY <2>2, <3>1
    <3>2. CASE a # 0
      <4>1. a \in TokenEnds(t)
        BY <1>2, <2>1, <3>2
      <4> QED
        BY <2>2, <4>1
    <3> QED
      BY <3>1, <3>2
  <2>7. ASSUME NEW k \in x..(b - 1) PROVE k \notin TokenEnds(t)
    <3>1. k \in (a + 1)..(b - 1) /\ k \in 1..n
      BY <2>1, <2>2, <2>4
    <3> QED
      BY <1>2, <2>1, <3>1
  <2>8. PICK p : p = <<x, b>>
    OBVIOUS
  <2>9. p \in (1..Len(t)) \X TokenEnds(t) /\ p[1] = x /\ p[2] = b
    BY <1>1, <2>4, <2>5, <2>8
  <2>10. p \in {q \in (1..Len(t)) \X TokenEnds(t) :
                  /\ q[1] \in {e + 1 : e \in TokenEnds(t)} \cup {1}
                  /\ \A k \in q[1]..(q[2] - 1) : k \notin TokenEnds(t)}
    BY <2>6, <2>7, <2>9
  <2>11. SubSeq(t, p[1], p[2] - 1) = SubSeq(t, a + 1, b - 1)
    BY <2>2, <2>9
  <2> QED
    BY <1>5, <2>10, <2>11 DEF PairsOf
<1> QED
  BY <1>4, <1>5

\* Tokens and their places are in one order.
LEMMA PlacesOrder ==
  ASSUME NEW s, NEW t, NEW pos, Encodes(s, t, pos), NEW a \in 0..Len(t), NEW b \in 0..Len(t)
  PROVE  /\ pos[a] \in Nat /\ pos[b] \in Nat /\ pos[b] <= Len(s)
         /\ a <= b <=> pos[a] <= pos[b]
         /\ a < b <=> pos[a] < pos[b]
<1>1. PICK n \in Nat : n = Len(t)
  BY LenProperties DEF Encodes
<1>2. PICK x \in Nat, y \in Nat : x = pos[a] /\ y = pos[b]
  BY DEF Encodes
<1>3. a <= b => x + (b - a) <= y
  BY <1>2, PlacesGrow
<1>4. b <= a => y + (a - b) <= x
  BY <1>2, PlacesGrow
<1>5. pos[b] <= Len(s)
  <2>1. b <= b
    BY <1>1
  <2> QED
    BY <2>1, PlacesGrow
<1>6. a \in Nat /\ b \in Nat
  BY <1>1
<1>7. (a <= b <=> x <= y) /\ (a < b <=> x < y)
  BY ONLY <1>3, <1>4, <1>6, x \in Nat, y \in Nat
<1> QED
  BY <1>2, <1>5, <1>7

\* A part of the tokens is written as a part of the text, and each of those is one.
LEMMA PartWritten ==
  ASSUME NEW s, NEW t, NEW pos, Encodes(s, t, pos), NEW a, NEW b, TokenPart(t, a, b)
  PROVE  IsPart(s, pos[a], pos[b - 1] + 1)
<1>1. PICK n \in Nat, l \in Nat : n = Len(t) /\ l = Len(s)
  BY LenProperties DEF Encodes
<1>2. /\ a \in 0..n /\ b \in 1..(n + 1) /\ a < b
      /\ a = 0 \/ t[a] = Sep
      /\ b = n + 1 \/ t[b] = Sep
      /\ \A k \in (a + 1)..(b - 1) : t[k] # Sep
  BY ONLY <1>1, TokenPart(t, a, b) DEF TokenPart
<1>3. PICK c \in 0..n : c = b - 1 /\ a <= c /\ c + 1 = b
  BY <1>2
<1>4. pos[0] = 0 /\ pos[n] = l
  BY <1>1 DEF Encodes
<1>5. PICK x \in 0..l, y \in 0..l : x = pos[a] /\ y = pos[c] /\ x <= y
  BY <1>1, <1>2, <1>3, PlacesOrder
<1>6. x = 0 \/ s[x] = Amp
  <2>1. CASE a = 0
    BY <1>4, <1>5, <2>1
  <2>2. CASE a # 0
    <3>1. a \in 1..Len(t) /\ t[a] = Sep
      BY <1>1, <1>2, <2>2
    <3> QED
      BY <1>5, <3>1, MarkPlace
  <2> QED
    BY <2>1, <2>2
<1>7. y + 1 = l + 1 \/ s[y + 1] = Amp
  <2>1. CASE b = n + 1
    BY <1>3, <1>4, <1>5, <2>1
  <2>2. CASE b # n + 1
    <3>1. b \in 1..Len(t) /\ t[b] = Sep
      BY <1>1, <1>2, <2>2
    <3>2. pos[b] = pos[b - 1] + 1 /\ s[pos[b]] = Amp
      BY <3>1, MarkPlace
    <3> QED
      BY <1>3, <1>5, <3>2
  <2> QED
    BY <2>1, <2>2
<1>8. ASSUME NEW i \in (x + 1)..((y + 1) - 1), s[i] = Amp PROVE FALSE
  <2>1. i \in 1..Len(s) /\ x < i /\ i <= y
    BY <1>1
  <2>2. PICK j \in 1..Len(t) :
          /\ pos[j - 1] < i /\ i <= pos[j]
          /\ s[i] = Amp => t[j] = Sep /\ i = pos[j]
          /\ s[i] = Equals => t[j] = Eq /\ i = pos[j]
    BY <2>1, ByteIsOf
  <2>3. t[j] = Sep /\ i = pos[j] /\ j \in 0..Len(t)
    BY <1>1, <1>8, <2>2
  <2>4. a < j
    BY <1>1, <1>2, <1>5, <2>1, <2>3, PlacesOrder
  <2>5. j <= c
    BY <1>1, <1>3, <1>5, <2>1, <2>3, PlacesOrder
  <2>6. j \in (a + 1)..(b - 1)
    BY <1>1, <1>2, <1>3, <2>4, <2>5
  <2> QED
    BY <1>2, <2>3, <2>6
<1>9. x \in 0..Len(s) /\ y + 1 \in 1..(Len(s) + 1) /\ x < y + 1
  BY <1>1, <1>5
<1>10. Unbroken(s, x, y + 1)
  BY <1>6, <1>8 DEF Unbroken
<1>11. IsPart(s, x, y + 1)
  BY ONLY <1>1, <1>7, <1>9, <1>10 DEF IsPart
<1> QED
  BY <1>3, <1>5, <1>11

LEMMA PartOfTokens ==
  ASSUME NEW s, NEW t, NEW pos, Encodes(s, t, pos), NEW x, NEW y, IsPart(s, x, y)
  PROVE  \E a, b : TokenPart(t, a, b) /\ x = pos[a] /\ y = pos[b - 1] + 1
<1>1. PICK n \in Nat, l \in Nat : n = Len(t) /\ l = Len(s)
  BY LenProperties DEF Encodes
<1>2. /\ x \in 0..l /\ y \in 1..(l + 1) /\ x < y
      /\ x = 0 \/ s[x] = Amp
      /\ \A i \in (x + 1)..(y - 1) : s[i] # Amp
      /\ y = l + 1 \/ s[y] = Amp
  BY ONLY <1>1, IsPart(s, x, y) DEF IsPart, Unbroken
<1>3. pos[0] = 0 /\ pos[n] = l
  BY <1>1 DEF Encodes
<1>4. ASSUME NEW i \in 1..l, s[i] = Amp PROVE \E j \in 1..n : t[j] = Sep /\ i = pos[j]
  <2>1. i \in 1..Len(s)
    BY <1>1
  <2>2. PICK j \in 1..Len(t) :
          /\ pos[j - 1] < i /\ i <= pos[j]
          /\ s[i] = Amp => t[j] = Sep /\ i = pos[j]
          /\ s[i] = Equals => t[j] = Eq /\ i = pos[j]
    BY <2>1, ByteIsOf
  <2> QED
    BY <1>1, <1>4, <2>2
<1>5. PICK a \in 0..n : (a = 0 \/ t[a] = Sep) /\ x = pos[a]
  <2>1. CASE x = 0
    BY <1>3, <2>1
  <2>2. CASE x # 0
    <3>1. x \in 1..l /\ s[x] = Amp
      BY <1>2, <2>2
    <3>2. PICK j \in 1..n : t[j] = Sep /\ x = pos[j]
      BY <1>4, <3>1
    <3> QED
      BY <3>2
  <2> QED
    BY <2>1, <2>2
<1>6. PICK b \in 1..(n + 1) : (b = n + 1 \/ t[b] = Sep) /\ y = pos[b - 1] + 1 /\ a < b
  <2>1. CASE y = l + 1
    <3>1. n + 1 \in 1..(n + 1) /\ (n + 1) - 1 = n /\ a < n + 1
      OBVIOUS
    <3> QED
      BY <1>3, <2>1, <3>1
  <2>2. CASE y # l + 1
    <3>1. y \in 1..l /\ s[y] = Amp
      BY <1>2, <2>2
    <3>2. PICK j \in 1..n : t[j] = Sep /\ y = pos[j]
      BY <1>4, <3>1
    <3>3. j \in 1..Len(t)
      BY <1>1
    <3>4. pos[j] = pos[j - 1] + 1
      BY <3>2, <3>3, MarkPlace
    <3>5. a < j
      <4>1. a \in 0..Len(t) /\ j \in 0..Len(t)
        BY <1>1
      <4> QED
        BY <1>2, <1>5, <3>2, <4>1, PlacesOrder
    <3> QED
      BY <3>2, <3>4, <3>5
  <2> QED
    BY <2>1, <2>2
<1>7. ASSUME NEW k \in (a + 1)..(b - 1), t[k] = Sep PROVE FALSE
  <2>1. k \in 1..Len(t) /\ k \in 0..Len(t) /\ a \in 0..Len(t) /\ b - 1 \in 0..Len(t)
        /\ a < k /\ k <= b - 1
    BY <1>1
  <2>2. s[pos[k]] = Amp
    BY <1>7, <2>1, MarkPlace
  <2>3. pos[k] \in Nat /\ pos[a] < pos[k]
    BY <2>1, PlacesOrder
  <2>4. pos[k] <= pos[b - 1] /\ pos[b - 1] \in Nat
    BY <2>1, PlacesOrder
  <2>5. pos[k] \in (x + 1)..(y - 1)
    BY <1>2, <1>5, <1>6, <2>3, <2>4
  <2> QED
    BY <1>2, <2>2, <2>5
<1>8. TokenPart(t, a, b)
  BY ONLY <1>1, <1>5, <1>6, <1>7, a \in 0..n, b \in 1..(n + 1) DEF TokenPart
<1> QED
  BY <1>5, <1>6, <1>8

\* A part of the text is read as the pair that was written, if it is not empty.
LEMMA PartIsPair ==
  ASSUME NEW s, NEW t, NEW pos, Encodes(s, t, pos), NEW a, NEW b, TokenPart(t, a, b)
  PROVE  LET z == SubSeq(s, pos[a] + 1, (pos[b - 1] + 1) - 1)
             v == SubSeq(t, a + 1, b - 1)
         IN  KeyPart(z) = KeyOf(v) /\ ValuePart(z) = ValueOf(v) /\ (z = <<>> <=> v = <<>>)
<1>1. PICK n \in Nat : n = Len(t)
  BY LenProperties DEF Encodes
<1>2. /\ a \in 0..n /\ b \in 1..(n + 1) /\ a < b
      /\ \A k \in (a + 1)..(b - 1) : t[k] # Sep
  BY ONLY <1>1, TokenPart(t, a, b) DEF TokenPart
<1>3. PICK c \in 0..n : c = b - 1 /\ a <= c
  BY <1>2
<1>4. PICK x \in Nat, y \in Nat : x = pos[a] /\ y = pos[c]
  BY <1>1, <1>2 DEF Encodes
<1>5. (y + 1) - 1 = y
  OBVIOUS
<1>6. PICK z : z = SubSeq(s, x + 1, y)
  OBVIOUS
<1>7. PICK v : v = SubSeq(t, a + 1, c)
  OBVIOUS
<1>8. PICK g : g = [j \in 0..(c - a) |-> pos[a + j] - pos[a]]
  OBVIOUS
<1>9. Encodes(z, v, g)
  <2>1. a \in 0..Len(t) /\ c \in 0..Len(t)
    BY <1>1, <1>2
  <2>2. Encodes(SubSeq(s, pos[a] + 1, pos[c]), SubSeq(t, a + 1, c),
                [j \in 0..(c - a) |-> pos[a + j] - pos[a]])
    BY <1>3, <2>1, EncodesPart
  <2> QED
    BY ONLY <1>4, <1>6, <1>7, <1>8, <2>2
<1>10. Len(v) = c - a /\ \A j \in 1..(c - a) : v[j] = t[a + j]
  <2>1. a \in Nat /\ c \in Nat /\ c <= Len(t) /\ t \in Seq(QueryTokens)
    BY <1>1, <1>2 DEF Encodes
  <2> QED
    BY ONLY <1>3, <1>7, <2>1, Cut
<1>11. \A j \in 1..Len(v) : v[j] # Sep
  <2>1. ASSUME NEW j \in 1..(c - a) PROVE v[j] # Sep
    <3>1. a + j \in (a + 1)..(b - 1)
      BY <1>2, <1>3
    <3> QED
      BY <1>2, <1>10, <3>1
  <2> QED
    BY <1>10, <2>1
<1>12. KeyPart(z) = KeyOf(v) /\ ValuePart(z) = ValueOf(v) /\ (z = <<>> <=> v = <<>>)
  BY <1>9, <1>11, PairIs
<1> QED
  BY ONLY <1>3, <1>4, <1>5, <1>6, <1>7, <1>12

\* The map has the keys that were written, each with a value written for it.
LEMMA QueryArrives ==
  ASSUME NEW t \in Seq(QueryTokens)
  PROVE  LET out == parse_query(WrittenQuery(t))
         IN  /\ DOMAIN out = {KeyOf(p) : p \in PairsOf(t)}
             /\ \A k \in DOMAIN out : out[k] \in {ValueOf(p) : p \in {q \in PairsOf(t) : KeyOf(q) = k}}
<1>1. PICK pos : Encodes(WrittenQuery(t), t, pos)
  BY QueryEncodes
<1>2. PICK s \in Seq(Nat) : s = WrittenQuery(t)
  BY <1>1 DEF Encodes
<1>3. Encodes(s, t, pos)
  BY <1>1, <1>2
<1>4. PICK p : p = SplitAmp(s)
  OBVIOUS
<1>5. PICK m : m = Len(p)
  OBVIOUS
<1>6. PICK out : out = parse_query(s)
  OBVIOUS
<1>7. PairsPut(p, m, out)
  BY <1>4, <1>5, <1>6, QueryIs
<1>8. /\ \A j \in 1..m : \E x, y : IsPart(s, x, y) /\ p[j] = SubSeq(s, x + 1, y - 1)
      /\ \A x, y : IsPart(s, x, y) => \E j \in 1..m : p[j] = SubSeq(s, x + 1, y - 1)
  <2>1. /\ \A j \in 1..Len(SplitAmp(s)) :
             \E x, y : IsPart(s, x, y) /\ SplitAmp(s)[j] = SubSeq(s, x + 1, y - 1)
        /\ \A x, y : IsPart(s, x, y) =>
             \E j \in 1..Len(SplitAmp(s)) : SplitAmp(s)[j] = SubSeq(s, x + 1, y - 1)
    BY ONLY s \in Seq(Nat), PartsAre
  <2> QED
    BY ONLY <1>4, <1>5, <2>1
<1>9. ASSUME NEW j \in 1..m, p[j] # <<>>
      PROVE  \E v \in PairsOf(t) : KeyPart(p[j]) = KeyOf(v) /\ ValuePart(p[j]) = ValueOf(v)
  <2>1. PICK x, y : IsPart(s, x, y) /\ p[j] = SubSeq(s, x + 1, y - 1)
    BY <1>8
  <2>2. PICK a, b : TokenPart(t, a, b) /\ x = pos[a] /\ y = pos[b - 1] + 1
    BY <1>3, <2>1, PartOfTokens
  <2>3. PICK v : v = SubSeq(t, a + 1, b - 1)
    OBVIOUS
  <2>4. PICK z : z = SubSeq(s, pos[a] + 1, (pos[b - 1] + 1) - 1)
    OBVIOUS
  <2>5. KeyPart(z) = KeyOf(v) /\ ValuePart(z) = ValueOf(v) /\ (z = <<>> <=> v = <<>>)
    BY <1>3, <2>2, <2>3, <2>4, PartIsPair
  <2>6. z = p[j]
    BY ONLY <2>1, <2>2, <2>4
  <2>7. v \in PairsOf(t)
    BY <1>9, <2>2, <2>3, <2>5, <2>6, PairsAre
  <2> QED
    BY <2>5, <2>6, <2>7
<1>10. ASSUME NEW v \in PairsOf(t)
       PROVE  \E j \in 1..m : p[j] # <<>> /\ KeyPart(p[j]) = KeyOf(v) /\ ValuePart(p[j]) = ValueOf(v)
  <2>1. PICK a, b : TokenPart(t, a, b) /\ v = SubSeq(t, a + 1, b - 1)
    BY PairsAre
  <2>2. v # <<>>
    BY DEF PairsOf
  <2>3. PICK z : z = SubSeq(s, pos[a] + 1, (pos[b - 1] + 1) - 1)
    OBVIOUS
  <2>4. KeyPart(z) = KeyOf(v) /\ ValuePart(z) = ValueOf(v) /\ (z = <<>> <=> v = <<>>)
    BY <1>3, <2>1, <2>3, PartIsPair
  <2>5. IsPart(s, pos[a], pos[b - 1] + 1)
    BY <1>3, <2>1, PartWritten
  <2>6. PICK j \in 1..m : p[j] = z
    BY <1>8, <2>3, <2>5
  <2> QED
    BY <2>2, <2>4, <2>6
<1>11. DOMAIN out = {KeyPart(p[i]) : i \in {j \in 1..m : p[j] # <<>>}}
  BY <1>7 DEF PairsPut
<1>12. ASSUME NEW k
       PROVE  k \in DOMAIN out <=> k \in {KeyOf(v) : v \in PairsOf(t)}
  <2>1. ASSUME k \in DOMAIN out PROVE k \in {KeyOf(v) : v \in PairsOf(t)}
    <3>1. PICK i \in 1..m : p[i] # <<>> /\ k = KeyPart(p[i])
      BY <1>11, <2>1
    <3> QED
      BY <1>9, <3>1
  <2>2. ASSUME k \in {KeyOf(v) : v \in PairsOf(t)} PROVE k \in DOMAIN out
    <3>1. PICK v \in PairsOf(t) : k = KeyOf(v)
      BY <2>2
    <3>2. PICK j \in 1..m : p[j] # <<>> /\ KeyPart(p[j]) = KeyOf(v)
      BY <1>10
    <3> QED
      BY <1>11, <3>1, <3>2
  <2> QED
    BY <2>1, <2>2
<1>13. DOMAIN out = {KeyOf(v) : v \in PairsOf(t)}
  BY ONLY <1>12
<1>14. ASSUME NEW k \in DOMAIN out
       PROVE  out[k] \in {ValueOf(v) : v \in {q \in PairsOf(t) : KeyOf(q) = k}}
  <2>1. PICK i \in 1..m : p[i] # <<>> /\ KeyPart(p[i]) = k /\ out[k] = ValuePart(p[i])
    BY <1>7 DEF PairsPut
  <2>2. PICK v \in PairsOf(t) : KeyPart(p[i]) = KeyOf(v) /\ ValuePart(p[i]) = ValueOf(v)
    BY <1>9, <2>1
  <2> QED
    BY <2>1, <2>2
<1> QED
  BY ONLY <1>2, <1>6, <1>13, <1>14

\* A query is made of the run's tokens.
QueryInput == subject.parser = "query" => input \in Seq(QueryTokens)

LEMMA QueryInputHolds == Inputs => []QueryInput
<1>1. Start => QueryInput
  BY EmptySeq DEF Start, QueryInput
<1>2. QueryInput /\ [Extend]_inputs => QueryInput'
  <2> SUFFICES ASSUME QueryInput, [Extend]_inputs PROVE QueryInput'
    OBVIOUS
  <2>1. CASE Extend
    <3>1. CASE subject.parser = "query"
      <4>1. ExtendQuery
        BY <2>1, <3>1 DEF Extend, ExtendPath, ExtendWire, ExtendHeader,
                          ExtendQuery, ExtendCalls, ExtendSealed, ExtendText
      <4>2. PICK c \in QueryTokens : input' = Append(input, c)
        BY <4>1 DEF ExtendQuery
      <4>3. input \in Seq(QueryTokens)
        BY <3>1 DEF QueryInput
      <4>4. input' \in Seq(QueryTokens)
        BY <4>2, <4>3, AppendProperties
      <4> QED
        BY <4>4 DEF QueryInput
    <3>2. CASE subject.parser # "query"
      <4>1. subject' = subject
        BY <2>1 DEF Extend, ExtendPath, ExtendWire, ExtendHeader,
                    ExtendQuery, ExtendCalls, ExtendSealed, ExtendText
      <4> QED
        BY <3>2, <4>1 DEF QueryInput
    <3> QED
      BY <3>1, <3>2
  <2>2. CASE UNCHANGED inputs
    BY <2>2 DEF inputs, QueryInput
  <2> QED
    BY <2>1, <2>2
<1> QED
  BY <1>1, <1>2, PTL DEF Inputs

\* parse_query (picohttpwrapper.hpp:76): however long the query, and wherever its
\* marks and escapes are, the map has the keys that were written, each with a
\* value that was written for it.
THEOREM QueryComesOutHolds == Inputs => []QueryComesOut
<1>1. QueryInput => QueryComesOut
  <2> SUFFICES ASSUME QueryInput, subject.parser = "query"
               PROVE  LET out == parse_query(WrittenQuery(input))
                      IN  /\ DOMAIN out = {KeyOf(p) : p \in Pairs}
                          /\ \A k \in DOMAIN out :
                               out[k] \in {ValueOf(p) : p \in {q \in Pairs : KeyOf(q) = k}}
    BY DEF QueryComesOut, WrittenQuery
  <2>1. input \in Seq(QueryTokens)
    BY DEF QueryInput
  <2>2. Pairs = PairsOf(input)
    BY DEF Pairs, PairsOf, Ends, TokenEnds
  <2> QED
    BY <2>1, <2>2, QueryArrives
<1> QED
  BY <1>1, QueryInputHolds, PTL

-------------------------------------------------------------------------------
(***************************************************************************)
(* The inductive invariant.  That the accept chain is one is a statement   *)
(* about a cardinality; what every step keeps is who is in the handshake.  *)
(***************************************************************************)
\* startAccept is held back by one client, which is in its handshake, and by
\* nobody while an accept is outstanding.
Holder ==
  /\ acceptor = "armed" => In("handshake") = {}
  /\ acceptor = "held" => \E c \in Clients : In("handshake") = {c}

IInv ==
  /\ client \in [Clients -> ClientState]
  /\ acceptor \in {"armed", "held"}
  /\ running \in BOOLEAN
  /\ errors \in 0..MaxErrors
  /\ IsFiniteSet(Open) /\ Cardinality(Open) <= MaxOpen
  /\ Holder

\* A client that leaves, or that goes from its handshake to its session, opens
\* no socket.
LEMMA FewerOpen ==
  ASSUME IsFiniteSet(Open), Cardinality(Open) <= MaxOpen, Open' \subseteq Open
  PROVE  IsFiniteSet(Open') /\ Cardinality(Open') <= MaxOpen
<1>1. /\ IsFiniteSet(Open') /\ Cardinality(Open') <= Cardinality(Open)
  BY FS_Subset
<1>2. Cardinality(Open) \in Nat /\ Cardinality(Open') \in Nat /\ MaxOpen \in Nat
  BY <1>1, FS_CardinalityType, ServerAssumption
<1> QED
  BY <1>1, <1>2

\* The initial state satisfies the invariant.
LEMMA InitInv == Init => IInv
<1> SUFFICES ASSUME Init PROVE IInv
  OBVIOUS
<1>1. In("handshake") = {} /\ In("session") = {} /\ Open = {}
  BY DEF Init, In, Open
<1>2. IsFiniteSet(Open) /\ Cardinality(Open) <= MaxOpen
  BY <1>1, FS_EmptySet, ServerAssumption
<1> QED
  BY <1>1, <1>2, ServerAssumption DEF Init, IInv, Holder, ClientState

\* The accept handler: one more socket, and with TLS one client in its
\* handshake.
LEMMA AcceptStep ==
  ASSUME IInv, NEW c \in Clients, OnAccept(c)
  PROVE  IInv'
<1> DEFINE to == IF Tls THEN "handshake" ELSE "session"
<1>1. /\ acceptor = "armed" /\ client' = [client EXCEPT ![c] = to]
      /\ acceptor' = (IF Tls THEN "held" ELSE "armed") /\ UNCHANGED <<running, errors>>
      /\ Cardinality(Open) < MaxOpen
  BY DEF OnAccept
<1>2. In("handshake") = {}
  BY <1>1 DEF IInv, Holder
<1>3. In("handshake")' = IF Tls THEN {c} ELSE {}
  BY <1>1, <1>2 DEF IInv, In
<1>4. Open' = Open \cup {c}
  BY <1>1 DEF IInv, Open, In
<1>5. IsFiniteSet(Open') /\ Cardinality(Open') <= MaxOpen
  <2>1. IsFiniteSet(Open) /\ Cardinality(Open) \in Nat /\ MaxOpen \in Nat
    BY FS_CardinalityType, ServerAssumption DEF IInv
  <2> QED
    BY <1>1, <1>4, <2>1, FS_AddElement
<1>6. client' \in [Clients -> ClientState]
  BY <1>1 DEF IInv, ClientState
<1> QED
  BY <1>1, <1>3, <1>5, <1>6, ServerAssumption DEF IInv, Holder

\* The handshake handler: its client is the one that held the acceptor.
LEMMA HandshakeStep ==
  ASSUME IInv, NEW c \in Clients, OnHandshake(c)
  PROVE  IInv'
<1>1. PICK next \in {"session", "gone"} : client' = [client EXCEPT ![c] = next]
  BY DEF OnHandshake
<1>2. c \in In("handshake") /\ acceptor' = "armed" /\ UNCHANGED <<running, errors>>
  BY DEF OnHandshake, In
<1>3. In("handshake") = {c}
  BY <1>2 DEF IInv, Holder
<1>4. In("handshake")' = {}
  BY <1>1, <1>3 DEF IInv, In
<1>5. Open' \subseteq Open
  BY <1>1, <1>2 DEF IInv, Open, In
<1>6. IsFiniteSet(Open') /\ Cardinality(Open') <= MaxOpen
  BY <1>5, FewerOpen DEF IInv
<1>7. client' \in [Clients -> ClientState]
  BY <1>1 DEF IInv, ClientState
<1> QED
  BY <1>2, <1>4, <1>6, <1>7 DEF IInv, Holder

\* A client that connects, gives up or leaves, and a handler that throws, are
\* not in the handshake and leave the acceptor alone.
LEMMA BystanderStep ==
  ASSUME IInv, NEW c \in Clients,
         Connect(c) \/ GiveUp(c) \/ OnSessionEnd(c) \/ HandlerThrows(c)
  PROVE  IInv'
<1>1. PICK to \in {"backlog", "gone"} : client' = [client EXCEPT ![c] = to]
  BY DEF Connect, GiveUp, OnSessionEnd, HandlerThrows
<1>2. c \notin In("handshake") /\ UNCHANGED <<acceptor, errors>> /\ running' \in BOOLEAN
  BY DEF IInv, Connect, GiveUp, OnSessionEnd, HandlerThrows, In
<1>3. In("handshake")' = In("handshake")
  BY <1>1, <1>2 DEF IInv, In
<1>4. Open' \subseteq Open
  BY <1>1 DEF IInv, Open, In
<1>5. IsFiniteSet(Open') /\ Cardinality(Open') <= MaxOpen
  BY <1>4, FewerOpen DEF IInv
<1>6. client' \in [Clients -> ClientState]
  BY <1>1 DEF IInv, ClientState
<1> QED
  BY <1>2, <1>3, <1>5, <1>6 DEF IInv, Holder

\* Every step preserves the invariant.
LEMMA NextInv == IInv /\ [Next]_vars => IInv'
<1> SUFFICES ASSUME IInv, [Next]_vars PROVE IInv'
  OBVIOUS
<1>1. CASE OnAcceptError
  BY <1>1, ServerAssumption DEF OnAcceptError, IInv, Holder, Open, In
<1>2. ASSUME NEW c \in Clients, Connect(c) \/ GiveUp(c) \/ Handler(c) \/ HandlerThrows(c)
      PROVE  IInv'
  BY <1>2, AcceptStep, HandshakeStep, BystanderStep DEF Handler
<1>3. CASE UNCHANGED vars
  BY <1>3 DEF vars, IInv, Holder, Open, In
<1> QED
  BY <1>1, <1>2, <1>3 DEF Next

(***************************************************************************)
(* Theorems.                                                               *)
(***************************************************************************)
\* The inductive invariant holds in every reachable state.
THEOREM Invariance == Spec => []IInv
  BY InitInv, NextInv, PTL DEF Spec

\* Type correctness: in particular the server never has more sockets open than
\* the process may have.
THEOREM TypeCorrect == Spec => []TypeOK
<1>1. IInv => TypeOK
  BY DEF IInv, TypeOK
<1> QED
  BY <1>1, Invariance, PTL

\* The chain of startAccept calls is neither broken nor doubled, whatever the
\* clients do, whichever of them stall and even after a handler has thrown.
THEOREM AcceptChainIsOne == Spec => []OneAcceptChain
<1>1. ASSUME IInv PROVE OneAcceptChain
  <2>1. CASE acceptor = "armed"
    BY <1>1, <2>1, FS_EmptySet DEF IInv, Holder, OneAcceptChain
  <2>2. CASE acceptor = "held"
    BY <1>1, <2>2, FS_Singleton DEF IInv, Holder, OneAcceptChain
  <2> QED
    BY <1>1, <2>1, <2>2 DEF IInv
<1> QED
  BY <1>1, Invariance, PTL
===============================================================================
