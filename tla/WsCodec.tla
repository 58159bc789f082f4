------------------------------- MODULE WsCodec --------------------------------
(***************************************************************************)
(* The frame codec of include/websocket.hpp: encode (the server's frames), *)
(* the client's encode_client_frame, and decode.                           *)
(*                                                                         *)
(* A byte is a number below Base, but for the first two of a frame, which  *)
(* are records of their fields.  The code has Base = 256, Short = 125,     *)
(* Mid = 2 and Long = 8; sizes are of type size_t, of Long bytes.  What a  *)
(* byte of a payload and of a key is for exclusive or, one of its bits is: *)
(* those are 0 or 1.                                                       *)
(***************************************************************************)
EXTENDS Integers, Sequences, SequencesExt

CONSTANTS Base,   \* how many values a byte has
          Short,  \* the longest payload whose length the second byte holds
          Mid,    \* how many bytes the first extended form of a length has
          Long    \* how many the second one has

\* The second byte has one bit for the mask; of the values of the others, two
\* announce an extended form.
ASSUME CodecAssumption ==
  /\ Short \in Nat /\ Base = 2 * (Short + 3)
  /\ Mid \in Nat \ {0} /\ Long \in Nat /\ Long > Mid

\* Base to the power of k: how many numbers k bytes hold.
Power(k) ==
  LET p[i \in 0..k] == IF i = 0 THEN 1 ELSE Base * p[i - 1]
  IN  p[k]

SizeT == Power(Long)

\* The bytes of the number n, the most significant one first.
Digits(n, k) == [i \in 1..k |-> (n \div Power(k - i)) % Base]

Number(digits) ==
  LET sum[i \in 0..Len(digits)] ==
        IF i = 0 THEN 0 ELSE (sum[i - 1] * Base + digits[i]) % SizeT
  IN  sum[Len(digits)]

\* A bug of the length bytes: one length too many gets the first extended form
\* (FramesComeOut).
LengthBytesOff(masked, n) ==
  LET Second(code) == <<[masked |-> masked, code |-> code]>>
  IN  IF n <= Short THEN Second(n)
      ELSE IF n <= Power(Mid) THEN Second(Short + 1) \o Digits(n, Mid)
      ELSE Second(Short + 2) \o Digits(n, Long)

\* The second byte and, with longer payloads, the bytes of the length.
LengthBytes(masked, n) ==
  LET Second(code) == <<[masked |-> masked, code |-> code]>>
  IN  IF n <= Short THEN Second(n)
      ELSE IF n < Power(Mid) THEN Second(Short + 1) \o Digits(n, Mid)
      ELSE Second(Short + 2) \o Digits(n, Long)

\* The payload with the key, repeated, put on it or taken off.
Mask(payload, key) ==
  [i \in 1..Len(payload) |-> (payload[i] + key[((i - 1) % Len(key)) + 1]) % 2]

FirstByte(f) == <<[fin |-> f.fin, opcode |-> f.opcode]>>

encode(f) == FirstByte(f) \o LengthBytes(FALSE, Len(f.payload)) \o f.payload

encode_client_frame(f, key) ==
  FirstByte(f) \o LengthBytes(TRUE, Len(f.payload)) \o key \o Mask(f.payload, key)

KeyLen == 4

NeedMore == [consumed |-> 0]

\* decode: the frame at the front of the buffer and how many bytes it takes, or 0.
decode(buf) ==
  IF Len(buf) < 2 THEN NeedMore ELSE
  LET code   == buf[2].code
      ext    == IF code = Short + 1 THEN Mid ELSE IF code = Short + 2 THEN Long ELSE 0
      offset == 2 + ext + (IF buf[2].masked THEN KeyLen ELSE 0)
      len    == IF ext = 0 THEN code ELSE Number(SubSeq(buf, 3, 2 + ext))
      total  == (offset + len) % SizeT
      key    == SubSeq(buf, offset - KeyLen + 1, offset)
      bytes  == SubSeq(buf, offset + 1, offset + len)
  IN  IF Len(buf) < 2 + ext \/ Len(buf) < offset \/ Len(buf) < total THEN NeedMore
      ELSE [consumed |-> total,
            frame    |-> [fin |-> buf[1].fin, opcode |-> buf[1].opcode,
                          payload |-> IF buf[2].masked THEN Mask(bytes, key) ELSE bytes]]
===============================================================================
