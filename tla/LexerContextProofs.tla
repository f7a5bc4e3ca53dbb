-------------------------- MODULE LexerContextProofs --------------------------
(***************************************************************************)
(* Proofs about src/src/parser/lexer_context.c: the lexer decodes exactly  *)
(* UTF-8, its check of the input decides well-formedness and its binary    *)
(* search decides whether a table contains a code point, for inputs and    *)
(* tables of any length and for any limit.                                 *)
(***************************************************************************)
EXTENDS InputCheck, RangeSearch, SequenceTheorems, TLAPS

(***************************************************************************)
(* The masks of the code, on the bytes they are applied to.                *)
(***************************************************************************)
LEMMA ContinuationBits ==
  ASSUME NEW byte \in Int, 0 <= byte, byte <= 255
  PROVE  /\ IsContinuation(byte) <=> 128 <= byte /\ byte <= 191
         /\ 128 <= byte /\ byte <= 191 => byte % 64 = byte - 128
  BY SMT DEF IsContinuation

LEMMA LeadBits ==
  ASSUME NEW byte \in Int, 0 <= byte, byte <= 255
  PROVE  /\ 192 <= byte /\ byte <= 223 => byte % 32 = byte - 192
         /\ 224 <= byte /\ byte <= 239 => byte % 16 = byte - 224
         /\ 240 <= byte /\ byte <= 247 => byte % 8 = byte - 240
  BY SMT

(***************************************************************************)
(* The ranges of the standard, as the decoder tests them: on lead bytes    *)
(* and second bytes instead of code points.                                *)
(***************************************************************************)
LEMMA TwoByteRange ==
  ASSUME NEW lead \in Int, 192 <= lead, lead <= 223,
         NEW second \in Int, 128 <= second, second <= 191,
         NEW value \in Int, value = (lead - 192) * 64 + (second - 128)
  PROVE  128 <= value /\ value < 2048 /\ ~ IsSurrogate(value) <=> 194 <= lead
  BY SMT DEF IsSurrogate

LEMMA ThreeByteRange ==
  ASSUME NEW lead \in Int, 224 <= lead, lead <= 239,
         NEW second \in Int, 128 <= second, second <= 191,
         NEW third \in Int, 128 <= third, third <= 191,
         NEW value \in Int,
         value = (lead - 224) * 4096 + (second - 128) * 64 + (third - 128)
  PROVE  2048 <= value /\ value < 65536 /\ ~ IsSurrogate(value) <=>
           ~ (lead = 224 /\ second < 160) /\ ~ (lead = 237 /\ second >= 160)
  BY SMT DEF IsSurrogate

LEMMA FourByteRange ==
  ASSUME NEW lead \in Int, 240 <= lead, lead <= 247,
         NEW second \in Int, 128 <= second, second <= 191,
         NEW third \in Int, 128 <= third, third <= 191,
         NEW fourth \in Int, 128 <= fourth, fourth <= 191,
         NEW value \in Int,
         value = (lead - 240) * 262144 + (second - 128) * 4096
                   + (third - 128) * 64 + (fourth - 128)
  PROVE  65536 <= value /\ value < 1114112 /\ ~ IsSurrogate(value) <=>
           lead <= 244 /\ ~ (lead = 240 /\ second < 144)
                       /\ ~ (lead = 244 /\ second >= 144)
  BY SMT DEF IsSurrogate

(***************************************************************************)
(* Masking a lead or continuation byte takes its mark away.                *)
(***************************************************************************)
LEMMA TwoByteValue ==
  ASSUME NEW lead \in Int, 192 <= lead, lead <= 223,
         NEW second \in Int, 128 <= second, second <= 191,
         NEW value \in Int,
         value = (lead - 192) * 64 + (second - 128)
  PROVE  value = (lead % 32) * 64 + (second % 64)
<1>1. lead % 32 = lead - 192
  BY SMT
<1>2. second % 64 = second - 128
  BY SMT
<1> QED
  BY <1>1, <1>2, SMT

LEMMA ThreeByteValue ==
  ASSUME NEW lead \in Int, 224 <= lead, lead <= 239,
         NEW second \in Int, 128 <= second, second <= 191,
         NEW third \in Int, 128 <= third, third <= 191,
         NEW value \in Int,
         value = (lead - 224) * 4096 + (second - 128) * 64 + (third - 128)
  PROVE  value = (lead % 16) * 4096 + (second % 64) * 64 + (third % 64)
<1>1. lead % 16 = lead - 224
  BY SMT
<1>2. second % 64 = second - 128
  BY SMT
<1>3. third % 64 = third - 128
  BY SMT
<1> QED
  BY <1>1, <1>2, <1>3, SMT

(***************************************************************************)
(* An encoding of each width is what the decoder takes for one.            *)
(***************************************************************************)
LEMMA ByteAt ==
  ASSUME NEW text \in Seq(Byte), NEW pos \in Nat, NEW i \in Nat \ {0},
         pos + i <= Len(text)
  PROVE  /\ text[pos + i] \in Int
         /\ 0 <= text[pos + i] /\ text[pos + i] <= 255
<1>1. pos + i \in 1 .. Len(text)
  BY SMT
<1>2. text[pos + i] \in Byte
  BY <1>1, SMT
<1>3. \A byte \in Byte : byte \in Int /\ 0 <= byte /\ byte <= 255
  BY SMT DEF Byte
<1> QED
  BY <1>2, <1>3, Zenon

LEMMA OneByteEncoded ==
  ASSUME NEW text \in Seq(Byte), NEW pos \in Nat, pos < Len(text),
         NEW lead \in Int, text[pos + 1] = lead
  PROVE  /\ IsEncoded(text, pos, 1) <=> lead < 128
         /\ Payload(text, pos, 1) = lead
<1>1. lead \in Int /\ 0 <= lead /\ lead <= 255
  BY ByteAt, SMT
<1>2. LeadMark[1] = 0 /\ Shortest[1] = 0 /\ Shortest[1 + 1] = 128
  BY SMT DEF LeadMark, LeadEnd, Shortest
<1>3. Payload(text, pos, 1) = lead
  BY <1>1, <1>2, SMT DEF Payload
<1>4. 2 .. 1 = {} /\ LeadEnd[1] = 128 /\ pos + 1 <= Len(text)
  BY SMT DEF LeadEnd
<1>5. IsEncoded(text, pos, 1) <=>
        0 <= lead /\ lead < 128 /\ ~ IsSurrogate(lead)
  BY <1>2, <1>3, <1>4, SMT DEF IsEncoded, IsLead
<1> QED
  BY <1>1, <1>3, <1>5, SMT DEF IsSurrogate

LEMMA TwoBytesEncoded ==
  ASSUME NEW text \in Seq(Byte), NEW pos \in Nat, pos + 2 <= Len(text),
         NEW lead \in Int, text[pos + 1] = lead,
         NEW second \in Int, text[pos + 2] = second
  PROVE  /\ IsEncoded(text, pos, 2) <=> IsTwoBytes(text, pos)
         /\ IsTwoBytes(text, pos) =>
              Payload(text, pos, 2) = (lead % 32) * 64 + (second % 64)
<1>1. /\ lead \in Int /\ 0 <= lead /\ lead <= 255
      /\ second \in Int /\ 0 <= second /\ second <= 255
  BY ByteAt, SMT
<1>2. /\ LeadMark[2] = 192 /\ LeadEnd[2] = 224
      /\ Shortest[2] = 128 /\ Shortest[2 + 1] = 2048
  BY SMT DEF LeadMark, LeadEnd, Shortest
<1>3. PICK value \in Int : value = (lead - 192) * 64 + (second - 128)
  BY <1>1, SMT
<1>4. Payload(text, pos, 2) = value
  BY <1>2, <1>3, SMT DEF Payload
<1>5. IsEncoded(text, pos, 2) <=>
        /\ 192 <= lead /\ lead <= 223 /\ 128 <= second /\ second <= 191
        /\ 128 <= value /\ value < 2048 /\ ~ IsSurrogate(value)
  <2>1. 2 .. 2 = {2}
    BY SMT
  <2> QED
    BY <1>1, <1>2, <1>4, <2>1, SMT DEF IsEncoded, IsLead, IsTrail
<1>6. IsTwoBytes(text, pos) <=>
        194 <= lead /\ lead <= 223 /\ 128 <= second /\ second <= 191
  BY <1>1, ContinuationBits, SMT DEF IsTwoBytes
<1>7. IsEncoded(text, pos, 2) <=> IsTwoBytes(text, pos)
  BY <1>1, <1>3, <1>5, <1>6, SMT DEF IsSurrogate
<1>8. IsTwoBytes(text, pos) =>
        value = (lead % 32) * 64 + (second % 64)
  BY <1>1, <1>3, <1>6, TwoByteValue, SMT
<1> QED
  BY <1>4, <1>7, <1>8, SMT

LEMMA ThreeBytesEncoded ==
  ASSUME NEW text \in Seq(Byte), NEW pos \in Nat, pos + 3 <= Len(text),
         NEW lead \in Int, text[pos + 1] = lead,
         NEW second \in Int, text[pos + 2] = second,
         NEW third \in Int, text[pos + 3] = third
  PROVE  /\ IsEncoded(text, pos, 3) <=> IsThreeBytes(text, pos)
         /\ IsThreeBytes(text, pos) =>
              Payload(text, pos, 3) =
                (lead % 16) * 4096 + (second % 64) * 64 + (third % 64)
<1>1. /\ lead \in Int /\ 0 <= lead /\ lead <= 255
      /\ second \in Int /\ 0 <= second /\ second <= 255
      /\ third \in Int /\ 0 <= third /\ third <= 255
  BY ByteAt, SMT
<1>2. /\ LeadMark[3] = 224 /\ LeadEnd[3] = 240
      /\ Shortest[3] = 2048 /\ Shortest[3 + 1] = 65536
  BY SMT DEF LeadMark, LeadEnd, Shortest
<1>3. PICK value \in Int :
        value = (lead - 224) * 4096 + (second - 128) * 64 + (third - 128)
  BY <1>1, SMT
<1>4. Payload(text, pos, 3) = value
  BY <1>2, <1>3, SMT DEF Payload
<1>5. IsEncoded(text, pos, 3) <=>
        /\ 224 <= lead /\ lead <= 239 /\ 128 <= second /\ second <= 191
        /\ 128 <= third /\ third <= 191
        /\ 2048 <= value /\ value < 65536 /\ ~ IsSurrogate(value)
  <2>1. 2 .. 3 = {2, 3}
    BY SMT
  <2> QED
    BY <1>1, <1>2, <1>4, <2>1, SMT DEF IsEncoded, IsLead, IsTrail
<1>6. IsThreeBytes(text, pos) <=>
        /\ 224 <= lead /\ lead <= 239 /\ 128 <= second /\ second <= 191
        /\ 128 <= third /\ third <= 191
        /\ ~ (lead = 224 /\ second < 160) /\ ~ (lead = 237 /\ second >= 160)
  <2>1. 2 .. 3 = {2, 3}
    BY SMT
  <2> QED
    BY <1>1, <2>1, ContinuationBits, SMT DEF IsThreeBytes
<1>7. IsEncoded(text, pos, 3) <=> IsThreeBytes(text, pos)
  BY <1>1, <1>3, <1>5, <1>6, SMT DEF IsSurrogate
<1>8. IsThreeBytes(text, pos) =>
        value = (lead % 16) * 4096 + (second % 64) * 64 + (third % 64)
  BY <1>1, <1>3, <1>6, ThreeByteValue, SMT
<1> QED
  BY <1>4, <1>7, <1>8, SMT

LEMMA FourBytesEncoded ==
  ASSUME NEW text \in Seq(Byte), NEW pos \in Nat, pos + 4 <= Len(text),
         NEW lead \in Int, text[pos + 1] = lead,
         NEW second \in Int, text[pos + 2] = second,
         NEW third \in Int, text[pos + 3] = third,
         NEW fourth \in Int, text[pos + 4] = fourth
  PROVE  IsEncoded(text, pos, 4) <=> IsFourBytes(text, pos)
<1>1. /\ lead \in Int /\ 0 <= lead /\ lead <= 255
      /\ second \in Int /\ 0 <= second /\ second <= 255
      /\ third \in Int /\ 0 <= third /\ third <= 255
      /\ fourth \in Int /\ 0 <= fourth /\ fourth <= 255
  <2>1. lead \in Int /\ 0 <= lead /\ lead <= 255
    <3>1. pos + 1 <= Len(text) /\ 1 \in Nat \ {0}
      BY SMT
    <3> QED
      BY <3>1, ByteAt, Zenon
  <2>2. second \in Int /\ 0 <= second /\ second <= 255
    <3>1. pos + 2 <= Len(text) /\ 2 \in Nat \ {0}
      BY SMT
    <3> QED
      BY <3>1, ByteAt, Zenon
  <2>3. third \in Int /\ 0 <= third /\ third <= 255
    BY ByteAt, SMT
  <2>4. fourth \in Int /\ 0 <= fourth /\ fourth <= 255
    BY ByteAt, SMT
  <2> QED
    BY <2>1, <2>2, <2>3, <2>4
<1>2. /\ LeadMark[4] = 240 /\ LeadEnd[4] = 248
      /\ Shortest[4] = 65536 /\ Shortest[4 + 1] = 1114112
  BY SMT DEF LeadMark, LeadEnd, Shortest
<1>3. PICK value \in Int :
        value = (lead - 240) * 262144 + (second - 128) * 4096
                  + (third - 128) * 64 + (fourth - 128)
  BY <1>1, SMT
<1>4. Payload(text, pos, 4) = value
  BY <1>2, <1>3, SMT DEF Payload
<1>5. IsEncoded(text, pos, 4) <=>
        /\ 240 <= lead /\ lead <= 247 /\ 128 <= second /\ second <= 191
        /\ 128 <= third /\ third <= 191 /\ 128 <= fourth /\ fourth <= 191
        /\ 65536 <= value /\ value < 1114112 /\ ~ IsSurrogate(value)
  <2>1. (\A i \in 2 .. 4 : IsTrail(text[pos + i])) <=>
          IsTrail(second) /\ IsTrail(third) /\ IsTrail(fourth)
    <3>1. 2 .. 4 = {2, 3, 4}
      BY SMT
    <3> QED
      BY <3>1, SMT
  <2>2. IsEncoded(text, pos, 4) <=>
          /\ IsLead(lead, 4)
          /\ IsTrail(second) /\ IsTrail(third) /\ IsTrail(fourth)
          /\ 65536 <= value /\ value < 1114112 /\ ~ IsSurrogate(value)
    BY <1>2, <1>4, <2>1, SMT DEF IsEncoded
  <2> QED
    BY <1>1, <1>2, <2>2, SMT DEF IsLead, IsTrail
<1>6. IsFourBytes(text, pos) <=>
        /\ 240 <= lead /\ lead <= 244 /\ 128 <= second /\ second <= 191
        /\ 128 <= third /\ third <= 191 /\ 128 <= fourth /\ fourth <= 191
        /\ ~ (lead = 240 /\ second < 144) /\ ~ (lead = 244 /\ second >= 144)
  <2>1. 2 .. 4 = {2, 3, 4}
    BY SMT
  <2> QED
    BY <1>1, <2>1, ContinuationBits, SMT DEF IsFourBytes
<1> QED
  BY <1>1, <1>3, <1>5, <1>6, SMT DEF IsSurrogate

LEMMA EncodedWidths ==
  ASSUME NEW text \in Seq(Byte), NEW pos \in Nat, pos < Len(text)
  PROVE  /\ IsEncoded(text, pos, 1) <=> text[pos + 1] < 128
         /\ IsEncoded(text, pos, 2) <=> IsTwoBytes(text, pos)
         /\ IsEncoded(text, pos, 3) <=> IsThreeBytes(text, pos)
         /\ IsEncoded(text, pos, 4) <=> IsFourBytes(text, pos)
<1>1. IsEncoded(text, pos, 1) <=> text[pos + 1] < 128
  <2>1. 1 \in Nat \ {0} /\ pos + 1 <= Len(text)
    BY SMT
  <2>2. text[pos + 1] \in Int
    BY <2>1, ByteAt, Zenon
  <2> QED
    BY <2>2, OneByteEncoded, Zenon
<1>2. IsEncoded(text, pos, 2) <=> IsTwoBytes(text, pos)
  <2>1. CASE pos + 2 <= Len(text)
    <3>1. 1 \in Nat \ {0} /\ 2 \in Nat \ {0} /\ pos + 1 <= Len(text)
      BY SMT
    <3>2. text[pos + 1] \in Int /\ text[pos + 2] \in Int
      BY <2>1, <3>1, ByteAt, Zenon
    <3> QED
      BY <2>1, <3>2, TwoBytesEncoded, SMT
  <2>2. CASE ~ (pos + 2 <= Len(text))
    BY <2>2, SMT DEF IsEncoded, IsTwoBytes
  <2> QED
    BY <2>1, <2>2
<1>3. IsEncoded(text, pos, 3) <=> IsThreeBytes(text, pos)
  <2>1. CASE pos + 3 <= Len(text)
    <3>1. /\ 1 \in Nat \ {0} /\ 2 \in Nat \ {0} /\ 3 \in Nat \ {0}
          /\ pos + 1 <= Len(text) /\ pos + 2 <= Len(text)
      BY <2>1, SMT
    <3>2. /\ text[pos + 1] \in Int /\ text[pos + 2] \in Int
          /\ text[pos + 3] \in Int
      BY <2>1, <3>1, ByteAt, Zenon
    <3> QED
      BY <2>1, <3>2, ThreeBytesEncoded, SMT
  <2>2. CASE ~ (pos + 3 <= Len(text))
    BY <2>2, SMT DEF IsEncoded, IsThreeBytes
  <2> QED
    BY <2>1, <2>2
<1>4. IsEncoded(text, pos, 4) <=> IsFourBytes(text, pos)
  <2>1. CASE pos + 4 <= Len(text)
    <3>1. /\ 1 \in Nat \ {0} /\ 2 \in Nat \ {0} /\ 3 \in Nat \ {0}
          /\ 4 \in Nat \ {0} /\ pos + 1 <= Len(text)
          /\ pos + 2 <= Len(text) /\ pos + 3 <= Len(text)
      BY <2>1, SMT
    <3>2. /\ text[pos + 1] \in Int /\ text[pos + 2] \in Int
          /\ text[pos + 3] \in Int /\ text[pos + 4] \in Int
      BY <2>1, <3>1, ByteAt, Zenon
    <3> QED
      BY <2>1, <3>2, FourBytesEncoded, SMT
  <2>2. CASE ~ (pos + 4 <= Len(text))
    BY <2>2, SMT DEF IsEncoded, IsFourBytes
  <2> QED
    BY <2>1, <2>2
<1> QED
  BY <1>1, <1>2, <1>3, <1>4

(***************************************************************************)
(* The value the decoder returns is the payload.                           *)
(***************************************************************************)
LEMMA TwoBytesDecoded ==
  ASSUME NEW text \in Seq(Byte), NEW pos \in Nat, pos + 2 <= Len(text),
         NEW lead \in Int, text[pos + 1] = lead,
         NEW second \in Int, text[pos + 2] = second,
         ~ (lead < 128), IsTwoBytes(text, pos)
  PROVE  Utf8Decode(text, pos) = Decoded(Payload(text, pos, 2), 2)
<1>1. Payload(text, pos, 2) =
        (lead % 32) * 64 + (second % 64)
  BY TwoBytesEncoded, SMT
<1>2. ~ (pos >= Len(text))
  BY SMT
<1>3. Utf8Decode(text, pos) =
        Decoded((lead % 32) * 64 + (second % 64), 2)
  BY <1>2, SMT DEF Utf8Decode
<1> QED
  BY <1>1, <1>3, SMT

LEMMA ThreeBytesDecoded ==
  ASSUME NEW text \in Seq(Byte), NEW pos \in Nat, pos + 3 <= Len(text),
         NEW lead \in Int, text[pos + 1] = lead,
         NEW second \in Int, text[pos + 2] = second,
         NEW third \in Int, text[pos + 3] = third,
         ~ (lead < 128), IsThreeBytes(text, pos),
         ~ IsTwoBytes(text, pos)
  PROVE  Utf8Decode(text, pos) = Decoded(Payload(text, pos, 3), 3)
<1>1. Payload(text, pos, 3) =
        (lead % 16) * 4096 + (second % 64) * 64 + (third % 64)
  BY ThreeBytesEncoded, SMTT(30)
<1>2. ~ (pos >= Len(text))
  BY SMT
<1>3. Utf8Decode(text, pos) =
        Decoded((lead % 16) * 4096 + (second % 64) * 64 + (third % 64), 3)
  BY <1>2, SMT DEF Utf8Decode
<1> QED
  BY <1>1, <1>3, SMT

LEMMA FourBytesDecoded ==
  ASSUME NEW text \in Seq(Byte), NEW pos \in Nat, pos + 4 <= Len(text),
         NEW lead \in Int, text[pos + 1] = lead,
         NEW second \in Int, text[pos + 2] = second,
         NEW third \in Int, text[pos + 3] = third,
         NEW fourth \in Int, text[pos + 4] = fourth,
         ~ (lead < 128), IsFourBytes(text, pos),
         ~ IsTwoBytes(text, pos), ~ IsThreeBytes(text, pos)
  PROVE  Utf8Decode(text, pos) = Decoded(Payload(text, pos, 4), 4)
<1>1. /\ 240 <= lead /\ lead <= 244 /\ IsContinuation(second)
      /\ IsContinuation(third) /\ IsContinuation(fourth)
  <2>1. 2 .. 4 = {2, 3, 4}
    BY SMT
  <2> QED
    BY <2>1, SMT DEF IsFourBytes
<1>2. /\ 0 <= lead /\ lead <= 255 /\ 0 <= second /\ second <= 255
      /\ 0 <= third /\ third <= 255 /\ 0 <= fourth /\ fourth <= 255
  BY <1>1, SMT DEF IsContinuation
<1>3. /\ lead % 8 = lead - 240 /\ second % 64 = second - 128
      /\ third % 64 = third - 128 /\ fourth % 64 = fourth - 128
  BY <1>1, <1>2, ContinuationBits, LeadBits, SMT
<1>4. PICK value \in Int :
        value = (lead - 240) * 262144 + (second - 128) * 4096
                  + (third - 128) * 64 + (fourth - 128)
  BY SMT
<1>5. Payload(text, pos, 4) = value
  <2>1. LeadMark[4] = 240
    BY SMT DEF LeadMark
  <2> QED
    BY <1>4, <2>1, SMT DEF Payload
<1>6. value = (lead % 8) * 262144 + (second % 64) * 4096 + (third % 64) * 64
                + (fourth % 64)
  BY <1>3, <1>4, SMT
<1>7. ~ (pos >= Len(text))
  BY SMT
<1>8. Utf8Decode(text, pos) =
        Decoded((lead % 8) * 262144 + (second % 64) * 4096 + (third % 64) * 64
                  + (fourth % 64), 4)
  BY <1>7, SMT DEF Utf8Decode
<1>9. Utf8Decode(text, pos) = Decoded(value, 4)
  BY <1>6, <1>8, SMT
<1> QED
  BY <1>5, <1>9

(***************************************************************************)
(* yumemi_utf8_decode succeeds exactly where an encoding starts, and       *)
(* returns its width: no text can be read in two ways.                     *)
(***************************************************************************)
THEOREM DecoderExact ==
  ASSUME NEW text \in Seq(Byte), NEW pos \in Nat, pos < Len(text),
         NEW decoded, decoded = Utf8Decode(text, pos)
  PROVE  /\ decoded.ok \in BOOLEAN
         /\ decoded.ok =>
              /\ decoded.width \in Width
              /\ IsEncoded(text, pos, decoded.width)
              /\ decoded.code_point = Payload(text, pos, decoded.width)
         /\ \A width \in Width :
              IsEncoded(text, pos, width) => decoded.ok /\ decoded.width = width
<1> DEFINE first == text[pos + 1]
<1>1. /\ 1 \in Nat \ {0} /\ pos + 1 <= Len(text)
      /\ Width = {1, 2, 3, 4} /\ ~ (pos >= Len(text))
  BY SMT DEF Width
<1>2. first \in Int
  BY <1>1, ByteAt, Zenon
<1>3. /\ IsTwoBytes(text, pos) => 194 <= first /\ first <= 223
      /\ IsThreeBytes(text, pos) => 224 <= first /\ first <= 239
      /\ IsFourBytes(text, pos) => 240 <= first /\ first <= 244
  BY <1>2, SMT DEF IsTwoBytes, IsThreeBytes, IsFourBytes
<1>w. /\ IsEncoded(text, pos, 1) <=> first < 128
      /\ IsEncoded(text, pos, 2) <=> IsTwoBytes(text, pos)
      /\ IsEncoded(text, pos, 3) <=> IsThreeBytes(text, pos)
      /\ IsEncoded(text, pos, 4) <=> IsFourBytes(text, pos)
  BY EncodedWidths, Zenon
<1>4. CASE first < 128
  <2>1. /\ decoded.ok = TRUE /\ decoded.width = 1
        /\ decoded.code_point = Payload(text, pos, 1)
    <3>1. Payload(text, pos, 1) = first
      BY <1>2, OneByteEncoded, Zenon
    <3>2. decoded = Decoded(first, 1)
      BY <1>1, <1>4, SMT DEF Utf8Decode
    <3> QED
      BY <3>1, <3>2, SMT DEF Decoded
  <2>2. /\ ~ IsTwoBytes(text, pos) /\ ~ IsThreeBytes(text, pos)
        /\ ~ IsFourBytes(text, pos)
    BY <1>2, <1>3, <1>4, SMT
  <2>4. /\ IsEncoded(text, pos, 1)
        /\ \A width \in Width : IsEncoded(text, pos, width) => width = 1
    BY <1>1, <1>4, <2>2, <1>w, Zenon
  <2> QED
    BY <1>1, <2>1, <2>4, Zenon
<1>5. CASE IsTwoBytes(text, pos)
  <2>1. ~ (first < 128)
    BY <1>2, <1>3, <1>5, SMT
  <2>2. /\ decoded.ok = TRUE /\ decoded.width = 2
        /\ decoded.code_point = Payload(text, pos, 2)
    <3>1. pos + 2 <= Len(text)
      BY <1>5, SMT DEF IsTwoBytes
    <3>2. \A i \in 2 .. 2 : i \in Nat \ {0} /\ pos + i <= Len(text)
      BY <3>1, SMT
    <3>3. 2 \in 2 .. 2
      BY SMT
    <3>4. text[pos + 2] \in Int
      BY <3>2, <3>3, ByteAt, Zenon
    <3>5. decoded = Decoded(Payload(text, pos, 2), 2)
      BY <1>2, <1>5, <2>1, <3>1, <3>4, TwoBytesDecoded, SMT
    <3> QED
      BY <3>5, SMT DEF Decoded
  <2>3. ~ IsThreeBytes(text, pos) /\ ~ IsFourBytes(text, pos)
    BY <1>2, <1>3, <1>5, SMT
  <2>4. /\ IsEncoded(text, pos, 2)
        /\ \A width \in Width : IsEncoded(text, pos, width) => width = 2
    BY <1>1, <1>5, <2>1, <2>3, <1>w, Zenon
  <2> QED
    BY <1>1, <2>2, <2>4, Zenon
<1>6. CASE IsThreeBytes(text, pos)
  <2>1. ~ (first < 128) /\ ~ IsTwoBytes(text, pos)
    BY <1>2, <1>3, <1>6, SMT
  <2>2. /\ decoded.ok = TRUE /\ decoded.width = 3
        /\ decoded.code_point = Payload(text, pos, 3)
    <3>1. pos + 3 <= Len(text)
      BY <1>6, SMT DEF IsThreeBytes
    <3>2. \A i \in 2 .. 3 : i \in Nat \ {0} /\ pos + i <= Len(text)
      BY <3>1, SMT
    <3>3. 2 \in 2 .. 3 /\ 3 \in 2 .. 3
      BY SMT
    <3>4. text[pos + 2] \in Int /\ text[pos + 3] \in Int
      BY <3>2, <3>3, ByteAt, Zenon
    <3>5. decoded = Decoded(Payload(text, pos, 3), 3)
      BY <1>2, <1>6, <2>1, <3>1, <3>4, ThreeBytesDecoded, SMT
    <3> QED
      BY <3>5, SMT DEF Decoded
  <2>3. ~ IsFourBytes(text, pos)
    BY <1>2, <1>3, <1>6, SMT
  <2>4. /\ IsEncoded(text, pos, 3)
        /\ \A width \in Width : IsEncoded(text, pos, width) => width = 3
    BY <1>1, <1>6, <2>1, <2>3, <1>w, Zenon
  <2> QED
    BY <1>1, <2>2, <2>4, Zenon
<1>7. CASE IsFourBytes(text, pos)
  <2>1. /\ ~ (first < 128) /\ ~ IsTwoBytes(text, pos)
        /\ ~ IsThreeBytes(text, pos)
    BY <1>2, <1>3, <1>7, SMT
  <2>2. /\ decoded.ok = TRUE /\ decoded.width = 4
        /\ decoded.code_point = Payload(text, pos, 4)
    <3>1. pos + 4 <= Len(text)
      BY <1>7, SMT DEF IsFourBytes
    <3>2. \A i \in 2 .. 4 : i \in Nat \ {0} /\ pos + i <= Len(text)
      BY <3>1, SMT
    <3>3. 2 \in 2 .. 4 /\ 3 \in 2 .. 4 /\ 4 \in 2 .. 4
      BY SMT
    <3>4. text[pos + 2] \in Int /\ text[pos + 3] \in Int /\ text[pos + 4] \in Int
      BY <3>2, <3>3, ByteAt, Zenon
    <3>5. decoded = Decoded(Payload(text, pos, 4), 4)
      BY <1>2, <1>7, <2>1, <3>1, <3>4, FourBytesDecoded, SMT
    <3> QED
      BY <3>5, SMT DEF Decoded
  <2>4. /\ IsEncoded(text, pos, 4)
        /\ \A width \in Width : IsEncoded(text, pos, width) => width = 4
    BY <1>1, <1>7, <2>1, <1>w, Zenon
  <2> QED
    BY <1>1, <2>2, <2>4, Zenon
<1>8. CASE ~ (first < 128) /\ ~ IsTwoBytes(text, pos)
            /\ ~ IsThreeBytes(text, pos) /\ ~ IsFourBytes(text, pos)
  <2>1. decoded.ok = FALSE
    BY <1>1, <1>8, SMT DEF Utf8Decode
  <2> QED
    BY <1>1, <1>8, <2>1, <1>w, Zenon
<1> QED
  BY <1>4, <1>5, <1>6, <1>7, <1>8, Zenon

(***************************************************************************)
(* The loop.  What it has read is cut into encodings, and every way to cut *)
(* the whole input into encodings cuts it where the loop stands: the width *)
(* of an encoding is determined by where it starts.                        *)
(***************************************************************************)
ReadSoFar ==
  \E cuts \in SUBSET (0 .. offset) : CutsUpTo(cuts, input, offset)

StandsAtCut ==
  \A cuts \in SUBSET (0 .. Len(input)) :
    CutsUpTo(cuts, input, Len(input)) => offset \in cuts

NothingHere == \A width \in Width : ~ IsEncoded(input, offset, width)

CheckInvariant ==
  /\ CheckTypeOK
  /\ ReadSoFar
  /\ StandsAtCut
  /\ phase = "entered" => offset = 0 /\ ~ invalid_utf8 /\ ~ oversize
  /\ phase = "decoding" =>
       ~ invalid_utf8 /\ ~ oversize /\ Len(input) <= InputBytesLimit
  /\ phase = "returned" =>
       /\ oversize <=> Len(input) > InputBytesLimit
       /\ oversize => ~ invalid_utf8
       /\ invalid_utf8 => offset < Len(input) /\ NothingHere
       /\ ~ oversize /\ ~ invalid_utf8 => offset = Len(input)

LEMMA CheckInitial == CheckInit => CheckInvariant
<1> SUFFICES ASSUME CheckInit PROVE CheckInvariant
  OBVIOUS
<1>1. input \in Seq(Byte) /\ offset = 0
  BY InputCheckAssumption DEF CheckInit
<1>2. CheckTypeOK
  <2>1. Len(input) \in Nat
    BY <1>1, SMT
  <2>2. 0 \in 0 .. Len(input)
    BY <2>1, SMT
  <2> QED
    BY <1>1, <2>2 DEF CheckInit, CheckTypeOK
<1>3. ReadSoFar
  <2>1. {0} \in SUBSET (0 .. 0) /\ CutsUpTo({0}, input, 0)
    BY SMT DEF CutsUpTo
  <2> QED
    BY <1>1, <2>1 DEF ReadSoFar
<1>4. StandsAtCut
  BY <1>1 DEF StandsAtCut, CutsUpTo
<1> QED
  BY <1>1, <1>2, <1>3, <1>4, SMT DEF CheckInit, CheckInvariant

LEMMA DecodeNextKeeps ==
  ASSUME CheckInvariant, DecodeNext
  PROVE  CheckInvariant'
<1> DEFINE width == Utf8Decode(input, offset).width
<1>1. /\ input \in Seq(Byte) /\ offset \in Nat /\ offset < Len(input)
      /\ Len(input) \in Nat /\ phase = "decoding"
  BY SMT DEF CheckInvariant, CheckTypeOK, DecodeNext
<1>2. /\ width \in Width /\ IsEncoded(input, offset, width)
      /\ \A w \in Width : IsEncoded(input, offset, w) => w = width
  BY <1>1, DecoderExact, Zenon DEF DecodeNext
<1>3. offset + width <= Len(input) /\ width \in Nat /\ width > 0
  BY <1>2, SMT DEF IsEncoded, Width
<1>4. offset' = offset + width /\ input' = input
  BY DEF DecodeNext
<1> HIDE DEF width
<1>5. CheckTypeOK'
  BY <1>1, <1>3, <1>4, SMT DEF CheckInvariant, CheckTypeOK, DecodeNext
<1>6. ReadSoFar'
  <2>1. PICK cuts \in SUBSET (0 .. offset) : CutsUpTo(cuts, input, offset)
    BY DEF CheckInvariant, ReadSoFar
  <2> DEFINE more == cuts \cup {offset + width}
  <2>2. more \in SUBSET (0 .. offset + width)
    BY <1>1, <1>3, <2>1, SMT
  <2>3. {0, offset + width} \subseteq more
    BY <2>1 DEF CutsUpTo
  <2>4. ASSUME NEW cut \in more, cut # offset + width
        PROVE  \E w \in Width : IsEncoded(input, cut, w) /\ cut + w \in more
    <3>1. CASE cut = offset
      BY <1>2, <3>1
    <3>2. CASE cut # offset
      BY <2>1, <2>4, <3>2 DEF CutsUpTo
    <3> QED
      BY <3>1, <3>2
  <2>5. CutsUpTo(more, input, offset + width)
    BY <2>3, <2>4 DEF CutsUpTo
  <2> QED
    BY <1>4, <2>2, <2>5 DEF ReadSoFar
<1>7. StandsAtCut'
  <2> SUFFICES ASSUME NEW cuts \in SUBSET (0 .. Len(input)),
                      CutsUpTo(cuts, input, Len(input))
               PROVE  offset + width \in cuts
    BY <1>4 DEF StandsAtCut
  <2>1. offset \in cuts
    BY DEF CheckInvariant, StandsAtCut
  <2>2. offset # Len(input)
    BY <1>1, SMT
  <2>3. PICK w \in Width : IsEncoded(input, offset, w) /\ offset + w \in cuts
    BY <2>1, <2>2 DEF CutsUpTo
  <2> QED
    BY <1>2, <2>3
<1> QED
  BY <1>1, <1>4, <1>5, <1>6, <1>7 DEF CheckInvariant, DecodeNext

LEMMA CheckStepKeeps ==
  ASSUME CheckInvariant, [CheckStep \/ Checked]_checkVars
  PROVE  CheckInvariant'
<1>t. InputBytesLimit \in Nat /\ Len(input) \in Nat
  BY InputCheckAssumption, SMT DEF CheckInvariant, CheckTypeOK
<1>1. CASE RefuseOversize
  BY <1>1, <1>t, SMT DEF RefuseOversize, CheckInvariant, CheckTypeOK, ReadSoFar,
     StandsAtCut, NothingHere
<1>2. CASE EnterLoop
  BY <1>2, <1>t, SMT DEF EnterLoop, CheckInvariant, CheckTypeOK, ReadSoFar,
     StandsAtCut, NothingHere
<1>3. CASE DecodeNext
  BY <1>3, DecodeNextKeeps
<1>4. CASE FindInvalid
  <2>1. /\ input \in Seq(Byte) /\ offset \in Nat /\ offset < Len(input)
        /\ Len(input) <= InputBytesLimit /\ ~ oversize
    BY <1>4, SMT DEF FindInvalid, CheckInvariant, CheckTypeOK
  <2>2. NothingHere
    BY <1>4, <2>1, DecoderExact, Zenon DEF FindInvalid, NothingHere
  <2>3. ~ (Len(input) > InputBytesLimit)
    BY <1>t, <2>1, SMT
  <2> QED
    BY <1>4, <2>1, <2>2, <2>3 DEF FindInvalid, CheckInvariant, CheckTypeOK,
       ReadSoFar, StandsAtCut, NothingHere
<1>5. CASE LeaveLoop
  <2>1. offset = Len(input) /\ ~ (Len(input) > InputBytesLimit)
    BY <1>5, <1>t, SMT DEF LeaveLoop, CheckInvariant, CheckTypeOK
  <2> QED
    BY <1>5, <2>1 DEF LeaveLoop, CheckInvariant, CheckTypeOK,
       ReadSoFar, StandsAtCut, NothingHere
<1>6. CASE UNCHANGED checkVars
  BY <1>6 DEF checkVars, CheckInvariant, CheckTypeOK, ReadSoFar, StandsAtCut,
     NothingHere
<1> QED
  BY <1>1, <1>2, <1>3, <1>4, <1>5, <1>6 DEF CheckStep, Checked

LEMMA CheckInvariantHolds == CheckSpec => []CheckInvariant
  BY CheckInitial, CheckStepKeeps, PTL DEF CheckSpec

(***************************************************************************)
(* The check of the input decides UTF-8, for inputs of any length.         *)
(***************************************************************************)
THEOREM InputCheckDecides == CheckSpec => []DecidesUtf8
<1>1. ASSUME CheckInvariant PROVE DecidesUtf8
  <2> SUFFICES ASSUME phase = "returned", ~ oversize
               PROVE  invalid_utf8 <=> ~ WellFormed(input)
    BY <1>1 DEF DecidesUtf8, CheckInvariant
  <2>1. ASSUME invalid_utf8, NEW cuts \in SUBSET (0 .. Len(input)),
               CutsUpTo(cuts, input, Len(input))
        PROVE  FALSE
    <3>1. offset \in cuts /\ offset < Len(input) /\ NothingHere
      BY <1>1, <2>1 DEF CheckInvariant, StandsAtCut
    <3>2. offset # Len(input)
      BY <1>1, <3>1, SMT DEF CheckInvariant, CheckTypeOK
    <3> QED
      BY <2>1, <3>1, <3>2 DEF CutsUpTo, NothingHere
  <2>2. ASSUME ~ invalid_utf8 PROVE WellFormed(input)
    BY <1>1, <2>2 DEF CheckInvariant, ReadSoFar, WellFormed
  <2> QED
    BY <1>1, <2>1, <2>2 DEF WellFormed, CheckInvariant, CheckTypeOK
<1> QED
  BY <1>1, CheckInvariantHolds, PTL

(***************************************************************************)
(* What lies behind the loop is UTF-8 on its own.                          *)
(***************************************************************************)
THEOREM DecodedAlwaysWellFormed == CheckSpec => []DecodedIsWellFormed
<1>1. ASSUME CheckInvariant PROVE DecodedIsWellFormed
  <2> DEFINE read == SubSeq(input, 1, offset)
  <2>1. input \in Seq(Byte) /\ offset \in 0 .. Len(input) /\ Len(input) \in Nat
    BY <1>1, SMT DEF CheckInvariant, CheckTypeOK
  <2>2. Len(read) = offset /\ \A i \in 1 .. offset : read[i] = input[i]
    BY <2>1, SMT
  <2>3. PICK cuts \in SUBSET (0 .. offset) : CutsUpTo(cuts, input, offset)
    BY <1>1 DEF CheckInvariant, ReadSoFar
  <2> HIDE DEF read
  <2>4. ASSUME NEW cut \in cuts, NEW width \in Width, cut + width \in cuts,
               IsEncoded(input, cut, width)
        PROVE  IsEncoded(read, cut, width)
    <3>1. /\ cut \in Nat /\ width \in 1 .. 4 /\ cut + width <= offset
          /\ offset \in Nat
      BY <2>1, <2>3, <2>4, SMT DEF Width
    <3>2. \A i \in 1 .. width : read[cut + i] = input[cut + i]
      BY <2>2, <3>1, SMT
    <3>3. Payload(read, cut, width) = Payload(input, cut, width)
      BY <3>1, <3>2, SMT DEF Payload
    <3> QED
      <4>1. cut + width <= Len(read)
        BY <2>2, <3>1, SMT
      <4>2. 1 \in 1 .. width /\ \A i \in 2 .. width : i \in 1 .. width
        BY <3>1, SMT
      <4>3. /\ read[cut + 1] = input[cut + 1]
            /\ \A i \in 2 .. width : read[cut + i] = input[cut + i]
        BY <3>2, <4>2, Zenon
      <4> QED
        BY <2>4, <3>3, <4>1, <4>3, Zenon DEF IsEncoded
  <2>5. CutsUpTo(cuts, read, offset)
    BY <2>3, <2>4 DEF CutsUpTo
  <2> QED
    BY <2>2, <2>5 DEF DecodedIsWellFormed, WellFormed, read
<1> QED
  BY <1>1, CheckInvariantHolds, PTL

-------------------------------------------------------------------------------
(***************************************************************************)
(* The binary search.                                                      *)
(***************************************************************************)
(***************************************************************************)
(* The window is enough: ranges before it lie below the code point, ranges *)
(* after it above.                                                         *)
(***************************************************************************)
Below == \A i \in 1 .. lower : Tables[table][i][2] < code_point
Above == \A i \in upper + 1 .. range_count : code_point < Tables[table][i][1]

SearchInvariant ==
  /\ SearchTypeOK
  /\ Below
  /\ Above
  /\ answer = "found" => Member(code_point, Tables[table])
  /\ answer = "absent" => lower >= upper

LEMMA TableFacts ==
  ASSUME NEW name \in DOMAIN Tables
  PROVE  /\ Len(Tables[name]) \in Nat
         /\ \A i \in 1 .. Len(Tables[name]) :
              /\ Tables[name][i][1] \in Nat /\ Tables[name][i][2] \in Nat
              /\ Tables[name][i][1] <= Tables[name][i][2]
         /\ \A i, j \in 1 .. Len(Tables[name]) :
              i < j => Tables[name][i][2] < Tables[name][j][1]
<1>1. Tables[name] \in Seq(Nat \X Nat) /\ IsSorted(Tables[name])
  BY TablesAssumption
<1>2. Len(Tables[name]) \in Nat
      /\ \A i \in 1 .. Len(Tables[name]) : Tables[name][i] \in Nat \X Nat
  BY <1>1, SMT
<1> QED
  BY <1>1, <1>2, SMT DEF IsSorted

LEMMA MiddleInWindow ==
  ASSUME SearchTypeOK, lower < upper
  PROVE  /\ Middle \in Nat /\ lower <= Middle /\ Middle < upper
         /\ Middle + 1 \in 1 .. range_count
         /\ lower \in Nat /\ upper \in Nat /\ range_count \in Nat
<1>1. range_count \in Nat
  BY TableFacts DEF SearchTypeOK, range_count
<1>2. lower \in Nat /\ upper \in Nat /\ upper <= range_count
  BY <1>1, SMT DEF SearchTypeOK
<1> QED
  BY <1>1, <1>2, SMT DEF Middle

LEMMA SearchInitial == SearchInit => SearchInvariant
<1> SUFFICES ASSUME SearchInit PROVE SearchInvariant
  OBVIOUS
<1>1. range_count \in Nat
  BY TableFacts DEF SearchInit, range_count
<1>2. 0 \in 0 .. range_count /\ range_count \in 0 .. range_count
      /\ 1 .. 0 = {} /\ range_count + 1 .. range_count = {}
  BY <1>1, SMT
<1> QED
  BY <1>2 DEF SearchInit, SearchInvariant, SearchTypeOK, Below, Above

LEMMA SearchStepKeeps ==
  ASSUME SearchInvariant, [SearchStep \/ Answered]_searchVars
  PROVE  SearchInvariant'
<1> DEFINE ranges == Tables[table]
<1>t. /\ table \in DOMAIN Tables /\ code_point \in Nat
      /\ lower \in 0 .. range_count /\ upper \in 0 .. range_count
      /\ range_count = Len(ranges)
  BY TablesAssumption DEF SearchInvariant, SearchTypeOK, range_count
<1>f. /\ Len(ranges) \in Nat
      /\ \A i \in 1 .. Len(ranges) :
           /\ ranges[i][1] \in Nat /\ ranges[i][2] \in Nat
           /\ ranges[i][1] <= ranges[i][2]
      /\ \A i, j \in 1 .. Len(ranges) : i < j => ranges[i][2] < ranges[j][1]
  BY <1>t, TableFacts
<1>1. CASE GoLower
  <2>1. /\ Middle \in Nat /\ Middle < upper /\ Middle + 1 \in 1 .. range_count
        /\ upper \in Nat
    BY <1>1, MiddleInWindow DEF GoLower, Searching, SearchInvariant
  <2>2. code_point < ranges[Middle + 1][1]
    BY <1>1 DEF GoLower, MiddleRange
  <2>3. /\ table' = table /\ code_point' = code_point /\ lower' = lower
        /\ upper' = Middle /\ answer' = answer /\ answer = "none"
        /\ range_count' = range_count
    BY <1>1 DEF GoLower, Searching, range_count
  <2> HIDE DEF ranges
  <2>4. \A i \in Middle + 1 .. range_count : code_point < ranges[i][1]
    <3> SUFFICES ASSUME NEW i \in Middle + 1 .. range_count
                 PROVE  code_point < ranges[i][1]
      OBVIOUS
    <3>1. CASE i = Middle + 1
      BY <2>2, <3>1
    <3>2. CASE i # Middle + 1
      <4>1. i \in 1 .. Len(ranges) /\ Middle + 1 < i
        BY <1>t, <1>f, <2>1, <3>2, SMT
      <4>2. ranges[Middle + 1][2] < ranges[i][1]
        BY <1>f, <1>t, <2>1, <4>1
      <4> QED
        BY <1>f, <1>t, <2>1, <2>2, <4>1, <4>2, SMT
    <3> QED
      BY <3>1, <3>2
  <2>5. Middle \in 0 .. range_count
    BY <1>t, <1>f, <2>1, SMT
  <2> QED
    BY <2>3, <2>4, <2>5, <1>t DEF SearchInvariant, SearchTypeOK, Below, Above,
       ranges
<1>2. CASE GoHigher
  <2>1. /\ Middle \in Nat /\ lower <= Middle /\ Middle + 1 \in 1 .. range_count
        /\ lower \in Nat
    BY <1>2, MiddleInWindow DEF GoHigher, Searching, SearchInvariant
  <2>2. code_point > ranges[Middle + 1][2]
    BY <1>2 DEF GoHigher, MiddleRange
  <2>3. /\ table' = table /\ code_point' = code_point /\ upper' = upper
        /\ lower' = Middle + 1 /\ answer' = answer /\ answer = "none"
        /\ range_count' = range_count
    BY <1>2 DEF GoHigher, Searching, range_count
  <2> HIDE DEF ranges
  <2>4. \A i \in 1 .. Middle + 1 : ranges[i][2] < code_point
    <3> SUFFICES ASSUME NEW i \in 1 .. Middle + 1
                 PROVE  ranges[i][2] < code_point
      OBVIOUS
    <3>1. CASE i = Middle + 1
      BY <1>f, <1>t, <2>1, <2>2, <3>1, SMT
    <3>2. CASE i # Middle + 1
      <4>1. i \in 1 .. Len(ranges) /\ i < Middle + 1
        BY <1>t, <1>f, <2>1, <3>2, SMT
      <4>2. ranges[i][2] < ranges[Middle + 1][1]
        BY <1>f, <1>t, <2>1, <4>1
      <4> QED
        BY <1>f, <1>t, <2>1, <2>2, <4>1, <4>2, SMT
    <3> QED
      BY <3>1, <3>2
  <2>5. Middle + 1 \in 0 .. range_count
    BY <1>t, <1>f, <2>1, SMT
  <2> QED
    BY <2>3, <2>4, <2>5, <1>t DEF SearchInvariant, SearchTypeOK, Below, Above,
       ranges
<1>3. CASE Find
  <2>1. Middle + 1 \in 1 .. range_count
    BY <1>3, MiddleInWindow DEF Find, Searching, SearchInvariant
  <2>2. Member(code_point, ranges)
    BY <1>3, <1>t, <1>f, <2>1, SMT DEF Find, MiddleRange, Member
  <2> QED
    BY <1>3, <2>2 DEF Find, SearchInvariant, SearchTypeOK, Below, Above,
       range_count
<1>4. CASE GiveUp
  BY <1>4 DEF GiveUp, SearchInvariant, SearchTypeOK, Below, Above, range_count
<1>5. CASE UNCHANGED searchVars
  BY <1>5 DEF searchVars, SearchInvariant, SearchTypeOK, Below, Above,
     range_count
<1> QED
  BY <1>1, <1>2, <1>3, <1>4, <1>5 DEF SearchStep, Answered

LEMMA SearchInvariantHolds == SearchSpec => []SearchInvariant
  BY SearchInitial, SearchStepKeeps, PTL DEF SearchSpec

LEMMA SearchInvariantImplies ==
  ASSUME SearchInvariant
  PROVE  WindowHoldsTarget /\ SearchDecides
<1>t. /\ table \in DOMAIN Tables /\ code_point \in Nat
      /\ lower \in 0 .. range_count /\ upper \in 0 .. range_count
      /\ range_count = Len(Tables[table])
  BY TablesAssumption DEF SearchInvariant, SearchTypeOK, range_count
<1>f. /\ range_count \in Nat
      /\ \A i \in 1 .. range_count :
           /\ Tables[table][i][1] \in Nat /\ Tables[table][i][2] \in Nat
           /\ Tables[table][i][1] <= Tables[table][i][2]
  BY <1>t, TableFacts
<1>1. WindowHoldsTarget
  <2> SUFFICES ASSUME NEW i \in 1 .. range_count,
                      Tables[table][i][1] <= code_point,
                      code_point <= Tables[table][i][2]
               PROVE  lower < i /\ i <= upper
    BY DEF WindowHoldsTarget
  <2>1. lower < i
    <3> SUFFICES ASSUME ~ (lower < i) PROVE FALSE
      OBVIOUS
    <3>1. i \in 1 .. lower
      BY <1>t, <1>f, SMT
    <3>2. Tables[table][i][2] < code_point
      BY <3>1 DEF SearchInvariant, Below
    <3> QED
      BY <1>t, <1>f, <3>2, SMT
  <2>2. i <= upper
    <3> SUFFICES ASSUME ~ (i <= upper) PROVE FALSE
      OBVIOUS
    <3>1. i \in upper + 1 .. range_count
      BY <1>t, <1>f, SMT
    <3>2. code_point < Tables[table][i][1]
      BY <3>1 DEF SearchInvariant, Above
    <3> QED
      BY <1>t, <1>f, <3>2, SMT
  <2> QED
    BY <2>1, <2>2
<1>2. ASSUME answer = "absent" PROVE ~ Member(code_point, Tables[table])
  <2> SUFFICES ASSUME NEW i \in 1 .. range_count,
                      Tables[table][i][1] <= code_point,
                      code_point <= Tables[table][i][2]
               PROVE  FALSE
    BY <1>t DEF Member
  <2>1. lower < i /\ i <= upper /\ lower >= upper
    BY <1>1, <1>2 DEF WindowHoldsTarget, SearchInvariant
  <2> QED
    BY <1>t, <1>f, <2>1, SMT
<1> QED
  BY <1>1, <1>2 DEF SearchDecides, SearchInvariant

(***************************************************************************)
(* The search never leaves a range aside that holds the code point.        *)
(***************************************************************************)
THEOREM SearchWindowCorrect == SearchSpec => []WindowHoldsTarget
  BY SearchInvariantHolds, SearchInvariantImplies, PTL

(***************************************************************************)
(* Its answer is membership, in every sorted table.                        *)
(***************************************************************************)
THEOREM SearchCorrect == SearchSpec => []SearchDecides
  BY SearchInvariantHolds, SearchInvariantImplies, PTL

================================================================================
