--------------------------------- MODULE Utf8 ---------------------------------
(***************************************************************************)
(* UTF-8 as the Unicode standard defines it and as the lexer decodes it    *)
(* (src/src/parser/lexer_context.c).  A text is a sequence of bytes,       *)
(* positions in it are offsets from 0, as in C.  Masks and shifts are      *)
(* written as arithmetic: x & 0x3f is x % 64, x << 6 is x * 64.            *)
(***************************************************************************)
EXTENDS Integers, Sequences

Byte == 0 .. 255

(***************************************************************************)
(* The definition.  A code point up to 0x10ffff that is no surrogate is    *)
(* encoded by a lead byte, whose mark tells the width, and continuation    *)
(* bytes of six bits each, in the least width that has room for it.        *)
(***************************************************************************)
IsSurrogate(code_point) == 55296 <= code_point /\ code_point <= 57343

Width == 1 .. 4
LeadMark == << 0, 192, 224, 240 >>
LeadEnd  == << 128, 224, 240, 248 >>
Shortest == << 0, 128, 2048, 65536, 1114112 >>

IsLead(byte, width) == LeadMark[width] <= byte /\ byte < LeadEnd[width]
IsTrail(byte) == 128 <= byte /\ byte <= 191

Payload(text, offset, width) ==
  LET lead   == text[offset + 1] - LeadMark[width]
      six(i) == text[offset + i] - 128
  IN  CASE width = 1 -> lead
        [] width = 2 -> lead * 64 + six(2)
        [] width = 3 -> lead * 4096 + six(2) * 64 + six(3)
        [] width = 4 -> lead * 262144 + six(2) * 4096 + six(3) * 64 + six(4)

\* The next `width' bytes encode a code point.
IsEncoded(text, offset, width) ==
  /\ offset + width <= Len(text)
  /\ IsLead(text[offset + 1], width)
  /\ \A i \in 2 .. width : IsTrail(text[offset + i])
  /\ Shortest[width] <= Payload(text, offset, width)
  /\ Payload(text, offset, width) < Shortest[width + 1]
  /\ ~ IsSurrogate(Payload(text, offset, width))

\* These offsets cut the text into encodings, up to the offset `last'.
CutsUpTo(cuts, text, last) ==
  /\ {0, last} \subseteq cuts
  /\ \A cut \in cuts :
       cut # last =>
         \E width \in Width : IsEncoded(text, cut, width) /\ cut + width \in cuts

WellFormed(text) ==
  \E cuts \in SUBSET (0 .. Len(text)) : CutsUpTo(cuts, text, Len(text))

(***************************************************************************)
(* yumemi_utf8_decode(text + offset, length - offset, ...).  At the end of *)
(* the text nothing is decoded and nothing else is returned; a byte that   *)
(* starts no encoding is returned as it is, for a width of one.            *)
(***************************************************************************)
IsContinuation(byte) == byte \div 64 = 2

IsTwoBytes(text, offset) ==
  /\ text[offset + 1] >= 194 /\ text[offset + 1] <= 223
  /\ Len(text) - offset >= 2
  /\ IsContinuation(text[offset + 2])

FaultyIsThreeBytes(text, offset) ==
  /\ text[offset + 1] >= 224 /\ text[offset + 1] <= 239
  /\ Len(text) - offset >= 3
  /\ \A i \in 2 .. 3 : IsContinuation(text[offset + i])
  /\ ~ (text[offset + 1] = 224 /\ text[offset + 2] < 160)
  /\ ~ (text[offset + 1] = 237 /\ text[offset + 2] > 160)

IsThreeBytes(text, offset) ==
  /\ text[offset + 1] >= 224 /\ text[offset + 1] <= 239
  /\ Len(text) - offset >= 3
  /\ \A i \in 2 .. 3 : IsContinuation(text[offset + i])
  /\ ~ (text[offset + 1] = 224 /\ text[offset + 2] < 160)
  /\ ~ (text[offset + 1] = 237 /\ text[offset + 2] >= 160)

IsFourBytes(text, offset) ==
  /\ text[offset + 1] >= 240 /\ text[offset + 1] <= 244
  /\ Len(text) - offset >= 4
  /\ \A i \in 2 .. 4 : IsContinuation(text[offset + i])
  /\ ~ (text[offset + 1] = 240 /\ text[offset + 2] < 144)
  /\ ~ (text[offset + 1] = 244 /\ text[offset + 2] >= 144)

Decoded(code_point, width) ==
  [ok |-> TRUE, code_point |-> code_point, width |-> width]

Utf8Decode(text, offset) ==
  LET first  == text[offset + 1]
      six(i) == text[offset + i] % 64
  IN  IF offset >= Len(text) THEN [ok |-> FALSE]
      ELSE IF first < 128 THEN Decoded(first, 1)
      ELSE IF IsTwoBytes(text, offset)
      THEN Decoded((first % 32) * 64 + six(2), 2)
      ELSE IF IsThreeBytes(text, offset)
      THEN Decoded((first % 16) * 4096 + six(2) * 64 + six(3), 3)
      ELSE IF IsFourBytes(text, offset)
      THEN Decoded((first % 8) * 262144 + six(2) * 4096 + six(3) * 64
                     + six(4), 4)
      ELSE [ok |-> FALSE, code_point |-> first, width |-> 1]
===============================================================================
