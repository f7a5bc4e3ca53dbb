------------------------------ MODULE InputCheck ------------------------------
(***************************************************************************)
(* yumemi_lexer_context_init (src/src/parser/lexer_context.c): an input    *)
(* over the limit is refused before it is looked at; any other is decoded  *)
(* code point by code point, and the first failure marks it as invalid,    *)
(* which makes the scanner return it whole as one token.                   *)
(***************************************************************************)
EXTENDS Utf8

CONSTANTS
  InputBytesLimit,  \* YUMEMI_LEXER_INPUT_BYTES_LIMIT, 4096
  Inputs            \* what callers may pass

ASSUME InputCheckAssumption ==
  /\ InputBytesLimit \in Nat
  /\ Inputs \subseteq Seq(Byte)

VARIABLES
  input,         \* the bytes passed
  offset,        \* how many of them were decoded
  invalid_utf8,  \* context->invalid_utf8
  oversize,      \* context->error.category is YUMEMI_LEXER_LIMIT_INPUT_BYTES
  phase          \* where the function is

checkVars == << input, offset, invalid_utf8, oversize, phase >>

CheckInit ==
  /\ input \in Inputs
  /\ offset = 0
  /\ invalid_utf8 = FALSE
  /\ oversize = FALSE
  /\ phase = "entered"

RefuseOversize ==
  /\ phase = "entered"
  /\ Len(input) > InputBytesLimit
  /\ oversize' = TRUE
  /\ phase' = "returned"
  /\ UNCHANGED << input, offset, invalid_utf8 >>

EnterLoop ==
  /\ phase = "entered"
  /\ Len(input) <= InputBytesLimit
  /\ phase' = "decoding"
  /\ UNCHANGED << input, offset, invalid_utf8, oversize >>

DecodeNext ==
  /\ phase = "decoding"
  /\ offset < Len(input)
  /\ Utf8Decode(input, offset).ok
  /\ offset' = offset + Utf8Decode(input, offset).width
  /\ UNCHANGED << input, invalid_utf8, oversize, phase >>

FindInvalid ==
  /\ phase = "decoding"
  /\ offset < Len(input)
  /\ ~ Utf8Decode(input, offset).ok
  /\ invalid_utf8' = TRUE
  /\ phase' = "returned"
  /\ UNCHANGED << input, offset, oversize >>

LeaveLoop ==
  /\ phase = "decoding"
  /\ offset >= Len(input)
  /\ phase' = "returned"
  /\ UNCHANGED << input, offset, invalid_utf8, oversize >>

CheckStep ==
  RefuseOversize \/ EnterLoop \/ DecodeNext \/ FindInvalid \/ LeaveLoop

Checked == phase = "returned" /\ UNCHANGED checkVars

CheckSpec == CheckInit /\ [][CheckStep \/ Checked]_checkVars

-------------------------------------------------------------------------------
\* The cursor stays within the input, and it is read byte by byte.
CheckTypeOK ==
  /\ input \in Seq(Byte)
  /\ offset \in 0 .. Len(input)
  /\ invalid_utf8 \in BOOLEAN
  /\ oversize \in BOOLEAN
  /\ phase \in {"entered", "decoding", "returned"}

\* The loop refuses exactly the inputs that are not UTF-8: overlong forms,
\* surrogates, values above U+10FFFF, stray and missing continuation bytes,
\* wherever they stand, and nothing else; what it did not look at it does
\* not judge.
DecidesUtf8 ==
  phase = "returned" =>
    /\ oversize <=> Len(input) > InputBytesLimit
    /\ invalid_utf8 <=> ~ oversize /\ ~ WellFormed(input)

\* The bytes behind the loop are well-formed on their own, so that no code
\* point is ever decoded from the middle of another.
DecodedIsWellFormed == WellFormed(SubSeq(input, 1, offset))
===============================================================================
