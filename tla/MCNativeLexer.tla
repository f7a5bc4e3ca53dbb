---------------------------- MODULE MCNativeLexer ----------------------------
(***************************************************************************)
(* Strings of up to UnitsPerString units, one more byte than an input may  *)
(* have, and strings at both sides of every other limit.                   *)
(***************************************************************************)
EXTENDS NativeLexerProperties

CONSTANT UnitsPerString

Units ==
  { << 0 >>, << 32 >>, << 46 >>, << 40 >>, << 41 >>, << 49 >>, << 97 >>,
    << 194, 178 >>,        \* U+00B2, a superscript digit
    << 195, 169 >>,        \* U+00E9, a letter
    << 226, 128, 137 >>,   \* U+2009, white space
    << 255 >> }            \* no part of UTF-8

Concatenated(units) ==
  LET upTo[n \in 0 .. Len(units)] ==
        IF n = 0 THEN << >> ELSE upTo[n - 1] \o units[n]
  IN  upTo[Len(units)]

Repeated(byte, count) == [i \in 1 .. count |-> byte]

\* Names and numbers as long as a token may be and one byte longer, inputs
\* as long as an input may be and one byte longer, brackets and tokens in
\* the numbers that are allowed and one more.
Boundaries ==
  { Repeated(97, TokenBytesLimit), Repeated(49, TokenBytesLimit + 1),
    Repeated(32, InputBytesLimit), Repeated(32, InputBytesLimit + 1),
    Repeated(40, NestingDepthLimit), Repeated(40, NestingDepthLimit + 1),
    Repeated(43, TokenCountLimit), Repeated(43, TokenCountLimit + 1),
    << 40, 41, 41, 40 >> }

MCStrings ==
  { Concatenated(units) :
      units \in UNION { [1 .. n -> Units] : n \in 0 .. UnitsPerString } }
    \cup Boundaries

MCInputs == {string \in MCStrings : ~ IsOversize(Len(string))}
==============================================================================
