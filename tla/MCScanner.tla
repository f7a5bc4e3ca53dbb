------------------------------ MODULE MCScanner ------------------------------
(***************************************************************************)
(* Inputs put together from units: a byte or a code point of every class   *)
(* that the rules and the classifier tell apart.                           *)
(***************************************************************************)
EXTENDS ScannerProperties

CONSTANTS
  UnitsPerInput,    \* how many units of any kind
  NumeralUnits      \* how many units when only those of numbers are used

Units ==
  { << 0 >>,               \* NUL
    << 32 >>, << 46 >>, << 43 >>, << 40 >>, << 41 >>,       \* space . + ( )
    << 49 >>, << 69 >>, << 97 >>, << 36 >>,                 \* 1 E a $
    << 194, 160 >>,        \* U+00A0, white space
    << 194, 178 >>,        \* U+00B2, a superscript digit
    << 194, 183 >>,        \* U+00B7, the middle dot
    << 195, 169 >>,        \* U+00E9, a letter
    << 217, 161 >>,        \* U+0661, a digit that is not ASCII
    << 226, 129, 186 >>,   \* U+207A, the superscript plus
    << 255 >> }            \* no part of UTF-8

NumberUnits == { << 46 >>, << 45 >>, << 49 >>, << 69 >>, << 101 >>,
                 << 217, 161 >>, << 194, 178 >> }

Concatenated(units) ==
  LET upTo[n \in 0 .. Len(units)] ==
        IF n = 0 THEN << >> ELSE upTo[n - 1] \o units[n]
  IN  upTo[Len(units)]

\* 1.1.1, 1.1.1e1, 1.1.1E1, 1e+1e1, 1.1E-1 and a superscript, a run of white
\* space of both kinds, two characters of four bytes, more than one bracket.
LongInputs ==
  { << 49, 46, 49, 46, 49 >>,
    << 49, 46, 49, 46, 49, 101, 49 >>,
    << 49, 46, 49, 46, 49, 69, 49, 194, 178 >>,
    << 49, 101, 43, 49, 101, 49 >>,
    << 49, 46, 49, 69, 45, 49, 194, 178 >>,
    << 97, 194, 160, 226, 128, 137, 9, 32, 194, 160, 97 >>,
    << 240, 144, 146, 160, 240, 159, 152, 128, 49 >>,
    << 41, 40, 41, 40, 40 >>,
    << 226, 129, 187, 194, 178, 226, 129, 180, 194, 183, 0 >> }

MCInputs ==
  { Concatenated(units) :
      units \in UNION { [1 .. n -> Units] : n \in 0 .. UnitsPerInput }
                  \cup [1 .. NumeralUnits -> NumberUnits] }
    \cup LongInputs
==============================================================================
