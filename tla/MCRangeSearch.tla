----------------------------- MODULE MCRangeSearch -----------------------------
(***************************************************************************)
(* The search on the tables the lexer is compiled with, for every code     *)
(* point at the edge of a range.                                           *)
(***************************************************************************)
EXTENDS RangeSearch, UnicodeTables

AllRanges == IdentifierRanges \o DecimalDigitRanges \o WhitespaceRanges

\* Outside, on and inside both ends of every range; no table starts at 0.
EdgeCodePoints ==
  { AllRanges[i][side] + step : i \in 1 .. Len(AllRanges), side \in {1, 2},
                                step \in {-1, 0, 1} }
================================================================================
