------------------------------ MODULE RangeSearch ------------------------------
(***************************************************************************)
(* yumemi_unicode_in_ranges (src/src/parser/lexer_context.c): the binary   *)
(* search that decides every property of a code point.  It is run here on  *)
(* one of several tables, each a sequence of ranges << first, last >>.     *)
(***************************************************************************)
EXTENDS Integers, Sequences

CONSTANTS
  Tables,     \* the tables by name
  CodePoints  \* what is looked up

IsSorted(ranges) ==
  /\ \A i \in 1 .. Len(ranges) : ranges[i][1] <= ranges[i][2]
  /\ \A i, j \in 1 .. Len(ranges) : i < j => ranges[i][2] < ranges[j][1]

ASSUME TablesAssumption ==
  /\ CodePoints \subseteq Nat
  /\ \A name \in DOMAIN Tables :
       Tables[name] \in Seq(Nat \X Nat) /\ IsSorted(Tables[name])

Member(code_point, ranges) ==
  \E i \in 1 .. Len(ranges) :
    ranges[i][1] <= code_point /\ code_point <= ranges[i][2]

VARIABLES
  table,       \* the name of the table
  code_point,
  lower,       \* the window [lower, upper) that is still to be searched
  upper,
  answer       \* "none" while searching, then whether a range was found

searchVars == << table, code_point, lower, upper, answer >>

range_count == Len(Tables[table])

SearchInit ==
  /\ table \in DOMAIN Tables
  /\ code_point \in CodePoints
  /\ lower = 0
  /\ upper = range_count
  /\ answer = "none"

Middle == lower + (upper - lower) \div 2

\* ranges[middle], indices from 0.
MiddleRange == Tables[table][Middle + 1]

Searching == answer = "none" /\ lower < upper

GoLower ==
  /\ Searching
  /\ code_point < MiddleRange[1]
  /\ upper' = Middle
  /\ UNCHANGED << table, code_point, lower, answer >>

FaultyGoHigher ==
  /\ Searching
  /\ code_point >= MiddleRange[1]
  /\ code_point > MiddleRange[2]
  /\ lower' = Middle + 2
  /\ UNCHANGED << table, code_point, upper, answer >>

GoHigher ==
  /\ Searching
  /\ code_point >= MiddleRange[1]
  /\ code_point > MiddleRange[2]
  /\ lower' = Middle + 1
  /\ UNCHANGED << table, code_point, upper, answer >>

Find ==
  /\ Searching
  /\ code_point >= MiddleRange[1]
  /\ code_point <= MiddleRange[2]
  /\ answer' = "found"
  /\ UNCHANGED << table, code_point, lower, upper >>

GiveUp ==
  /\ answer = "none"
  /\ lower >= upper
  /\ answer' = "absent"
  /\ UNCHANGED << table, code_point, lower, upper >>

SearchStep == GoLower \/ GoHigher \/ Find \/ GiveUp

Answered == answer # "none" /\ UNCHANGED searchVars

SearchSpec == SearchInit /\ [][SearchStep \/ Answered]_searchVars

-------------------------------------------------------------------------------
\* The window stays within the table, so that no entry beside it is read.
SearchTypeOK ==
  /\ table \in DOMAIN Tables
  /\ code_point \in CodePoints
  /\ lower \in 0 .. range_count
  /\ upper \in 0 .. range_count
  /\ answer \in {"none", "found", "absent"}

\* No range the search left aside holds the code point, so no table entry
\* becomes unreachable, the first and the last one included.
WindowHoldsTarget ==
  \A i \in 1 .. range_count :
    Tables[table][i][1] <= code_point /\ code_point <= Tables[table][i][2] =>
      lower < i /\ i <= upper

\* The answer is membership, for every range of every table.
SearchDecides ==
  /\ answer = "found" => Member(code_point, Tables[table])
  /\ answer = "absent" => ~ Member(code_point, Tables[table])
===============================================================================
