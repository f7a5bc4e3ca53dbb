---------------------------- MODULE ScannerTables ----------------------------
(***************************************************************************)
(* The automaton flex generated from src/src/parser/scanner.l into         *)
(* src/src/parser/scanner.c, the way the scanner reads its tables.  They   *)
(* are copied as data; arrays are indexed from 0, as in C.                 *)
(***************************************************************************)
EXTENDS Integers, Sequences

Array(elements) == [i \in 0 .. Len(elements) - 1 |-> elements[i + 1]]

\* The action of each state: 0 none, 17 the end of the buffer.
yy_accept == Array(
  <<
     0, 0, 0, 0, 0, 17, 15, 2, 2, 12, 13, 7, 11, 10, 6, 8, 4, 14, 5, 9, 3,
     1, 2, 0, 3, 0, 4, 0, 5, 3, 3, 1, 4, 0, 4, 0 >>)

\* The class of each byte.
yy_ec == Array(
  <<
     0, 1, 1, 1, 1, 1, 1, 1, 1, 2, 3, 2, 2, 2, 1, 1, 1, 1, 1, 1, 1, 1, 1,
     1, 1, 1, 1, 1, 1, 1, 1, 1, 2, 1, 1, 1, 1, 1, 1, 1, 4, 5, 6, 7, 1, 8,
     9, 10, 11, 11, 11, 11, 11, 11, 11, 11, 11, 11, 1, 1, 1, 1, 1, 1, 12,
     13, 13, 13, 13, 14, 13, 13, 13, 13, 13, 13, 13, 13, 13, 13, 13, 13,
     13, 13, 13, 13, 13, 13, 13, 13, 13, 1, 1, 1, 15, 13, 1, 13, 13, 13,
     13, 14, 13, 13, 13, 13, 13, 13, 13, 13, 13, 13, 13, 13, 13, 13, 13,
     13, 13, 13, 13, 13, 13, 1, 1, 1, 1, 1, 16, 16, 16, 16, 16, 16, 16, 16,
     16, 16, 16, 16, 16, 16, 16, 16, 16, 16, 16, 16, 16, 16, 16, 16, 16,
     16, 16, 16, 16, 16, 16, 16, 16, 16, 16, 16, 16, 16, 16, 16, 16, 16,
     16, 16, 16, 16, 16, 16, 16, 16, 16, 16, 16, 16, 16, 16, 16, 16, 16,
     16, 16, 16, 16, 16, 16, 16, 16, 16, 16, 16, 16, 16, 16, 16, 16, 16,
     16, 16, 16, 16, 16, 16, 16, 16, 16, 16, 16, 16, 16, 16, 16, 16, 16,
     16, 16, 16, 16, 16, 16, 16, 16, 16, 16, 16, 16, 16, 16, 16, 16, 16,
     16, 16, 16, 16, 16, 16, 16, 16, 16, 16, 16, 16, 16, 16, 16, 16, 16, 16 >>)

\* The class of each class, in the rows of the template states.
yy_meta == Array(
  <<
     0, 1, 1, 1, 1, 1, 1, 2, 2, 2, 1, 2, 1, 2, 2, 1, 2 >>)

\* Where the row of each state starts in yy_nxt.
yy_base == Array(
  <<
     0, 0, 0, 0, 0, 59, 60, 15, 17, 60, 60, 60, 42, 41, 40, 60, 14, 60, 24,
     60, 39, 0, 39, 38, 37, 13, 0, 36, 0, 36, 30, 0, 34, 28, 25, 60, 47,
     32, 24, 49 >>)

\* The state whose row stands in for what the row of a state lacks.
yy_def == Array(
  <<
     0, 35, 1, 36, 36, 35, 35, 35, 35, 35, 35, 35, 37, 37, 37, 35, 35, 35,
     35, 35, 38, 39, 35, 37, 38, 37, 16, 25, 18, 38, 38, 39, 16, 25, 25, 0,
     35, 35, 35, 35 >>)

\* The rows, one laid over the other.
yy_nxt == Array(
  <<
     0, 6, 7, 8, 9, 10, 11, 12, 13, 14, 15, 16, 17, 18, 18, 19, 20, 22, 22,
     22, 22, 23, 23, 25, 32, 26, 29, 23, 27, 24, 24, 23, 23, 23, 23, 28,
     34, 28, 28, 34, 24, 22, 22, 33, 33, 32, 30, 34, 21, 21, 31, 31, 30,
     30, 24, 30, 24, 24, 24, 35, 5, 35, 35, 35, 35, 35, 35, 35, 35, 35, 35,
     35, 35, 35, 35, 35, 35 >>)

\* The state that each entry of yy_nxt belongs to.
yy_chk == Array(
  <<
     0, 1, 1, 1, 1, 1, 1, 1, 1, 1, 1, 1, 1, 1, 1, 1, 1, 7, 7, 8, 8, 16, 16,
     16, 25, 16, 38, 16, 16, 25, 16, 18, 18, 18, 37, 18, 34, 18, 18, 33,
     18, 22, 22, 27, 27, 32, 30, 27, 36, 36, 39, 39, 29, 24, 23, 20, 14,
     13, 12, 5, 35, 35, 35, 35, 35, 35, 35, 35, 35, 35, 35, 35, 35, 35, 35,
     35, 35 >>)

JamState == 35            \* no lexeme goes on from here
FirstTemplate == 36       \* from here on, rows are indexed by yy_meta
INITIAL == 0
INVALID_UTF8 == 1
NulClass == 1             \* a NUL that is part of the text
YY_END_OF_BUFFER == 17
YY_END_OF_BUFFER_CHAR == 0

StartState(condition) == 1 + 2 * condition

Classes == 0 .. 16
ScannerStates == 1 .. JamState

\* The inner loop of yy_match, which looks for the row that has the entry.
yy_transition[state \in DOMAIN yy_base, class \in Classes] ==
  LET entry == yy_base[state] + class
      other == yy_def[state]
  IN  IF yy_chk[entry] = state THEN yy_nxt[entry]
      ELSE yy_transition[other, IF other >= FirstTemplate THEN yy_meta[class]
                                ELSE class]

==============================================================================
