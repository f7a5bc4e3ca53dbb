---------------------------- MODULE LexicalGrammar ----------------------------
(***************************************************************************)
(* The tokens of a unit expression as a language over code points          *)
(* (docs/NATIVE_PARSER_ABI.md, src/src/parser/scanner.l): at every place   *)
(* the longest lexeme is the token.  Nothing here knows about bytes that   *)
(* are matched and given back, about an automaton or about a buffer.       *)
(* Offsets count bytes; [from, to) is the part of the text meant.          *)
(***************************************************************************)
EXTENDS Utf8, UnicodeTables, ParserTables

InTable(code_point, ranges) ==
  \E i \in DOMAIN ranges :
    ranges[i][1] <= code_point /\ code_point <= ranges[i][2]

\* U+00B9 U+00B2 U+00B3 U+2070 U+2074..U+2079
SuperscriptDigits == {185, 178, 179, 8304} \cup 8308 .. 8313
SuperscriptSigns  == {8314, 8315}

IsLetter(code_point) ==
  \/ code_point \in {95, 176}                   \* underscore, degree sign
  \/ InTable(code_point, IdentifierRanges)
IsDigit(code_point) == InTable(code_point, DecimalDigitRanges)
IsSpace(code_point) == InTable(code_point, WhitespaceRanges)

(***************************************************************************)
(* The code points of a text start at the bytes that are no continuation.  *)
(***************************************************************************)
IsCut(text, offset) == offset = Len(text) \/ ~ IsTrail(text[offset + 1])

Cuts(text) == {offset \in 0 .. Len(text) : IsCut(text, offset)}

IsText(text) == CutsUpTo(Cuts(text), text, Len(text))

CodePointAt(text, offset) ==
  Payload(text, offset,
          CHOOSE width \in Width : IsLead(text[offset + 1], width))

StartsIn(text, from, to) ==
  {offset \in from .. to - 1 : IsCut(text, offset)}

PointsIn(text, from, to) ==
  {CodePointAt(text, offset) : offset \in StartsIn(text, from, to)}

AllAre(text, from, to, Is(_)) ==
  from < to /\ \A code_point \in PointsIn(text, from, to) : Is(code_point)

(***************************************************************************)
(* The languages of the lexemes.                                           *)
(***************************************************************************)
FullStop == 46

\* Digits, with single full stops between them.
IsMantissa(text, from, to) ==
  /\ AllAre(text, from, to, LAMBDA cp : IsDigit(cp) \/ cp = FullStop)
  /\ text[from + 1] # FullStop
  /\ text[to] # FullStop
  /\ \A i \in from + 1 .. to - 1 : ~ (text[i] = FullStop /\ text[i + 1] = FullStop)

\* e or E, perhaps a sign, digits.
IsExponent(text, from, to) ==
  /\ from < to
  /\ text[from + 1] \in {69, 101}
  /\ \/ AllAre(text, from + 1, to, IsDigit)
     \/ /\ from + 2 < to
        /\ text[from + 2] \in {43, 45}
        /\ AllAre(text, from + 2, to, IsDigit)

IsNumber(text, from, to) ==
  \E end \in from + 1 .. to :
    /\ IsMantissa(text, from, end)
    /\ end = to \/ IsExponent(text, end, to)

IsWord(text, from, to) ==
  /\ AllAre(text, from, to, IsLetter)
  /\ ~ IsDigit(CodePointAt(text, from))

AreSuperscripts(text, from, to) ==
  AllAre(text, from, to, LAMBDA cp : cp \in SuperscriptDigits)

IsPower(text, from, to) ==
  \/ AreSuperscripts(text, from, to)
  \/ /\ from < to
     /\ CodePointAt(text, from) \in SuperscriptSigns
     /\ AreSuperscripts(text, from + 3, to)

IsSingle(text, from, to) == Cardinality(StartsIn(text, from, to)) = 1

IsLexeme(text, from, to) ==
  /\ IsCut(text, to)
  /\ \/ IsNumber(text, from, to)
     \/ IsWord(text, from, to)
     \/ IsPower(text, from, to)
     \/ IsSingle(text, from, to)

(***************************************************************************)
(* The kinds.  A number with digits of another script is a name, like      *)
(* one with several full stops and a capital exponent.                     *)
(***************************************************************************)
Occurs(text, from, to, bytes) ==
  Cardinality({i \in from + 1 .. to : text[i] \in bytes})

NumberKind(text, from, to) ==
  LET stops    == Occurs(text, from, to, {FullStop})
      capitals == Occurs(text, from, to, {69})
      smalls   == Occurs(text, from, to, {101})
      others   == Occurs(text, from, to, 128 .. 255)
  IN  IF others > 0 \/ (stops > 1 /\ capitals > 0) THEN T_IDENTIFIER
      ELSE IF stops > 1 THEN T_INVALID_NUMBER
      ELSE IF stops + capitals + smalls > 0 THEN T_FLOAT
      ELSE T_INTEGER

SingleKinds == {<<46, T_DOT>>, <<42, T_MUL>>, <<183, T_MUL>>, <<47, T_DIV>>,
                <<94, T_POW>>, <<45, T_SUB>>, <<43, T_ADD>>,
                <<40, T_LEFT_PAREN>>, <<41, T_RIGHT_PAREN>>, <<64, T_AT>>,
                <<8314, T_INVALID_SUPERSCRIPT>>, <<8315, T_INVALID_SUPERSCRIPT>>}

SingleKind(code_point) ==
  IF \E kind \in SingleKinds : kind[1] = code_point
  THEN (CHOOSE kind \in SingleKinds : kind[1] = code_point)[2]
  ELSE T_IDENTIFIER

KindOf(text, from, to) ==
  IF IsNumber(text, from, to) THEN NumberKind(text, from, to)
  ELSE IF IsPower(text, from, to) THEN T_SUPERSCRIPT_INTEGER
  ELSE IF IsWord(text, from, to) THEN T_IDENTIFIER
  ELSE SingleKind(CodePointAt(text, from))

(***************************************************************************)
(* The first token at or behind an offset, white space skipped; none at    *)
(* the end.  A text that is not UTF-8 is one token.                        *)
(***************************************************************************)
IsBlank(text, from, to) ==
  \A code_point \in PointsIn(text, from, to) : IsSpace(code_point)

TokenStart(text, from) ==
  CHOOSE start \in from .. Len(text) :
    /\ IsCut(text, start)
    /\ IsBlank(text, from, start)
    /\ start = Len(text) \/ ~ IsSpace(CodePointAt(text, start))

LongestEnd(text, from) ==
  CHOOSE to \in from + 1 .. Len(text) :
    /\ IsLexeme(text, from, to)
    /\ \A longer \in to + 1 .. Len(text) : ~ IsLexeme(text, from, longer)

Token(text, type, start, end) ==
  [type |-> type, start |-> start, end |-> end,
   text |-> SubSeq(text, start + 1, end)]

NoToken(text) == [type |-> YYEOF, start |-> Len(text), end |-> Len(text),
                  text |-> << >>]

TokenAt(text, start, end) == Token(text, KindOf(text, start, end), start, end)

FirstToken(text, start) ==
  IF start = Len(text) THEN NoToken(text)
  ELSE TokenAt(text, start, LongestEnd(text, start))

NextToken(text, from) ==
  IF IsText(text) THEN FirstToken(text, TokenStart(text, from))
  ELSE IF from = 0 /\ text # << >> THEN Token(text, T_IDENTIFIER, 0, Len(text))
  ELSE NoToken(text)
===============================================================================
