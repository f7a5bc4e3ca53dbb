------------------------------ MODULE Classifier ------------------------------
(***************************************************************************)
(* The classes of code points and the two functions that cut a lexeme out  *)
(* of what the automaton matched (src/src/parser/lexer_context.c).  The    *)
(* automaton knows bytes only; where a byte is not ASCII it matches a      *)
(* whole chunk, and these functions decide how much of it is one token.    *)
(***************************************************************************)
EXTENDS Utf8, UnicodeTables, ParserTables

Dot == 46
IsExponentMark(byte) == byte \in {69, 101}   \* 'E', 'e'
IsSign(byte) == byte \in {43, 45}            \* '+', '-'

\* yumemi_unicode_in_ranges, by what it returns.
InRanges(code_point, ranges) ==
  \E i \in DOMAIN ranges :
    ranges[i][1] <= code_point /\ code_point <= ranges[i][2]

IsIdentifier(code_point) ==
  code_point \in {95, 176} \/ InRanges(code_point, IdentifierRanges)

IsDecimalDigit(code_point) == InRanges(code_point, DecimalDigitRanges)

IsWhitespace(code_point) == InRanges(code_point, WhitespaceRanges)

FaultyIsSuperscriptDigit(code_point) == code_point \in 8304 .. 8313
IsSuperscriptDigit(code_point) ==
  code_point \in {178, 179, 185, 8304} \cup 8308 .. 8313

Belongs(code_point, class) ==
  \/ class = "identifier" /\ IsIdentifier(code_point)
  \/ class = "decimal_digit" /\ IsDecimalDigit(code_point)
  \/ class = "whitespace" /\ IsWhitespace(code_point)
  \/ class = "superscript" /\ IsSuperscriptDigit(code_point)

\* The loops of yumemi_scan_identifier, yumemi_scan_digits and the two of
\* the chunk: the first offset where no code point of the class starts.
FaultyEndOfRun(text, from, class) ==
  LET next == Utf8Decode(text, from)
  IN  IF from < Len(text) /\ next.ok /\ Belongs(next.code_point, class)
      THEN from + next.width
      ELSE from

EndOfRun(text, from, class) ==
  LET end[offset \in from .. Len(text)] ==
        LET next == Utf8Decode(text, offset)
        IN  IF /\ offset < Len(text)
               /\ next.ok
               /\ Belongs(next.code_point, class)
            THEN end[offset + next.width]
            ELSE offset
  IN  end[from]

EndOfDigits(text, from) == EndOfRun(text, from, "decimal_digit")

\* The loop over ".digits" in yumemi_lexer_classify_number.
EndOfSegments(text, from) ==
  LET end[offset \in from .. Len(text)] ==
        IF /\ offset < Len(text)
           /\ text[offset + 1] = Dot
           /\ EndOfDigits(text, offset + 1) > offset + 1
        THEN end[EndOfDigits(text, offset + 1)]
        ELSE offset
  IN  end[from]

\* Where the digits of an exponent start, if an exponent starts at `offset'.
ExponentStart(text, offset) ==
  IF offset + 1 < Len(text) /\ IsSign(text[offset + 2])
  THEN offset + 2
  ELSE offset + 1

HasExponent(text, offset) ==
  /\ offset < Len(text)
  /\ IsExponentMark(text[offset + 1])
  /\ EndOfDigits(text, ExponentStart(text, offset)) > ExponentStart(text, offset)

DotCount(text, length) == Cardinality({i \in 1 .. length : text[i] = Dot})

EndOfExponent(text, mantissa) ==
  IF HasExponent(text, mantissa)
  THEN EndOfDigits(text, ExponentStart(text, mantissa))
  ELSE mantissa

NumberType(text, mantissa, length) ==
  LET has_exponent == length > mantissa
      ascii_only   == \A i \in 1 .. length : text[i] < 128
      dot_count    == DotCount(text, length)
  IN  IF ~ ascii_only THEN T_IDENTIFIER
      ELSE IF dot_count > 1
      THEN IF has_exponent /\ text[mantissa + 1] = 69
           THEN T_IDENTIFIER ELSE T_INVALID_NUMBER
      ELSE IF dot_count = 1 \/ has_exponent THEN T_FLOAT
      ELSE T_INTEGER

Lexeme(length, type) == [length |-> length, type |-> type]

NumberFrom(text, mantissa, length) ==
  Lexeme(length, NumberType(text, mantissa, length))

NumberOn(text, mantissa) ==
  NumberFrom(text, mantissa, EndOfExponent(text, mantissa))

\* The number at the start of the text: how many bytes it has, and its kind.
ClassifyNumber(text) == NumberOn(text, EndOfSegments(text, EndOfDigits(text, 0)))

\* The code points that are a token each: . * / ^ - + ( ) @
OperatorOf ==
  << <<46, T_DOT>>, <<42, T_MUL>>, <<47, T_DIV>>, <<94, T_POW>>, <<45, T_SUB>>,
     <<43, T_ADD>>, <<40, T_LEFT_PAREN>>, <<41, T_RIGHT_PAREN>>, <<64, T_AT>> >>

IsOperator(code_point) == \E i \in DOMAIN OperatorOf : OperatorOf[i][1] = code_point
OperatorType(code_point) ==
  OperatorOf[CHOOSE i \in DOMAIN OperatorOf : OperatorOf[i][1] = code_point][2]

MiddleDot == 183
IsSuperscriptSign(code_point) == code_point \in {8314, 8315}

\* The token at the start of a chunk; T_SKIP is white space.
ClassifyUnicodeChunk(text) ==
  LET first == Utf8Decode(text, 0)
      code_point == first.code_point
      run(class) == EndOfRun(text, first.width, class)
  IN  IF text = << >> THEN Lexeme(0, T_IDENTIFIER)
      ELSE IF ~ first.ok THEN Lexeme(first.width, T_IDENTIFIER)
      ELSE IF IsOperator(code_point)
      THEN Lexeme(first.width, OperatorType(code_point))
      ELSE IF IsWhitespace(code_point) THEN Lexeme(run("whitespace"), T_SKIP)
      ELSE IF IsDecimalDigit(code_point) THEN ClassifyNumber(text)
      ELSE IF IsIdentifier(code_point)
      THEN Lexeme(EndOfRun(text, 0, "identifier"), T_IDENTIFIER)
      ELSE IF code_point = MiddleDot THEN Lexeme(first.width, T_MUL)
      ELSE IF IsSuperscriptSign(code_point)
      THEN IF run("superscript") = first.width
           THEN Lexeme(first.width, T_INVALID_SUPERSCRIPT)
           ELSE Lexeme(run("superscript"), T_SUPERSCRIPT_INTEGER)
      ELSE IF IsSuperscriptDigit(code_point)
      THEN Lexeme(run("superscript"), T_SUPERSCRIPT_INTEGER)
      ELSE Lexeme(first.width, T_IDENTIFIER)

\* The loop of yumemi_lexer_context_init, without its steps (InputCheck).
DecodesWhole(text) ==
  LET whole[offset \in 0 .. Len(text)] ==
        offset < Len(text) =>
          LET next == Utf8Decode(text, offset)
          IN  next.ok /\ whole[offset + next.width]
  IN  whole[0]
===============================================================================
