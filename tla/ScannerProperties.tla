-------------------------- MODULE ScannerProperties --------------------------
(***************************************************************************)
(* What the scanner keeps true while it writes NULs into the buffer it     *)
(* scans and gives back what it matched too much.                          *)
(***************************************************************************)
EXTENDS Scanner, ScannerAutomaton

Stream == INSTANCE TokenStream

Buffer == input \o << YY_END_OF_BUFFER_CHAR, YY_END_OF_BUFFER_CHAR >>

\* Whenever the automaton reads, the buffer is the input; between, one byte
\* of it waits in yy_hold_char.  A NUL left behind would end the input
\* there, or split a code point, for every token that follows.
BufferIsInput ==
  IF pc \in {"match", "find"} THEN ch_buf = Buffer
  ELSE Put(ch_buf, c_buf_p, hold_char) = Buffer

\* The context counts exactly the bytes yylex is done with, so that a token
\* is reported where it stands: what a trimmed chunk or the end of the
\* buffer gives back to one is given back to the other.
OffsetIsCursor ==
  pc \in {"caller", "begin"} => ctx.offset = c_buf_p

\* Every match finds a rule: flex has an action for it, and the end of the
\* buffer is never missed (the three fatal errors of the generated code).
NeverFatal ==
  /\ pc = "act" => yy_act \in 0 .. 15 \cup {YY_END_OF_BUFFER}
  /\ AtNul => c_buf_p <= n_chars + 1
  /\ pc \in {"find", "act"} => state # 0

\* The parser relies on it: no two numbers touch (Yyparse reads tokens with
\* this restriction).
NumeralTypes == {T_INTEGER, T_FLOAT, T_INVALID_NUMBER}

NumeralsApart ==
  \A i \in 2 .. Len(tokens) :
    tokens[i - 1].end = tokens[i].start =>
      ~ {tokens[i - 1].type, tokens[i].type} \subseteq NumeralTypes

\* The tokens are those of the lexical grammar, one after the other, and the
\* limits stop them where they should: whatever the automaton matched first.
ImplementsTokenStream == Stream!StreamSpec
==============================================================================
