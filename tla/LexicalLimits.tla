----------------------------- MODULE LexicalLimits -----------------------------
(***************************************************************************)
(* The limits of docs/NATIVE_PARSER_ABI.md ("Resource failures"), said of  *)
(* a sequence of tokens and the token that comes next: nothing is counted  *)
(* along the way.                                                          *)
(***************************************************************************)
EXTENDS LexicalGrammar

CONSTANTS
  InputBytesLimit,    \* YUMEMI_LEXER_INPUT_BYTES_LIMIT
  TokenCountLimit,    \* YUMEMI_LEXER_TOKEN_COUNT_LIMIT
  NestingDepthLimit,  \* YUMEMI_LEXER_NESTING_DEPTH_LIMIT
  TokenBytesLimit     \* YUMEMI_LEXER_TOKEN_BYTES_LIMIT

\* Open parentheses at the end of the tokens; a surplus ")" counts for none.
DepthOf(delivered) ==
  LET depth[n \in 0 .. Len(delivered)] ==
        IF n = 0 THEN 0
        ELSE IF delivered[n].type = T_LEFT_PAREN THEN depth[n - 1] + 1
        ELSE IF delivered[n].type = T_RIGHT_PAREN /\ depth[n - 1] > 0
        THEN depth[n - 1] - 1
        ELSE depth[n - 1]
  IN  depth[Len(delivered)]

\* The kinds whose lexeme has no fixed length.
Unbounded == {T_IDENTIFIER, T_INTEGER, T_FLOAT, T_SUPERSCRIPT_INTEGER,
              T_INVALID_NUMBER}

TooMany(delivered) == Len(delivered) >= TokenCountLimit

TooLong(next) == next.type \in Unbounded /\ next.end - next.start > TokenBytesLimit

TooDeep(delivered, next) ==
  next.type = T_LEFT_PAREN /\ DepthOf(delivered) >= NestingDepthLimit

WithinLimits(delivered, next) ==
  ~ (TooMany(delivered) \/ TooLong(next) \/ TooDeep(delivered, next))
===============================================================================
