---------------------------- MODULE LexerContext ----------------------------
(***************************************************************************)
(* The lexer's accounting (src/src/parser/lexer_context.c): one context    *)
(* per call counts tokens and open parentheses and records the first limit *)
(* exceeded.  The scanner never runs again after a limit was recorded.     *)
(***************************************************************************)
EXTENDS ParserTables

CONSTANTS
  InputBytesLimit,    \* YUMEMI_LEXER_INPUT_BYTES_LIMIT, 4096
  TokenCountLimit,    \* YUMEMI_LEXER_TOKEN_COUNT_LIMIT, 256
  NestingDepthLimit,  \* YUMEMI_LEXER_NESTING_DEPTH_LIMIT, 64
  TokenBytesLimit     \* YUMEMI_LEXER_TOKEN_BYTES_LIMIT, 1024

ASSUME LimitsAssumption ==
  /\ InputBytesLimit \in Nat
  /\ TokenCountLimit \in Nat
  /\ NestingDepthLimit \in Nat
  /\ TokenBytesLimit \in Nat

Location == [start : Nat, end : Nat]
NoLocation == [start |-> 0, end |-> 0]

Limits == {"input_bytes", "token_count", "nesting_depth", "token_bytes"}

LexerError == [category : Limits \cup {"none"}, limit : Nat, observed : Nat,
               location : Location]

LexerContexts == [offset : Nat, token_count : Nat, nesting_depth : Nat,
                  error : LexerError]

Exceeded(category, limit, observed, loc) ==
  [category |-> category, limit |-> limit, observed |-> observed,
   location |-> loc]

NoLimit == Exceeded("none", 0, 0, NoLocation)

InLimits(ctx) == ctx.error.category = "none"

EmptyContext == [offset |-> 0, token_count |-> 0, nesting_depth |-> 0,
                 error |-> NoLimit]

\* yumemi_lexer_context_init for an input of `length' bytes.
FaultyIsOversize(length) == length >= InputBytesLimit
IsOversize(length) == length > InputBytesLimit

ContextInit(length) ==
  IF IsOversize(length)
  THEN [EmptyContext EXCEPT !.error =
          Exceeded("input_bytes", InputBytesLimit, length,
                   [start |-> 0, end |-> length])]
  ELSE EmptyContext

\* The kinds whose lexeme is bounded; the others have a fixed length.
SizedTokens == {T_IDENTIFIER, T_INTEGER, T_FLOAT, T_SUPERSCRIPT_INTEGER,
                T_INVALID_NUMBER}

FaultyNextDepth(ctx, type) ==
  IF type = T_LEFT_PAREN THEN ctx.nesting_depth + 1
  ELSE IF type = T_RIGHT_PAREN THEN ctx.nesting_depth - 1
  ELSE ctx.nesting_depth

NextDepth(ctx, type) ==
  IF type = T_LEFT_PAREN THEN ctx.nesting_depth + 1
  ELSE IF type = T_RIGHT_PAREN /\ ctx.nesting_depth > 0
  THEN ctx.nesting_depth - 1
  ELSE ctx.nesting_depth

FaultyCounted(ctx) == ctx
Counted(ctx) == [ctx EXCEPT !.token_count = @ + 1]

(***************************************************************************)
(* yumemi_lexer_accept_token: the context after a token of this kind at    *)
(* this location.  The token was accepted iff the result is InLimits.      *)
(***************************************************************************)
AcceptToken(ctx, type, loc) ==
  LET counted == Counted(ctx)
      nested  == [counted EXCEPT !.nesting_depth = NextDepth(ctx, type)]
      bytes   == loc.end - loc.start
  IN  IF counted.token_count > TokenCountLimit
      THEN [counted EXCEPT !.error =
              Exceeded("token_count", TokenCountLimit, counted.token_count, loc)]
      ELSE IF bytes > TokenBytesLimit /\ type \in SizedTokens
      THEN [counted EXCEPT !.error =
              Exceeded("token_bytes", TokenBytesLimit, bytes, loc)]
      ELSE IF type = T_LEFT_PAREN /\ nested.nesting_depth > NestingDepthLimit
      THEN [nested EXCEPT !.error =
              Exceeded("nesting_depth", NestingDepthLimit,
                       nested.nesting_depth, loc)]
      ELSE nested
=============================================================================
