----------------------------- MODULE LexerService -----------------------------
(***************************************************************************)
(* What NativeLexer::tokenize promises PHP: a call takes a string and ends *)
(* with exactly one answer that depends on that string alone, all tokens   *)
(* of the lexical grammar or the first limit they exceed.                  *)
(***************************************************************************)
EXTENDS LexicalLimits

CONSTANT Strings  \* what callers pass

VARIABLES
  pending,  \* the string of the call in progress, as a sequence of at most one
  answer    \* what the last call returned or threw

lexerServiceVars == << pending, answer >>

NoAnswer == [kind |-> "none"]

\* All tokens of a text, the first one first.
TokensOf(text) ==
  LET from[offset \in 0 .. Len(text)] ==
        LET next == NextToken(text, offset)
        IN  IF next.type = YYEOF THEN << >> ELSE << next >> \o from[next.end]
  IN  from[0]

\* docs/NATIVE_PARSER_ABI.md names the kinds.
KindNames ==
  { <<T_INTEGER, "integer">>, <<T_SUPERSCRIPT_INTEGER, "superscript-integer">>,
     <<T_INVALID_SUPERSCRIPT, "invalid-superscript">>,
     <<T_FLOAT, "decimal-number">>, <<T_DOT, "dot">>, <<T_MUL, "mul">>,
     <<T_DIV, "div">>, <<T_POW, "pow">>, <<T_SUB, "sub">>, <<T_ADD, "add">>,
     <<T_IDENTIFIER, "identifier">>, <<T_LEFT_PAREN, "left-paren">>,
     <<T_RIGHT_PAREN, "right-paren">>, <<T_AT, "at">>,
     <<T_INVALID_NUMBER, "invalid-number">> }

NameOf(type) ==
  (CHOOSE entry \in KindNames : entry[1] = type)[2]

Described(token) == [token EXCEPT !.type = NameOf(token.type)]

LimitFailure(limit, maximum, observed, start, end) ==
  [kind |-> "limit", limit |-> limit, maximum |-> maximum,
   observed |-> observed, start |-> start, end |-> end]

\* The first token that exceeds a limit, and which one it exceeds.
FailureOf(delivered, next) ==
  IF TooMany(delivered)
  THEN LimitFailure("token-count", TokenCountLimit, Len(delivered) + 1,
                    next.start, next.end)
  ELSE IF TooLong(next)
  THEN LimitFailure("token-bytes", TokenBytesLimit, next.end - next.start,
                    next.start, next.end)
  ELSE LimitFailure("nesting-depth", NestingDepthLimit, DepthOf(delivered) + 1,
                    next.start, next.end)

\* The tokens that exceed a limit when all before them are delivered.
Excessive(all) ==
  {n \in DOMAIN all : ~ WithinLimits(SubSeq(all, 1, n - 1), all[n])}

Verdict(all, excessive) ==
  IF excessive = {}
  THEN [kind |-> "tokens", array |-> [n \in DOMAIN all |-> Described(all[n])]]
  ELSE LET first == CHOOSE n \in excessive : \A m \in excessive : n <= m
       IN  FailureOf(SubSeq(all, 1, first - 1), all[first])

AnswerOn(all) == Verdict(all, Excessive(all))

AnswerTo(text) ==
  IF Len(text) > InputBytesLimit
  THEN LimitFailure("input-bytes", InputBytesLimit, Len(text), 0, Len(text))
  ELSE AnswerOn(TokensOf(text))

ServiceInit == pending = << >> /\ answer = NoAnswer

Invoke(text) ==
  /\ pending = << >>
  /\ pending' = << text >>
  /\ answer' = NoAnswer

\* Nothing but a scanner that could not be set up may change the answer.
Respond ==
  /\ pending # << >>
  /\ pending' = << >>
  /\ \/ answer' = AnswerTo(pending[1])
     \/ answer' = [kind |-> "runtime"] /\ Len(pending[1]) <= InputBytesLimit

LexerServiceSpec ==
  ServiceInit /\ [][Respond \/ \E text \in Strings : Invoke(text)]_lexerServiceVars
===============================================================================
