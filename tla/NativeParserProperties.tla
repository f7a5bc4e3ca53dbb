------------------------ MODULE NativeParserProperties ------------------------
(***************************************************************************)
(* What a sequence of NativeParser::parse calls keeps true.                *)
(***************************************************************************)
EXTENDS NativeParser

\* The parser runs only while everything it reads is held, the result is
\* taken from a live arena, and no call leaves anything behind.
ResourcesHeld ==
  /\ stage = "yyparse" => live = Resources
  /\ stage = "result" => live = {"arena"}
  /\ stage = "idle" => live = {}

\* An answer to the caller is one the parser reported: the end of the input
\* is never blamed for want of a message, and a recorded syntax error is
\* never masked by a limit or the other way round.
ErrorsNeverMixed ==
  stage = "result" =>
    /\ Failed /\ InLimits(lexer) => HasError(error)
    /\ ~ InLimits(lexer) => ~ HasError(error) /\ root = NoNode

Promise == INSTANCE ParserService WITH
  busy   <- IF stage = "idle" THEN -1 ELSE input_length,
  answer <- outcome

\* Seen from PHP, a call is atomic: one input, then exactly one outcome that
\* is about that input and describes it truthfully.
ImplementsService == Promise!ServiceSpec

\* Every call ends, with an answer.
EveryCallAnswers == stage # "idle" ~> stage = "idle" /\ outcome.kind # "none"
=============================================================================
