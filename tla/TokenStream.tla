----------------------------- MODULE TokenStream -----------------------------
(***************************************************************************)
(* What the lexer promises its two callers (NativeLexer::tokenize and the  *)
(* parser): the tokens of the lexical grammar one after the other, until   *)
(* the input ends or a token exceeds a limit.                              *)
(***************************************************************************)
EXTENDS LexicalLimits

CONSTANT Inputs  \* the inputs callers pass, none over the input limit

VARIABLES
  input,    \* the bytes
  tokens,   \* the tokens delivered so far
  outcome   \* "open" until there is no more token: "eof" or "limit"

streamVars == << input, tokens, outcome >>

DeliveredTo == IF tokens = << >> THEN 0 ELSE tokens[Len(tokens)].end

Upcoming == NextToken(input, DeliveredTo)

StreamInit == input \in Inputs /\ tokens = << >> /\ outcome = "open"

\* What a token does to the stream.
Deliver(next) ==
  /\ next.type # YYEOF
  /\ WithinLimits(tokens, next)
  /\ tokens' = Append(tokens, next)
  /\ UNCHANGED << input, outcome >>

Refuse(next) ==
  /\ outcome' = "limit"
  /\ next.type # YYEOF
  /\ ~ WithinLimits(tokens, next)
  /\ UNCHANGED << input, tokens >>

Finish(next) ==
  /\ outcome' = "eof"
  /\ next.type = YYEOF
  /\ UNCHANGED << input, tokens >>

\* The step names what it changes first, which is cheap to refute.
Ask ==
  /\ outcome = "open"
  /\ Len(tokens') = Len(tokens) + 1 \/ outcome' # "open"
  /\ \E next \in {Upcoming} : Deliver(next) \/ Refuse(next) \/ Finish(next)

StreamSpec == StreamInit /\ [][Ask]_streamVars
===============================================================================
