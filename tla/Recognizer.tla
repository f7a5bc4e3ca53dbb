----------------------------- MODULE Recognizer -----------------------------
(***************************************************************************)
(* What the parser promises about its input: the language of parser.y as a *)
(* recogniser that reads token by token and knows, before every token,     *)
(* exactly which kinds may follow.  It has no stack: where it is in an     *)
(* expression and how many parentheses are open is all it needs.           *)
(***************************************************************************)
EXTENDS Language

CONSTANT Kinds  \* the kinds of token the input may hold

VARIABLES
  place,       \* what the input read so far ends with
  depth,       \* open parentheses
  verdict,
  refused,     \* the kind of token that rejected the input
  expected     \* what could have followed in its place

recognizerVars == << place, depth, verdict, refused, expected >>

Verdicts == {"reading", "accepted", "rejected", "interrupted"}

RecognizerInit ==
  /\ place = "operand"
  /\ depth = 0
  /\ verdict = "reading"
  /\ refused = YYEMPTY
  /\ expected = {}

Consume(type) ==
  /\ verdict = "reading"
  /\ type \in Allowed(place, depth)
  /\ place' = PlaceAfter(place, type)
  /\ depth' = DepthAfter(depth, type)
  /\ UNCHANGED << verdict, refused, expected >>

\* The end of the input is consumed and accepted at once.
Accept ==
  /\ verdict = "reading"
  /\ YYEOF \in Allowed(place, depth)
  /\ verdict' = "accepted"
  /\ UNCHANGED << place, depth, refused, expected >>

\* The next token cannot follow, and the report says what could.
Reject ==
  /\ verdict = "reading"
  /\ refused' \in (Kinds \cup {YYEOF}) \ Allowed(place, depth)
  /\ verdict' = "rejected"
  /\ expected' = Allowed(place, depth)
  /\ UNCHANGED << place, depth >>

\* A limit of the lexer or of the parser's stack ends the reading.
Interrupt ==
  /\ verdict = "reading"
  /\ verdict' = "interrupted"
  /\ UNCHANGED << place, depth, refused, expected >>

RecognizerNext ==
  \/ \E type \in Kinds : Consume(type)
  \/ Accept
  \/ Reject
  \/ Interrupt

RecognizerSpec ==
  /\ RecognizerInit
  /\ [][RecognizerNext]_recognizerVars
=============================================================================
