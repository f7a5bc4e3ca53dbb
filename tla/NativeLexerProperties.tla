------------------------- MODULE NativeLexerProperties -------------------------
(***************************************************************************)
(* What a sequence of NativeLexer::tokenize calls keeps true.              *)
(***************************************************************************)
EXTENDS NativeLexer

\* The blocks of the generated scanner: while yylex runs all of them are
\* held, no block is freed twice or read after it was freed (buffer and
\* scanner are taken down by two functions that both free buffers), and no
\* call leaves one behind, whichever way it ends.
HeapSound ==
  /\ ~ heap.misused
  /\ stage = "tokenize" => heap.live = Blocks /\ heap.current = {"yy_buffer"}
  /\ heap.current \subseteq heap.live
  /\ stage \in {"idle", "result"} => heap.live = {}

Service == INSTANCE LexerService WITH
  pending <- IF stage = "idle" THEN << >> ELSE << input >>

\* Seen from PHP a call is atomic, and its answer is a function of its
\* string: the tokens of the lexical grammar by their names, or the first
\* limit that one of them exceeds.  No call sees anything of the last one.
ImplementsLexerService == Service!LexerServiceSpec

\* Every call ends, with an answer.
TokenizeAnswers == stage # "idle" ~> stage = "idle" /\ answer.kind # "none"
================================================================================
