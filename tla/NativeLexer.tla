----------------------------- MODULE NativeLexer -----------------------------
(***************************************************************************)
(* The PHP method NativeLexer::tokenize (src/src/parser/native_lexer.c):   *)
(* one call after the other checks the input, sets up the scanner, calls   *)
(* yylex until it has no more token, takes the scanner down and answers    *)
(* with an array or an exception.  Composes Scanner with the call around   *)
(* it and with the heap blocks of the generated scanner.                   *)
(***************************************************************************)
EXTENDS Scanner

CONSTANT Strings  \* what PHP passes, inputs over the limit included

ASSUME StringsAssumption ==
  /\ Strings \subseteq Seq(Byte)
  /\ {string \in Strings : ~ IsOversize(Len(string))} \subseteq Inputs

VARIABLES
  stage,   \* where the method is
  heap,    \* the scanner's blocks, see Heap
  array,   \* return_value
  answer   \* what the last call returned or threw

lexerVars == << stage, heap, array, answer >>
allLexerVars == << scannerVars, lexerVars >>

LexerStages == {"idle", "checking", "lex_init", "scan_bytes", "tokenize",
                "lex_destroy", "result"}

(***************************************************************************)
(* The heap: struct yyguts_t, the buffer stack (one slot), the buffer and  *)
(* its bytes.  `current' is what YY_CURRENT_BUFFER points to, `misused'    *)
(* records that a block was freed or read when it was not live.            *)
(***************************************************************************)
Blocks == {"yyguts", "buffer_stack", "yy_buffer", "yy_ch_buf"}

EmptyHeap == [live |-> {}, current |-> {}, misused |-> FALSE]

Alloc(blocks, in) == [in EXCEPT !.live = @ \cup blocks]

Free(blocks, in) ==
  [in EXCEPT !.live = @ \ blocks,
             !.misused = @ \/ ~ (blocks \subseteq in.live)]

\* yylex_init_extra: yy_init_globals leaves the buffer stack unallocated.
InitExtra(in) == Alloc({"yyguts"}, in)

\* The stack is made when the first buffer is: one slot is all there is.
EnsureBufferStack(in) == Alloc({"buffer_stack"}, in)

SwitchToBuffer(in) == [EnsureBufferStack(in) EXCEPT !.current = {"yy_buffer"}]

ScanBuffer(in) == SwitchToBuffer(Alloc({"yy_buffer"}, in))

ScanBytesOf(in) == ScanBuffer(Alloc({"yy_ch_buf"}, in))

\* yy_delete_buffer: the buffer is the current one and owns its bytes.
FaultyDeleteBuffer(in) == Free({"yy_ch_buf", "yy_buffer"}, in)
DeleteBuffer(in) ==
  [Free({"yy_ch_buf", "yy_buffer"}, in) EXCEPT !.current = {}]

\* yylex_destroy: every buffer that is still current, the stack if there is
\* one (yyfree accepts NULL), and the scanner itself.
LexDestroy(in) ==
  LET popped == IF in.current # {} THEN DeleteBuffer(in) ELSE in
  IN  Free({"yyguts"}, Free(popped.live \cap {"buffer_stack"}, popped))

(***************************************************************************)
(* The names PHP sees.                                                     *)
(***************************************************************************)
yumemi_lexer_token_name(type) ==
  CASE type = T_INTEGER -> "integer"
    [] type = T_SUPERSCRIPT_INTEGER -> "superscript-integer"
    [] type = T_INVALID_SUPERSCRIPT -> "invalid-superscript"
    [] type = T_FLOAT -> "decimal-number"
    [] type = T_DOT -> "dot"
    [] type = T_MUL -> "mul"
    [] type = T_DIV -> "div"
    [] type = T_POW -> "pow"
    [] type = T_SUB -> "sub"
    [] type = T_ADD -> "add"
    [] type = T_IDENTIFIER -> "identifier"
    [] type = T_LEFT_PAREN -> "left-paren"
    [] type = T_RIGHT_PAREN -> "right-paren"
    [] type = T_AT -> "at"
    [] type = T_INVALID_NUMBER -> "invalid-number"
    [] OTHER -> "unknown"

yumemi_lexer_limit_name(limit) ==
  CASE limit = "input_bytes" -> "input-bytes"
    [] limit = "token_count" -> "token-count"
    [] limit = "nesting_depth" -> "nesting-depth"
    [] limit = "token_bytes" -> "token-bytes"
    [] OTHER -> "unknown"

\* yumemi_lexer_throw_limit.
ThrownLimit(error) ==
  [kind |-> "limit", limit |-> yumemi_lexer_limit_name(error.category),
   maximum |-> error.limit, observed |-> error.observed,
   start |-> error.location.start, end |-> error.location.end]

\* The element of the array for what yylex returned: the text is read from
\* the buffer, where yytext points to, by its length: it may hold NULs.
FaultyTokenData ==
  LET token == tokens[Len(tokens)]
      bytes == {n \in 0 .. leng : \A i \in 1 .. n : yytext[i] # 0}
  IN  [type |-> yumemi_lexer_token_name(token.type),
       text |-> SubSeq(yytext, 1, CHOOSE n \in bytes : \A m \in bytes : m <= n),
       start |-> token.start, end |-> token.end]

TokenData ==
  LET token == tokens[Len(tokens)]
  IN  [type |-> yumemi_lexer_token_name(token.type), text |-> yytext,
       start |-> token.start, end |-> token.end]

(***************************************************************************)
(* What the scanner's variables are before yylex runs for the first time.  *)
(***************************************************************************)
FreshScanner(bytes) ==
  /\ input' = bytes
  /\ ch_buf' = bytes \o << YY_END_OF_BUFFER_CHAR, YY_END_OF_BUFFER_CHAR >>
  /\ yy_init' = FALSE /\ yy_start' = 0
  /\ c_buf_p' = 0 /\ text_ptr' = 0 /\ leng' = 0
  /\ hold_char' = ch_buf'[1]
  /\ last_state' = 0 /\ last_cpos' = 0 /\ bp' = 0 /\ cp' = 0 /\ state' = 0
  /\ ctx' = ContextInit(Len(bytes))
  /\ pc' = "caller"
  /\ tokens' = << >>
  /\ outcome' = "open"

\* The method is left: its locals and the scanner are gone.
Answer(result) ==
  /\ stage' = "idle"
  /\ answer' = result
  /\ array' = << >>
  /\ FreshScanner(<< >>)

\* yumemi_lexer_context_init.
Call(string) ==
  /\ stage = "idle"
  /\ stage' = "checking"
  /\ answer' = [kind |-> "none"]
  /\ FreshScanner(string)
  /\ UNCHANGED << heap, array >>

RefuseString ==
  /\ stage = "checking"
  /\ ~ InLimits(ctx)
  /\ Answer(ThrownLimit(ctx.error))
  /\ UNCHANGED heap

AcceptString ==
  /\ stage = "checking"
  /\ InLimits(ctx)
  /\ stage' = "lex_init"
  /\ UNCHANGED << heap, array, answer, scannerVars >>

InitScanner ==
  /\ stage = "lex_init"
  /\ stage' = "scan_bytes"
  /\ heap' = InitExtra(heap)
  /\ UNCHANGED << array, answer, scannerVars >>

FailScanner ==
  /\ stage = "lex_init"
  /\ Answer([kind |-> "runtime"])
  /\ UNCHANGED heap

ScanBytes ==
  /\ stage = "scan_bytes"
  /\ stage' = "tokenize"
  /\ heap' = ScanBytesOf(heap)
  /\ array' = << >>
  /\ UNCHANGED << answer, scannerVars >>

\* The method is prepared for a yumemi__scan_bytes that returns NULL, which
\* leaves a scanner without a buffer.
FailBuffer ==
  /\ stage = "scan_bytes"
  /\ heap' = LexDestroy(heap)
  /\ Answer([kind |-> "runtime"])

(***************************************************************************)
(* The loop: yylex, and an element of the array for every token it         *)
(* returned.  A scanner that was taken down is not read.                   *)
(***************************************************************************)
Pending == pc = "caller" /\ Len(array) < Len(tokens)

ReadsHeap == heap' = [heap EXCEPT !.misused = @ \/ heap.live # Blocks]

CallYylex ==
  /\ stage = "tokenize"
  /\ ~ Pending
  /\ outcome = "open"
  /\ FirstCall \/ CallAgain
  /\ ReadsHeap
  /\ UNCHANGED << stage, array, answer >>

RunYylex ==
  /\ stage = "tokenize"
  /\ Scan
  /\ ReadsHeap
  /\ UNCHANGED << stage, array, answer >>

AddToken ==
  /\ stage = "tokenize"
  /\ Pending
  /\ array' = Append(array, TokenData)
  /\ ReadsHeap
  /\ UNCHANGED << stage, answer, scannerVars >>

\* T_EOF or T_error: yumemi__delete_buffer, then yumemi_lex_destroy.
EndLoop ==
  /\ stage = "tokenize"
  /\ pc = "caller"
  /\ ~ Pending
  /\ outcome # "open"
  /\ stage' = "lex_destroy"
  /\ heap' = DeleteBuffer(heap)
  /\ UNCHANGED << array, answer, scannerVars >>

DestroyScanner ==
  /\ stage = "lex_destroy"
  /\ stage' = "result"
  /\ heap' = LexDestroy(heap)
  /\ UNCHANGED << array, answer, scannerVars >>

\* The context is the method's own: it outlives the scanner.
ThrowLimit ==
  /\ stage = "result"
  /\ outcome = "limit"
  /\ Answer(ThrownLimit(ctx.error))
  /\ UNCHANGED heap

ReturnArray ==
  /\ stage = "result"
  /\ outcome = "eof"
  /\ Answer([kind |-> "tokens", array |-> array])
  /\ UNCHANGED heap

LexerInit ==
  /\ input = << >>
  /\ ch_buf = << YY_END_OF_BUFFER_CHAR, YY_END_OF_BUFFER_CHAR >>
  /\ yy_init = FALSE /\ yy_start = 0
  /\ c_buf_p = 0 /\ text_ptr = 0 /\ leng = 0
  /\ hold_char = YY_END_OF_BUFFER_CHAR
  /\ last_state = 0 /\ last_cpos = 0 /\ bp = 0 /\ cp = 0 /\ state = 0
  /\ ctx = EmptyContext
  /\ pc = "caller" /\ tokens = << >> /\ outcome = "open"
  /\ stage = "idle"
  /\ heap = EmptyHeap
  /\ array = << >>
  /\ answer = [kind |-> "none"]

Tokenize ==
  \/ RefuseString \/ AcceptString
  \/ InitScanner \/ FailScanner \/ ScanBytes \/ FailBuffer
  \/ CallYylex \/ RunYylex \/ AddToken \/ EndLoop
  \/ DestroyScanner \/ ThrowLimit \/ ReturnArray

LexerSpec ==
  LexerInit /\ [][Tokenize \/ \E string \in Strings : Call(string)]_allLexerVars

\* PHP runs a method to its end.
FairLexerSpec == LexerSpec /\ WF_allLexerVars(Tokenize)
===============================================================================
