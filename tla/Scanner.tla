------------------------------- MODULE Scanner -------------------------------
(***************************************************************************)
(* yylex (src/src/parser/scanner.c): the automaton runs over the buffer,   *)
(* byte by byte, and the rules of src/src/parser/scanner.l turn what it    *)
(* matched into tokens.  The text of a token is a pointer into the buffer, *)
(* ended by a NUL that is written over the byte behind it: that byte waits *)
(* in yy_hold_char, and whatever happens next has to put it back first.    *)
(*                                                                         *)
(* Offsets into the buffer stand for the pointers.  The buffer holds the   *)
(* whole input (yy_fill_buffer is 0), so yy_n_chars never changes and      *)
(* yy_buffer_status decides nothing.                                       *)
(***************************************************************************)
EXTENDS ScannerTables, Classifier, LexerContext

CONSTANT Inputs  \* what callers pass: inputs over the limit are not scanned

ASSUME InputsAssumption ==
  Inputs \subseteq {bytes \in Seq(Byte) : ~ IsOversize(Len(bytes))}

VARIABLES
  input,      \* the string the caller passed
  ch_buf,     \* yy_ch_buf: a copy of it, and two end-of-buffer NULs
  yy_init,    \* whether yylex was called before
  yy_start,   \* the start state
  c_buf_p,    \* yy_c_buf_p: where yylex goes on
  text_ptr,   \* yytext_ptr
  leng,       \* yyleng
  hold_char,  \* yy_hold_char: the byte under the NUL at c_buf_p
  last_state, \* yy_last_accepting_state
  last_cpos,  \* yy_last_accepting_cpos
  bp,         \* yy_bp, a local of yylex
  cp,         \* yy_cp, a local of yylex
  state,      \* yy_current_state, a local of yylex
  ctx,        \* the lexer context
  pc,         \* where yylex is; "caller" between two calls
  tokens,     \* what was returned so far
  outcome     \* "open", "eof" or "limit": how the last call ended

flexVars  == << yy_init, yy_start, c_buf_p, text_ptr, leng, hold_char >>
matchVars == << last_state, last_cpos, bp, cp, state >>
scannerVars == << input, ch_buf, flexVars, matchVars, ctx, pc, tokens, outcome >>

n_chars == Len(input)

\* yy_scan_bytes and yylex_init_extra.
ScannerInit ==
  /\ input \in Inputs
  /\ ch_buf = input \o << YY_END_OF_BUFFER_CHAR, YY_END_OF_BUFFER_CHAR >>
  /\ yy_init = FALSE /\ yy_start = 0
  /\ c_buf_p = 0 /\ text_ptr = 0 /\ leng = 0
  /\ hold_char = ch_buf[1]
  /\ last_state = 0 /\ last_cpos = 0 /\ bp = 0 /\ cp = 0 /\ state = 0
  /\ ctx = ContextInit(Len(input))
  /\ pc = "caller"
  /\ tokens = << >>
  /\ outcome = "open"

Put(buffer, offset, byte) == [buffer EXCEPT ![offset + 1] = byte]

yytext == SubSeq(ch_buf, text_ptr + 1, text_ptr + leng)

(***************************************************************************)
(* A call.  The first one chooses the start state (YY_USER_INIT) and loads *)
(* the buffer.  No caller goes on after a limit was exceeded.              *)
(***************************************************************************)
FirstCall ==
  /\ pc = "caller"
  /\ ~ yy_init
  /\ yy_init' = TRUE
  /\ yy_start' = StartState(IF DecodesWhole(input) THEN INITIAL ELSE INVALID_UTF8)
  /\ c_buf_p' = 0 /\ text_ptr' = 0
  /\ hold_char' = ch_buf[1]
  /\ pc' = "begin"
  /\ UNCHANGED << input, ch_buf, leng, matchVars, ctx, tokens, outcome >>

CallAgain ==
  /\ pc = "caller"
  /\ yy_init
  /\ outcome # "limit"
  /\ pc' = "begin"
  /\ UNCHANGED << input, ch_buf, flexVars, matchVars, ctx, tokens, outcome >>

(***************************************************************************)
(* The match.  last_state and last_cpos remember the last state that       *)
(* accepts and what was matched by then.                                   *)
(***************************************************************************)
FaultyBegin ==
  /\ pc = "begin"
  /\ cp' = c_buf_p /\ bp' = c_buf_p
  /\ state' = yy_start
  /\ pc' = "match"
  /\ UNCHANGED << input, ch_buf, flexVars, last_state, last_cpos, ctx, tokens,
                  outcome >>

Begin ==
  /\ pc = "begin"
  /\ ch_buf' = Put(ch_buf, c_buf_p, hold_char)
  /\ cp' = c_buf_p /\ bp' = c_buf_p
  /\ state' = yy_start
  /\ pc' = "match"
  /\ UNCHANGED << input, flexVars, last_state, last_cpos, ctx, tokens, outcome >>

FaultyAccepting(at, position) ==
  IF yy_accept[at] \in 1 .. 16 THEN << at, position >>
  ELSE << last_state, last_cpos >>

Accepting(at, position) ==
  IF yy_accept[at] # 0 THEN << at, position >> ELSE << last_state, last_cpos >>

SeenState == yy_transition[state, yy_ec[ch_buf[cp + 1]]]

MatchNext ==
  /\ pc = "match"
  /\ SeenState # JamState
  /\ last_state' = Accepting(state, cp)[1] /\ last_cpos' = Accepting(state, cp)[2]
  /\ cp' = cp + 1
  /\ state' = SeenState
  /\ UNCHANGED << input, ch_buf, flexVars, bp, ctx, pc, tokens, outcome >>

MatchEnd ==
  /\ pc = "match"
  /\ SeenState = JamState
  /\ last_state' = Accepting(state, cp)[1] /\ last_cpos' = Accepting(state, cp)[2]
  /\ cp' = last_cpos'
  /\ state' = last_state'
  /\ pc' = "find"
  /\ UNCHANGED << input, ch_buf, flexVars, bp, ctx, tokens, outcome >>

\* yy_find_action: YY_DO_BEFORE_ACTION sets up yytext.
FindAction ==
  /\ pc = "find"
  /\ text_ptr' = bp
  /\ leng' = cp - bp
  /\ hold_char' = ch_buf[cp + 1]
  /\ ch_buf' = Put(ch_buf, cp, 0)
  /\ c_buf_p' = cp
  /\ pc' = "act"
  /\ UNCHANGED << input, yy_init, yy_start, matchVars, ctx, tokens, outcome >>

yy_act == yy_accept[state]

\* What the action overwrote is back.
Restored == Put(ch_buf, cp, hold_char)

\* case 0: the match went too far, go back to where a rule matched.
BackUp ==
  /\ pc = "act"
  /\ yy_act = 0
  /\ ch_buf' = Restored
  /\ cp' = last_cpos
  /\ state' = last_state
  /\ pc' = "find"
  /\ UNCHANGED << input, flexVars, last_state, last_cpos, bp, ctx, tokens,
                  outcome >>

(***************************************************************************)
(* The rules.  YY_USER_ACTION advances the context by the whole match;     *)
(* YUMEMI_RETURN_TOKEN counts the token and returns it.                    *)
(***************************************************************************)
RuleTypes == << T_IDENTIFIER, T_SKIP, T_SKIP, T_INTEGER, T_IDENTIFIER, T_DOT,
                T_MUL, T_DIV, T_POW, T_SUB, T_ADD, T_LEFT_PAREN, T_RIGHT_PAREN,
                T_AT, T_IDENTIFIER >>

ReturnToken(type, end) ==
  LET start == ctx.offset
      accepted == AcceptToken([ctx EXCEPT !.offset = end], type,
                              [start |-> start, end |-> end])
      token == [type |-> type, start |-> start, end |-> end,
                text |-> SubSeq(ch_buf', text_ptr' + 1, text_ptr' + leng')]
  IN  /\ ctx' = accepted
      /\ tokens' = IF InLimits(accepted) THEN Append(tokens, token) ELSE tokens
      /\ outcome' = IF InLimits(accepted) THEN outcome ELSE "limit"
      /\ pc' = "caller"

SkipBlank ==
  /\ pc = "act"
  /\ yy_act = 2
  /\ ctx' = [ctx EXCEPT !.offset = @ + leng]
  /\ pc' = "begin"
  /\ UNCHANGED << input, ch_buf, flexVars, matchVars, tokens, outcome >>

TakeMatch ==
  /\ pc = "act"
  /\ yy_act \in {1} \cup 4 .. 15
  /\ UNCHANGED << input, ch_buf, flexVars, matchVars >>
  /\ ReturnToken(IF yy_act = 4 THEN ClassifyNumber(yytext).type
                 ELSE RuleTypes[yy_act],
                 ctx.offset + leng)

\* Rule 3: the chunk is cut down to one token by YUMEMI_TRIM_TOKEN.
Trim(cut) ==
  /\ cp' = bp + cut.length
  /\ c_buf_p' = cp'
  /\ text_ptr' = bp
  /\ leng' = cut.length
  /\ hold_char' = Restored[cp' + 1]
  /\ ch_buf' = Put(Restored, cp', 0)
  /\ UNCHANGED << input, yy_init, yy_start, last_state, last_cpos, bp, state >>

\* Where the chunk ends for the context, the discarded bytes given back.
FaultyTrimmedEnd(cut) == ctx.offset + leng
TrimmedEnd(cut) == ctx.offset + leng - (leng - cut.length)

SkipChunk(cut) ==
  /\ cut.type = T_SKIP
  /\ Trim(cut)
  /\ ctx' = [ctx EXCEPT !.offset = TrimmedEnd(cut)]
  /\ pc' = "begin"
  /\ UNCHANGED << tokens, outcome >>

TakeChunk(cut) ==
  /\ cut.type # T_SKIP
  /\ Trim(cut)
  /\ ReturnToken(cut.type, TrimmedEnd(cut))

CutChunk ==
  /\ pc = "act"
  /\ yy_act = 3
  /\ \E cut \in {ClassifyUnicodeChunk(yytext)} : SkipChunk(cut) \/ TakeChunk(cut)

(***************************************************************************)
(* YY_END_OF_BUFFER.  Every state goes to the end-of-buffer state on a NUL *)
(* byte, so c_buf_p is one behind a NUL: one of the text, or the first of  *)
(* the two at the end of the buffer.                                       *)
(***************************************************************************)
AtNul == pc = "act" /\ yy_act = YY_END_OF_BUFFER

IsTextNul == c_buf_p <= n_chars

\* What was matched before the NUL: it ends at text_ptr + amount.
MatchedEnd == text_ptr + (cp - text_ptr - 1)

\* yy_get_previous_state: the automaton again, from text_ptr up to `end'.
PreviousState(end) ==
  LET class(position) ==
        IF Restored[position] # 0 THEN yy_ec[Restored[position]] ELSE NulClass
      run[position \in text_ptr .. end] ==
        IF position = text_ptr
        THEN [state |-> yy_start, last |-> << last_state, last_cpos >>]
        ELSE LET before == run[position - 1]
             IN  [state |-> yy_transition[before.state, class(position)],
                  last  |-> IF yy_accept[before.state] # 0
                            THEN << before.state, position - 1 >>
                            ELSE before.last]
  IN  run[end]

Previous == PreviousState(MatchedEnd)

\* yy_try_NUL_trans.
NulState == yy_transition[Previous.state, NulClass]

NulLast == IF yy_accept[Previous.state] # 0
           THEN << Previous.state, MatchedEnd >> ELSE Previous.last

MatchNul ==
  /\ AtNul /\ IsTextNul
  /\ NulState # JamState
  /\ ch_buf' = Restored
  /\ last_state' = NulLast[1] /\ last_cpos' = NulLast[2]
  /\ c_buf_p' = MatchedEnd + 1
  /\ cp' = MatchedEnd + 1
  /\ bp' = text_ptr
  /\ state' = NulState
  /\ pc' = "match"
  /\ UNCHANGED << input, yy_init, yy_start, text_ptr, leng, hold_char, ctx,
                  tokens, outcome >>

EndBeforeNul ==
  /\ AtNul /\ IsTextNul
  /\ NulState = JamState
  /\ ch_buf' = Restored
  /\ last_state' = NulLast[1] /\ last_cpos' = NulLast[2]
  /\ c_buf_p' = MatchedEnd
  /\ cp' = last_cpos'
  /\ bp' = text_ptr
  /\ state' = last_state'
  /\ pc' = "find"
  /\ UNCHANGED << input, yy_init, yy_start, text_ptr, leng, hold_char, ctx,
                  tokens, outcome >>

\* yy_get_next_buffer reads no more: the end of the file if nothing was
\* matched, else the last match first.
FaultyNothingMatched == c_buf_p - text_ptr = 0
NothingMatched == c_buf_p - text_ptr = 1

EndOfFile ==
  /\ AtNul /\ ~ IsTextNul
  /\ NothingMatched
  /\ ch_buf' = Restored
  /\ c_buf_p' = text_ptr
  /\ outcome' = "eof"
  /\ pc' = "caller"
  /\ UNCHANGED << input, yy_init, yy_start, text_ptr, leng, hold_char,
                  matchVars, ctx, tokens >>

LastMatch ==
  /\ AtNul /\ ~ IsTextNul
  /\ ~ NothingMatched
  /\ ch_buf' = Restored
  /\ last_state' = PreviousState(n_chars).last[1] /\ last_cpos' = PreviousState(n_chars).last[2]
  /\ c_buf_p' = n_chars
  /\ cp' = n_chars
  /\ bp' = text_ptr
  /\ state' = PreviousState(n_chars).state
  /\ pc' = "find"
  /\ UNCHANGED << input, yy_init, yy_start, text_ptr, leng, hold_char, ctx,
                  tokens, outcome >>

Scan ==
  \/ Begin \/ MatchNext \/ MatchEnd \/ FindAction \/ BackUp
  \/ SkipBlank \/ TakeMatch \/ CutChunk
  \/ MatchNul \/ EndBeforeNul \/ EndOfFile \/ LastMatch

\* The calls stop when a limit was exceeded.
Stopped == pc = "caller" /\ outcome = "limit" /\ UNCHANGED scannerVars

ScannerSpec ==
  ScannerInit /\ [][FirstCall \/ CallAgain \/ Scan \/ Stopped]_scannerVars
==============================================================================
