---------------------------- MODULE ParserService ----------------------------
(***************************************************************************)
(* What NativeParser::parse promises a caller: a call takes an input and   *)
(* ends with exactly one outcome that is about that input alone.  Nothing  *)
(* of one call is left for the next.                                       *)
(***************************************************************************)
EXTENDS ParseContext

CONSTANT InputLengths  \* the lengths of the inputs callers pass

VARIABLES
  busy,     \* the length of the input being parsed, -1 if none
  answer    \* the outcome of the last call, the call before it forgotten

serviceVars == << busy, answer >>

NoOutcome == [kind |-> "none"]

Inside(loc, length) == loc.start <= loc.end /\ loc.end <= length

\* The limit of each category that can be exceeded while scanning.
LimitOf == [token_count   |-> TokenCountLimit,
            nesting_depth |-> NestingDepthLimit,
            token_bytes   |-> TokenBytesLimit]

(***************************************************************************)
(* A limit is reported with the value that exceeded it, at the lexeme that *)
(* did: the counts are one too many, a lexeme is as long as observed.      *)
(***************************************************************************)
IsLimitOf(err, length) ==
  IF length > InputBytesLimit
  THEN err = Exceeded("input_bytes", InputBytesLimit, length,
                      [start |-> 0, end |-> length])
  ELSE /\ err.category \in DOMAIN LimitOf
       /\ err.limit = LimitOf[err.category]
       /\ err.observed = IF err.category = "token_bytes"
                         THEN err.location.end - err.location.start
                         ELSE err.limit + 1
       /\ err.observed > err.limit
       /\ Inside(err.location, length)
       /\ err.location.start < err.location.end

\* A syntax error names a token and what could have stood in its place.
IsSyntaxErrorOf(err, length) ==
  /\ length <= InputBytesLimit
  /\ err.message = "syntax_error"
  /\ Inside(err.location, length)
  /\ err.unexpected = YYEOF => err.location = [start |-> length, end |-> length]
  /\ err.unexpected \notin err.expected \cup {YYEMPTY}
  /\ err.expected # {}

\* A tree has a span, a part of the input that is not empty.
IsTreeOf(tree, length) ==
  /\ length <= InputBytesLimit
  /\ tree.has_location
  /\ Inside(tree.location, length)
  /\ tree.location.start < tree.location.end

IsOutcomeOf(result, length) ==
  CASE result.kind = "limit"   -> IsLimitOf(result.error, length)
    [] result.kind = "syntax"  -> IsSyntaxErrorOf(result.error, length)
    [] result.kind = "tree"    -> IsTreeOf(result.tree, length)
    [] result.kind = "runtime" -> length <= InputBytesLimit
    [] OTHER                   -> FALSE

ServiceInit == busy = -1 /\ answer = NoOutcome

Invoke(length) ==
  /\ busy = -1
  /\ busy' = length
  /\ answer' = NoOutcome

Respond ==
  /\ busy # -1
  /\ busy' = -1
  /\ IsOutcomeOf(answer', busy)

ServiceNext == Respond \/ \E length \in InputLengths : Invoke(length)

ServiceSpec ==
  /\ ServiceInit
  /\ [][ServiceNext]_serviceVars
=============================================================================
