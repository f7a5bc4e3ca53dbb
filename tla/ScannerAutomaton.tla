--------------------------- MODULE ScannerAutomaton ---------------------------
(***************************************************************************)
(* Closed facts about the automaton of ScannerTables that the scanner      *)
(* relies on without checking any of them at run time.  Everything here is *)
(* a constant: TLC decides the assumption AutomatonIsSound, and the proofs *)
(* cite it.                                                                *)
(***************************************************************************)
EXTENDS ScannerTables, Classifier

StartStates == {StartState(INITIAL), StartState(INVALID_UTF8)}

\* The states a byte leads to.
Behind == 5 .. JamState

EndState == 5             \* behind the NUL that ends the buffer
ChunkRule == 3
NumberRule == 4
Digits == 11              \* the class of 0 .. 9
HighBytes == 16           \* the class of the bytes that are not ASCII

\* A byte outside of ASCII goes on with a chunk, and so does a digit.
GoesOn == {Digits, HighBytes}

\* The states that are only reached when the lexeme starts with a digit.
BehindDigit == {16, 25, 26, 27, 32, 33, 34}

\* The tables are never indexed out of their bounds, and every state has an
\* action the generated code knows.
TablesAreTotal ==
  /\ \A byte \in 0 .. 255 : yy_ec[byte] \in Classes
  /\ \A s \in ScannerStates, c \in Classes : yy_transition[s, c] \in Behind
  /\ \A s \in ScannerStates : yy_accept[s] \in 0 .. 15 \cup {YY_END_OF_BUFFER}

\* Whatever the first byte is, some rule matches it.
EveryByteIsMatched ==
  /\ StartStates \subseteq ScannerStates
  /\ \A s \in StartStates : yy_accept[s] = 0
  /\ \A s \in StartStates, c \in Classes :
       /\ yy_transition[s, c] # JamState
       /\ yy_accept[yy_transition[s, c]] # 0

\* The NUL that ends the buffer stops every match, and nothing else does it
\* that way.
BufferEndStops ==
  /\ \A byte \in 0 .. 255 : yy_ec[byte] = 0 <=> byte = YY_END_OF_BUFFER_CHAR
  /\ \A s \in ScannerStates : yy_transition[s, 0] \in {EndState, JamState}
  /\ \A s \in ScannerStates, c \in Classes :
       yy_transition[s, c] = EndState => c = 0
  /\ \A c \in Classes : yy_transition[EndState, c] = JamState
  /\ yy_accept[JamState] = 0
  /\ \A s \in ScannerStates : yy_accept[s] = YY_END_OF_BUFFER <=> s = EndState

\* A number or a chunk takes every digit and every byte outside of ASCII
\* that follows it.
NumbersAreGreedy ==
  \A s \in Behind, c \in GoesOn :
    yy_accept[s] \in {ChunkRule, NumberRule} =>
      yy_accept[yy_transition[s, c]] # 0

\* What the number rule matches starts with a digit.
NumbersStartWithDigits ==
  /\ \A s \in ScannerStates : yy_accept[s] = NumberRule => s \in BehindDigit
  /\ \A s \in ScannerStates, c \in Classes :
       yy_transition[s, c] \in BehindDigit =>
         s \in BehindDigit \/ (s \notin Behind /\ c = Digits)

\* The class of a byte tells digits and bytes outside of ASCII apart, and the
\* tables of code points know the same digits.
ClassesOfBytes ==
  /\ \A byte \in 0 .. 255 :
       /\ yy_ec[byte] = Digits <=> byte \in 48 .. 57
       /\ yy_ec[byte] = HighBytes <=> byte >= 128
  /\ \A byte \in 0 .. 127 : IsDecimalDigit(byte) <=> byte \in 48 .. 57

AutomatonSound ==
  /\ TablesAreTotal
  /\ EveryByteIsMatched
  /\ BufferEndStops
  /\ NumbersAreGreedy
  /\ NumbersStartWithDigits
  /\ ClassesOfBytes

ASSUME AutomatonIsSound == AutomatonSound
===============================================================================
