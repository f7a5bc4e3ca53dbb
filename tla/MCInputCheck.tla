----------------------------- MODULE MCInputCheck -----------------------------
(***************************************************************************)
(* Inputs of at most four bytes, chosen at the edges of every rule of the  *)
(* encoding, alone or after a code point of each width.                    *)
(***************************************************************************)
EXTENDS InputCheck

CONSTANT TailBytes  \* the length of the arbitrary tail

\* 'A'; the edges 0x80, 0x8f, 0x90, 0x9f, 0xa0, 0xbf of what may
\* follow 0xe0, 0xed, 0xf0 and 0xf4; leads on both sides of every range.
EdgeBytes == {65, 128, 143, 144, 159, 160, 191, 193, 194, 223, 224, 237,
              239, 240, 244, 245}

Before == { << >>, << 127 >>, << 194, 128 >>, << 237, 159, 191 >>,
            << 240, 144, 128, 128 >> }

EdgeInputs ==
  UNION { [1 .. n -> EdgeBytes] : n \in 0 .. TailBytes }
    \cup { before \o tail : before \in Before,
                            tail \in [1 .. TailBytes - 1 -> EdgeBytes] }

ASSUME EdgeInputsAreBytes == EdgeBytes \subseteq Byte
===============================================================================
