---------------------------- MODULE MCAsciiReader ----------------------------
(***************************************************************************)
(* Documents for AsciiReader: all short ones, those with comments a little *)
(* longer, and those that are one edit away from one in which everything   *)
(* occurs.                                                                 *)
(***************************************************************************)
EXTENDS AsciiReader

CONSTANTS MaxLength, MaxComment   (* bounds on the length of the documents *)

Upto(set, n) == UNION { [1..k -> set] : k \in 0..n }

Short == Upto({"(", "}", ")", ";", "=", " ", "\n", "/", "\"", "\\", "a", "0", NotAscii},
              MaxLength)

Comments == { <<"/">> \o c : c \in Upto({"/", "*", "a", "\n"}, MaxComment) }

Rich ==
  <<"{", "a", " ", "=", "\"", "\\", "n", "'", "\\", "2", "0", "0", "\\", "\"", NotAscii, "\"", ";",
    "'", "\\", "U", "0", "0", "8", "0", "\\", "U", "D", "8", "3", "D", "\\", "u", "D", "C", "A", "9",
    "a", "'", "=", "(", "1", "2", ",", "/", "*", "a", "*", "/", "a", "/", "b", ")", "/", "/", "}">>

Edits == {"\"", "'", "\\", "U", "u", "0", "9", "D", "x", "/", "*", " ", "\n", ")", NotAscii}
Edited ==
  LET before(i) == SubSeq(Rich, 1, i - 1)
      after(i) == SubSeq(Rich, i + 1, Len(Rich))
  IN  UNION { { before(i) \o edit \o after(i) :
                  edit \in {<<>>, <<Rich[i], Rich[i]>>} \cup { <<c>> : c \in Edits } } :
              i \in 1..Len(Rich) }

MCFaultyDocuments == {Rich} \cup Upto({"(", " ", "/", "*", "\"", "a"}, MaxLength - 1)
MCDocuments == Short \cup Comments \cup Edited \cup MCFaultyDocuments

=============================================================================
