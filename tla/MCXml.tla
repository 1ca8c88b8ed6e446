------------------------------- MODULE MCXml -------------------------------
(***************************************************************************)
(* Documents that no writer wrote: all short ones, and those that are one  *)
(* edit away from a well-formed plist.                                     *)
(***************************************************************************)
EXTENDS XmlRoundTrip

CONSTANTS MaxTokens,   (* bound on the length of the short documents      *)
          i, b         (* a text that parses, and a boolean               *)

Vocabulary ==
  [kind : {"start", "end"}, name : {"array", "dict", "string", "data", "text", b}]
    \cup {Token("start", "unknown"), Token("text", "space"), Token("text", i),
          Token("decl", "xml"), Token("other", "comment"), Token("malformed", "none")}

Short == UNION { [1..n -> Vocabulary] : n \in 0..MaxTokens }

Space == <<Token("text", "space")>>
Text == <<Token("text", i)>>

Plist ==
  <<Token("decl", "xml")>> \o
  Element("plist",
    Space \o Element("dict",
      Element("key", Text) \o Element("array", Element("data", Space \o Text)
                                               \o Element(b, <<>>))
      \o Element("key", <<>>) \o Element("text", Text)))

Edited ==
  LET before(k) == SubSeq(Plist, 1, k - 1)
      after(k) == SubSeq(Plist, k + 1, Len(Plist))
  IN  UNION { { before(k) \o edit \o after(k) :
                  edit \in {<<>>, <<Plist[k], Plist[k]>>} \cup { <<t>> : t \in Vocabulary } } :
              k \in 1..Len(Plist) }

MCDocuments == Short \cup Edited
MCTexts == {i}
MCBooleans == {b}

=============================================================================
