---------------------------- MODULE MCStreamReader ----------------------------
(***************************************************************************)
(* Documents for StreamReader in each of the three encodings, and what     *)
(* they say: whole ones, and ones that are broken before or after their    *)
(* first event.  What a document looks like to the readers of the other    *)
(* encodings matters where one of them is tried on it.                     *)
(***************************************************************************)
EXTENDS StreamReader

CONSTANTS MaxLength,   (* bound on the characters of the ASCII documents     *)
          v, true      (* a text and a boolean                               *)

G == INSTANCE AsciiGrammar

MCBooleans == {true}
MCParsable == {v}

Token(k, n) == [kind |-> k, name |-> n]
Empty(header) ==
  [header |-> header, root |-> 0, faulty |-> FALSE,
   objects |-> [r \in 0..(NumObjects - 1) |-> [kind |-> "value", refs |-> <<>>]]]
NotBinary == Empty("bad_before_ref_size")

(* Binary documents are neither XML nor ASCII. *)
Binary(f, es, whole) ==
  [format |-> "binary", short |-> FALSE, file |-> f, tokens |-> <<Token("malformed", "none")>>,
   chars |-> [k \in 1..8 |-> G!NotAscii], events |-> es, whole |-> whole]
Root(o) == [Empty("good") EXCEPT !.objects[0] = o]
BinaryEvent(k, a) == [kind |-> k, arg |-> a]
BinaryDocuments ==
  { Binary(Empty("good"), <<BinaryEvent("value", 0)>>, TRUE),
    Binary(Root([kind |-> "array", refs |-> <<1, 1>>]),
           <<BinaryEvent("array", 2), BinaryEvent("value", 1), BinaryEvent("value", 1),
             BinaryEvent("end", 0)>>, TRUE),
    Binary(Root([kind |-> "dict", refs |-> <<1, 0>>]),
           <<BinaryEvent("dict", 1), BinaryEvent("value", 1)>>, FALSE),
    Binary(Empty("bad_after_ref_size"), <<>>, FALSE) }

(* XML, with and without a declaration; to the ASCII reader a string.        *)
Xml(tokens, es, whole) ==
  [format |-> "xml", short |-> FALSE, file |-> NotBinary, tokens |-> tokens,
   chars |-> <<"<", "p", "l", "i", "s", "t", ">", " ">>, events |-> es, whole |-> whole]
XmlEvent(k, a) == [kind |-> k, arg |-> a]
Declaration == <<Token("decl", "xml")>>
Element(n, within) == <<Token("start", n)>> \o within \o <<Token("end", n)>>
Array == Element("array", <<Token("text", "space")>> \o Element(true, <<>>))
Bodies ==
  { [tokens |-> Array, whole |-> TRUE,
     events |-> <<XmlEvent("array", <<>>), XmlEvent("value", <<true>>), XmlEvent("end", <<>>)>>],
    [tokens |-> Element("string", <<Token("text", v)>>), whole |-> TRUE,
     events |-> <<XmlEvent("value", <<v>>)>>],
    [tokens |-> <<>>, whole |-> TRUE, events |-> <<>>],
    [tokens |-> SubSeq(Array, 1, 2) \o <<Token("malformed", "none")>>, whole |-> FALSE,
     events |-> <<XmlEvent("array", <<>>)>>] }
(* A document that is broken before its first event shows that it is XML by  *)
(* its declaration alone.                                                    *)
XmlDocuments ==
  { Xml(before \o Element("plist", body.tokens), body.events, body.whole) :
      before \in {<<>>, Declaration}, body \in Bodies }
    \cup { Xml(Declaration \o <<Token("start", "plist"), Token("start", "unknown")>>, <<>>, FALSE) }

(* ASCII; to the XML reader text, which it rejects unless it is white space.  *)
Ascii(cs) ==
  LET tokens == G!Lexed(cs).tokens
      whole == ~Contains(tokens, G!Error)
  IN  [format |-> "ascii", short |-> Len(cs) < 8, file |-> NotBinary,
       tokens |-> <<Token("text", IF ToSet(cs) \subseteq G!White THEN "space" ELSE v)>>,
       chars |-> cs, events |-> IF whole THEN tokens ELSE Front(tokens),
       whole |-> whole /\ Len(cs) >= 8]
Padding == [k \in 1..8 |-> " "]
AsciiDocuments ==
  LET texts == UNION { [1..n -> {"(", "a", " ", "\"", "\\"}] : n \in 0..MaxLength }
  IN  { Ascii(text) : text \in texts } \cup { Ascii(text \o Padding) : text \in texts }

MCInputs == BinaryDocuments \cup XmlDocuments \cup AsciiDocuments

=============================================================================
