------------------------------ MODULE XmlReader ------------------------------
(***************************************************************************)
(* stream/xml_reader.rs: an iterator that turns the events of the XML      *)
(* parser (quick-xml, configured not to trim text, to check end names and  *)
(* to expand empty elements) into plist events.                            *)
(*                                                                         *)
(* A document is a sequence of tokens [kind, name].  One action is one     *)
(* iteration of the loop in read_next or in read_content, which takes one  *)
(* event from the parser; a call of next is a run of them that ends in a   *)
(* value of `returned` other than "reading".                               *)
(***************************************************************************)
EXTENDS Integers, Sequences, SequencesExt

CONSTANTS
  Documents,    (* the documents that may be read                          *)
  Booleans,     (* the names of elements that are a boolean                *)
  Parsable      (* the texts that parse as what their element holds        *)

VARIABLES
  document,     (* the tokens of the document                              *)
  at,           (* the parser: the next token                              *)
  opened,       (* the parser: the names of the elements open              *)
  started, finished,
  element,      (* the element whose content is read, "none" at top level  *)
  content,      (* the texts read_content has collected                    *)
  events,       (* history: the events delivered                           *)
  returned      (* "reading", or what next has just returned               *)

parser == <<document, at, opened>>
vars == <<parser, started, finished, element, content, events, returned>>

Event(k, a) == [kind |-> k, arg |-> a]

(***************************************************************************)
(* The XML parser (external).  CData, comments and processing instructions *)
(* are "other", what is not XML or cannot be read is "malformed".          *)
(***************************************************************************)
EndOfFile == [kind |-> "eof", name |-> "none"]
Peek == IF at > Len(document) THEN EndOfFile ELSE document[at]

(* Mutant: end names are not checked. *)
Mismatched_Never(t) == FALSE

(* check_end_names: an end tag that does not close the last open element.   *)
Mismatched(t) == t.kind = "end" /\ ~(opened # <<>> /\ Last(opened) = t.name)

Erroneous(t) == t.kind = "malformed" \/ Mismatched(t)

(* read_xml_event: the parser moves past the token t, never past the end.   *)
Advance(t) ==
  /\ at' = IF t.kind = "eof" THEN at ELSE at + 1
  /\ opened' = CASE t.kind = "start" -> Append(opened, t.name)
                 [] t.kind = "end" -> IF opened = <<>> THEN opened ELSE Front(opened)
                 [] t.kind \in {"text", "decl", "other", "malformed", "eof"} -> opened
  /\ UNCHANGED document

(***************************************************************************)
(* The outcomes of an iteration.                                           *)
(***************************************************************************)
(* The loop goes on. *)
Skip ==
  /\ returned' = "reading"
  /\ UNCHANGED <<started, finished, element, content, events>>

(* next returns the event e. *)
Deliver(e) ==
  /\ started' = TRUE
  /\ events' = Append(events, e)
  /\ returned' = "event"
  /\ element' = "none" /\ content' = <<>>
  /\ UNCHANGED finished

(* next returns an error, the last thing it does. *)
Fail ==
  /\ finished' = TRUE
  /\ returned' = "error"
  /\ element' = "none" /\ content' = <<>>
  /\ UNCHANGED <<started, events>>

(***************************************************************************)
(* read_next.                                                              *)
(***************************************************************************)
AtTop(kinds) ==
  /\ ~finished /\ element = "none"
  /\ Peek.kind \in kinds /\ ~Mismatched(Peek)
  /\ Advance(Peek)

ReadError ==
  /\ ~finished
  /\ Erroneous(Peek)
  /\ Advance(Peek)
  /\ Fail

Declaration ==
  /\ AtTop({"decl"})
  /\ started' = TRUE
  /\ returned' = "reading"
  /\ UNCHANGED <<finished, element, content, events>>

StartElement ==
  /\ AtTop({"start"})
  /\ LET name == Peek.name IN
     CASE name = "plist" -> Skip
       [] name \in {"array", "dict"} -> Deliver(Event(name, <<>>))
       [] name \in Booleans -> Deliver(Event("value", <<name>>))
       [] name \in {"key", "string", "data", "text"} ->
            /\ element' = name
            /\ returned' = "reading"
            /\ UNCHANGED <<started, finished, content, events>>
       [] OTHER -> Fail

(* The end of an element other than a collection says nothing. *)
EndElement ==
  /\ AtTop({"end"})
  /\ IF Peek.name \in {"array", "dict"} THEN Deliver(Event("end", <<>>)) ELSE Skip

(* Between elements there is only white space, literal or by reference.     *)
TextBetween ==
  /\ AtTop({"text"})
  /\ IF Peek.name = "space" THEN Skip ELSE Fail

OtherBetween == AtTop({"other"}) /\ Skip

(* Mutant: the end of the file is read again and again. *)
EndOfDocument_NotFinished ==
  /\ AtTop({"eof"})
  /\ started' = TRUE
  /\ returned' = "none"
  /\ UNCHANGED <<finished, element, content, events>>

(* At the end of the file it does not matter what is open. *)
EndOfDocument ==
  /\ AtTop({"eof"})
  /\ started' = TRUE
  /\ finished' = TRUE
  /\ returned' = "none"
  /\ UNCHANGED <<element, content, events>>

(***************************************************************************)
(* read_content, and what its caller makes of the text.                    *)
(***************************************************************************)
Within(kinds) ==
  /\ ~finished /\ element # "none"
  /\ Peek.kind \in kinds /\ ~Mismatched(Peek)
  /\ Advance(Peek)

ContentText ==
  /\ Within({"text"})
  /\ content' = Append(content, Peek.name)
  /\ UNCHANGED <<started, finished, element, events, returned>>

ContentOther ==
  /\ Within({"other", "decl"})
  /\ UNCHANGED <<started, finished, element, content, events, returned>>

(* An element, or the end of the file, within a value. *)
ContentBroken == Within({"start", "eof"}) /\ Fail

(* Mutant: the whitespace in data is not stripped. *)
Stripped_AsIs == content

(* The texts other than white space. *)
WithoutSpace(texts) ==
  LET kept[i \in 0..Len(texts)] ==
        IF i = 0 THEN <<>>
        ELSE IF texts[i] = "space" THEN kept[i - 1] ELSE Append(kept[i - 1], texts[i])
  IN  kept[Len(texts)]

Stripped == IF element = "data" THEN WithoutSpace(content) ELSE content

(* Any text is a string, even none; data may be empty, the others may not.  *)
Valid ==
  \/ element \in {"key", "string"}
  \/ /\ \A i \in 1..Len(Stripped) : Stripped[i] \in Parsable
     /\ element = "text" => Stripped # <<>>

EndOfContent ==
  /\ Within({"end"})
  /\ IF Valid THEN Deliver(Event("value", Stripped)) ELSE Fail

(* next after the last one. *)
Finished == finished /\ returned' = "none" /\ UNCHANGED
              <<parser, started, finished, element, content, events>>

Init ==
  /\ document \in Documents
  /\ at = 1 /\ opened = <<>> /\ started = FALSE /\ finished = FALSE
  /\ element = "none" /\ content = <<>> /\ events = <<>> /\ returned = "reading"

Read ==
  \/ ReadError \/ Declaration \/ StartElement \/ EndElement \/ TextBetween
  \/ OtherBetween \/ EndOfDocument
  \/ ContentText \/ ContentOther \/ ContentBroken \/ EndOfContent

Next == Read \/ Finished

Spec == Init /\ [][Next]_vars

(***************************************************************************)
(* Properties.                                                             *)
(***************************************************************************)

(* What is open after the event e, and after the events es.                 *)
After(open, e) ==
  CASE e.kind \in {"array", "dict"} -> Append(open, e.kind)
    [] e.kind = "end" -> IF open = <<>> THEN <<"none">> ELSE Front(open)
    [] e.kind = "value" -> open

OpenCollections(es) ==
  LET open[i \in 0..Len(es)] == IF i = 0 THEN <<>> ELSE After(open[i - 1], es[i])
  IN  open[Len(es)]

(* The collections among the elements with the given names.                 *)
Kept(names, n) == IF n \in {"array", "dict"} THEN Append(names, n) ELSE names

CollectionsAmong(names) ==
  LET kept[i \in 0..Len(names)] == IF i = 0 THEN <<>> ELSE Kept(kept[i - 1], names[i])
  IN  kept[Len(names)]

(* The collections that the events leave open are those whose elements the  *)
(* document has open: no EndCollection comes unmatched, none is lost, and   *)
(* what is nested in the element of another value is not counted twice.     *)
(* Of the consumers, Value and the binary writer check this themselves, the *)
(* Deserializer relies on it.                                               *)
EventsMatchElements ==
  ~finished => OpenCollections(events) = CollectionsAmong(opened)

=============================================================================
