------------------------------ MODULE XmlWriter ------------------------------
(***************************************************************************)
(* stream/xml_writer.rs: the writer turns each call of the Writer trait    *)
(* into the tags it stands for.  A collection is written one call late, so *)
(* that one that is closed at once becomes an empty element.               *)
(*                                                                         *)
(* A call is Submit, then at most one action for the collection that the   *)
(* call before left pending, then the action for the call itself.  The     *)
(* client stops at the first error, as Value and Serializer do.            *)
(***************************************************************************)
EXTENDS Integers, Sequences, SequencesExt

CONSTANTS
  Strings, Datas, Texts, Booleans, Uids,
                    (* the values that may be written: strings, data,      *)
                    (* values with one text form (dates, integers, reals), *)
                    (* booleans, uids                                      *)
  FaultyIO,         (* TRUE when the output may fail                       *)
  EmptyKeys,        (* TRUE when the client may open and close at once a   *)
                    (* collection where a key is due                       *)
  MaxCalls          (* bound on the calls of a behaviour                   *)

ASSUME SwitchAssumption == FaultyIO \in BOOLEAN /\ EmptyKeys \in BOOLEAN
ASSUME MaxCallsAssumption == MaxCalls \in Nat

(* A boolean is an element of its own name, <true/> or <false/>.            *)
ASSUME BooleansAssumption ==
  Booleans \cap {"plist", "array", "dict", "key", "string", "data", "text"} = {}

(* White space is not the text of data. *)
ASSUME DatasAssumption == "space" \notin Datas

Values == Strings \cup Datas \cup Texts \cup Booleans \cup Uids
Calls == [kind : {"value"}, arg : Values] \cup [kind : {"array", "dict", "end"}, arg : {0}]

VARIABLES
  write_root_element,  (* the option of the same name                       *)
  started_plist,
  stack,               (* the elements open, "array" or "dict"              *)
  expecting_key,
  pending_collection,  (* "none", or the collection whose tag is still due  *)
  output,              (* the XML tokens written                            *)
  request,             (* the call under way, NoCall between calls          *)
  taken,               (* the pending collection an "end" has just taken    *)
  call, verdict,       (* the last call carried out, what became of it      *)
  input, calls         (* history: the calls carried out; their number      *)

state == <<started_plist, stack, expecting_key, output>>
vars == <<write_root_element, state, pending_collection, request, taken,
          call, verdict, input, calls>>

NoCall == [kind |-> "none", arg |-> 0]
Usable == verdict \in {"none", "ok"}

(***************************************************************************)
(* XML tokens.  An empty element is its two tags.                          *)
(***************************************************************************)
Token(k, n) == [kind |-> k, name |-> n]
Element(n, content) == <<Token("start", n)>> \o content \o <<Token("end", n)>>

Prologue == <<Token("decl", "xml"), Token("decl", "DOCTYPE"), Token("start", "plist")>>
PlistEnd == <<Token("end", "plist")>>

(* Data is wrapped and indented, the other texts are written as they are.   *)
ValueElement(v) ==
  CASE v \in Booleans -> Element(v, <<>>)
    [] v \in Texts    -> Element("text", <<Token("text", v)>>)
    [] v \in Datas    -> Element("data", <<Token("text", "space"), Token("text", v),
                                           Token("text", "space")>>)
    [] v \in Strings  -> Element(IF expecting_key THEN "key" ELSE "string",
                                 <<Token("text", v)>>)

(***************************************************************************)
(* write_event.                                                            *)
(***************************************************************************)
(* The call e comes to an end with the given verdict.                       *)
Done(e, v) ==
  /\ call' = e
  /\ verdict' = v
  /\ input' = IF v = "ok" THEN Append(input, e) ELSE input
  /\ UNCHANGED <<write_root_element, calls>>

(* Mutant: the prologue comes before every event. *)
Opening_EveryEvent == IF write_root_element THEN output \o Prologue ELSE output

Opening == IF ~started_plist /\ write_root_element THEN output \o Prologue ELSE output
Closing(open) == IF open = <<>> /\ write_root_element THEN PlistEnd ELSE <<>>

InDictionary(open) == open # <<>> /\ Last(open) = "dict"

(* The writer refuses the call e; the prologue has been written by then.    *)
Refused(e, open) ==
  /\ started_plist' = TRUE
  /\ output' = Opening
  /\ stack' = open
  /\ UNCHANGED expecting_key
  /\ request' = NoCall
  /\ Done(e, "illegal")

(* The output fails at the prologue, at the element's tags (when the open   *)
(* elements are those of before) or at the end of the plist.                *)
Broken(e, tags, before, open, key) ==
  /\ FaultyIO
  /\ request' = NoCall
  /\ Done(e, "failed")
  /\ \/ UNCHANGED state
     \/ /\ started_plist' = TRUE
        /\ \/ output' = Opening /\ stack' = before /\ UNCHANGED expecting_key
           \/ /\ open = <<>>
              /\ output' = Opening \o tags
              /\ stack' = open
              /\ expecting_key' = key

(* The call e is written as the given tags, after which the given elements  *)
(* are open and a key is expected or not.                                   *)
WriteEvent(e, tags, before, open, key, next) ==
  \/ Broken(e, tags, before, open, key)
  \/ /\ started_plist' = TRUE
     /\ output' = Opening \o tags \o Closing(open)
     /\ stack' = open
     /\ expecting_key' = key
     /\ request' = next
     /\ Done(e, "ok")

(***************************************************************************)
(* The calls.                                                              *)
(***************************************************************************)
(* A uid is refused before anything else.                                   *)
Submit(e) ==
  /\ Usable
  /\ request = NoCall
  /\ calls < MaxCalls
  /\ calls' = calls + 1
  /\ e.kind = "end" /\ pending_collection # "none" => EmptyKeys \/ ~expecting_key
  /\ IF e.kind = "value" /\ e.arg \in Uids
     THEN call' = e /\ verdict' = "failed" /\ UNCHANGED request
     ELSE request' = e /\ UNCHANGED <<call, verdict>>
  /\ UNCHANGED <<write_root_element, state, pending_collection, taken, input>>

Pushed(ty) == Append(stack, ty)

(* handle_pending_collection *)
StartPending ==
  /\ request # NoCall /\ request.kind # "end"
  /\ pending_collection # "none"
  /\ pending_collection' = "none"
  /\ LET ty == pending_collection
         e == [kind |-> ty, arg |-> 0]
     IN  IF expecting_key
         THEN Refused(e, stack)
         ELSE WriteEvent(e, <<Token("start", ty)>>, stack, Pushed(ty),
                         InDictionary(Pushed(ty)), request)
  /\ UNCHANGED taken

WriteStartCollection ==
  /\ request.kind \in {"array", "dict"}
  /\ pending_collection = "none"
  /\ pending_collection' = request.kind
  /\ request' = NoCall
  /\ UNCHANGED <<write_root_element, state, taken, call, verdict, input, calls>>

(* An empty collection: the start that is still due, and the end.           *)
TakePending ==
  /\ request.kind = "end"
  /\ pending_collection # "none"
  /\ taken' = pending_collection
  /\ pending_collection' = "none"
  /\ Done([kind |-> pending_collection, arg |-> 0], "ok")
  /\ UNCHANGED <<state, request>>

WriteEmpty ==
  /\ taken # "none"
  /\ taken' = "none"
  /\ WriteEvent(request, Element(taken, <<>>), stack, stack, InDictionary(stack), NoCall)
  /\ UNCHANGED pending_collection

(* An array, or a dictionary that waits for no value. *)
Closable == stack # <<>> /\ (Last(stack) = "array" \/ expecting_key)

WriteEndCollection ==
  /\ request.kind = "end"
  /\ pending_collection = "none" /\ taken = "none"
  /\ LET rest == IF stack = <<>> THEN <<>> ELSE Front(stack) IN
     IF Closable
     THEN WriteEvent(request, <<Token("end", Last(stack))>>, rest, rest,
                     InDictionary(rest), NoCall)
     ELSE Refused(request, rest)
  /\ UNCHANGED <<pending_collection, taken>>

(* Mutant: any open dictionary will do, not just the innermost element. *)
KeyAfterValue_AnyDict == \E d \in 1..Len(stack) : stack[d] = "dict"

KeyAfterValue == InDictionary(stack)

(* write_string alone is accepted where a key is due.                       *)
WriteValue ==
  /\ request.kind = "value"
  /\ pending_collection = "none"
  /\ LET v == request.arg IN
     IF expecting_key /\ v \notin Strings
     THEN Refused(request, stack)
     ELSE WriteEvent(request, ValueElement(v), stack, stack,
                     ~expecting_key /\ KeyAfterValue, NoCall)
  /\ UNCHANGED <<pending_collection, taken>>

(* The client makes no call, for now or for good. *)
Rest == (request = NoCall \/ ~Usable) /\ UNCHANGED vars

Init ==
  /\ write_root_element \in BOOLEAN
  /\ started_plist = FALSE /\ stack = <<>> /\ expecting_key = FALSE /\ output = <<>>
  /\ pending_collection = "none" /\ request = NoCall /\ taken = "none"
  /\ call = [kind |-> "end", arg |-> 0] /\ verdict = "none" /\ input = <<>> /\ calls = 0

Perform ==
  \/ StartPending \/ WriteStartCollection \/ TakePending \/ WriteEmpty
  \/ WriteEndCollection \/ WriteValue

Next == (\E e \in Calls : Submit(e)) \/ Perform \/ Rest

Spec == Init /\ [][Next]_vars

(***************************************************************************)
(* Properties.                                                             *)
(***************************************************************************)

(* The tags open after the token t; <<"mismatch">> when an end tag closes   *)
(* anything but the last one.                                               *)
Tagged(open, t) ==
  CASE t.kind = "start" -> Append(open, t.name)
    [] t.kind = "end" ->
         IF open # <<>> /\ Last(open) = t.name THEN Front(open) ELSE <<"mismatch">>
    [] t.kind \in {"text", "decl"} -> open

(* The tags that the tokens ts leave open, and the plists that they end.    *)
OpenTags(ts) ==
  LET open[i \in 0..Len(ts)] == IF i = 0 THEN <<>> ELSE Tagged(open[i - 1], ts[i])
  IN  open[Len(ts)]

PlistsIn(ts) ==
  LET ended[i \in 0..Len(ts)] ==
        IF i = 0 THEN 0 ELSE ended[i - 1] + (IF ts[i] = PlistEnd[1] THEN 1 ELSE 0)
  IN  ended[Len(ts)]

PlistsEnded == PlistsIn(output)

(* What is written is always the beginning of an XML document that nests    *)
(* properly: the elements open are <plist>, which the XML library is not    *)
(* told of, and those of `stack`, however the collections came to be        *)
(* written (late, as an empty element, before or after the prologue).  This *)
(* is so up to the end of the first plist: a second one on the same writer  *)
(* gets another </plist> and no prologue.                                   *)
OutputNested ==
  verdict = "ok" /\ PlistsEnded <= 1 =>
    OpenTags(output) =
      (IF write_root_element /\ started_plist /\ PlistsEnded = 0 THEN <<"plist">> ELSE <<>>)
        \o stack

(* The writer accepts exactly the calls that continue a well-formed stream, *)
(* a start being taken up only with the call after it.                      *)
Elements == IF taken = "none" THEN stack ELSE Append(stack, taken)
Frame(d) ==
  CASE Elements[d] = "array" -> "array"
    [] Elements[d] = "dict" /\ (d < Len(Elements) \/ taken # "none") -> "key"
    [] Elements[d] = "dict" /\ d = Len(Elements) /\ taken = "none" ->
         IF expecting_key THEN "key" ELSE "value"

Sink == INSTANCE EventSink WITH
  open <- IF Usable THEN [d \in 1..Len(Elements) |-> Frame(d)] ELSE <<>>

AcceptsWellFormed == Sink!SinkSpec

(* In the dictionaries written, a <key> and a value take turns: "Dictionary *)
(* keys and values are represented as pairs of values" (stream/mod.rs:36).  *)
Child(name, due) ==
  CASE due = "key" -> IF name = "key" THEN "value" ELSE "unkeyed"
    [] due = "value" -> IF name = "key" THEN "unkeyed" ELSE "key"
    [] due \in {"any", "unkeyed"} -> due

DictionariesKeyed ==
  LET due[i \in 0..Len(output)] ==
        IF i = 0 THEN <<"any">>
        ELSE LET before == due[i - 1]
                 t == output[i]
             IN CASE t.kind = "start" ->
                       Append([before EXCEPT ![Len(before)] = Child(t.name, @)],
                              IF t.name = "dict" THEN "key" ELSE "any")
                  [] t.kind = "end" /\ t.name # "plist" -> Front(before)
                  [] OTHER -> before
  IN  \A i \in 0..Len(output) : Last(due[i]) # "unkeyed"

=============================================================================
