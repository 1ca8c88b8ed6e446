------------------------------ MODULE EventSink ------------------------------
(***************************************************************************)
(* What a consumer of plist events promises (the Writer trait and the      *)
(* Event documentation of stream/mod.rs): the calls it accepts are exactly *)
(* those that continue a well-formed event stream.  Dictionary keys and    *)
(* values come in pairs, a key is a string, an EndCollection closes the    *)
(* innermost open collection and never leaves a key without its value.     *)
(* After the root is complete another plist may follow.                    *)
(***************************************************************************)
EXTENDS Naturals, Sequences, SequencesExt

CONSTANTS
  Calls,      (* the calls a client may make: [kind, arg] records, kind    *)
              (* being "array", "dict", "end" or "value"                   *)
  Strings     (* the values that are strings                               *)

VARIABLES
  open,       (* per open collection what it expects: "array" an element,  *)
              (* "key" a key, "value" the value of a key; innermost last   *)
  call,       (* the last call                                             *)
  verdict     (* what became of it: "none" yet, "ok", refused as           *)
              (* "illegal", or "failed" although it may be legal            *)

sinkVars == <<open, call, verdict>>

(* What is legal, and what it leads to, when the collections expect st.     *)
Innermost(st) == st[Len(st)]

LegalIn(st, e) ==
  IF e.kind = "end"
  THEN st # <<>> /\ Innermost(st) # "value"
  ELSE st # <<>> /\ Innermost(st) = "key" => e.kind = "value" /\ e.arg \in Strings

(* What the innermost collection expects once an element is written.        *)
Turned(st) ==
  CASE st = <<>>            -> st
    [] st # <<>> /\ Innermost(st) = "array" -> st
    [] st # <<>> /\ Innermost(st) = "key"   -> [st EXCEPT ![Len(st)] = "value"]
    [] st # <<>> /\ Innermost(st) = "value" -> [st EXCEPT ![Len(st)] = "key"]

AfterIn(st, e) ==
  CASE e.kind = "end"   -> SubSeq(st, 1, Len(st) - 1)
    [] e.kind = "value" -> Turned(st)
    [] e.kind = "array" -> Append(Turned(st), "array")
    [] e.kind = "dict"  -> Append(Turned(st), "key")

Legal(e) == LegalIn(open, e)
After(e) == AfterIn(open, e)

(* What is known of calls that are to be one well-formed plist and nothing  *)
(* else: whether there were any, whether each was legal, and what is open.  *)
Unread == [begun |-> FALSE, legal |-> TRUE, stack |-> <<>>]

Complete(s) == s.begun /\ s.legal /\ s.stack = <<>>

Follow(s, e) ==
  IF s.legal /\ ~Complete(s) /\ LegalIn(s.stack, e)
  THEN [begun |-> TRUE, legal |-> TRUE, stack |-> AfterIn(s.stack, e)]
  ELSE [Unread EXCEPT !.legal = FALSE]

(* Each call is legal, and what is open is closed by the last and by no     *)
(* other.                                                                   *)
WholePlist(calls) ==
  LET after[i \in 0..Len(calls)] ==
        IF i = 0 THEN Unread ELSE Follow(after[i - 1], calls[i])
  IN  Complete(after[Len(calls)])

SinkInit ==
  /\ open = <<>>
  /\ call \in Calls
  /\ verdict = "none"

Usable == verdict \in {"none", "ok"}

Accept(e) ==
  /\ Usable /\ Legal(e)
  /\ call' = e /\ verdict' = "ok" /\ open' = After(e)

Refuse(e) ==
  /\ Usable /\ ~Legal(e)
  /\ call' = e /\ verdict' = "illegal" /\ open' = <<>>

(* The output cannot be written, on this call or while it is under way, or  *)
(* the encoding has no representation of the value.                         *)
Break ==
  /\ Usable
  /\ call' \in Calls /\ verdict' = "failed" /\ open' = <<>>

SinkNext == Break \/ \E e \in Calls : Accept(e) \/ Refuse(e)

SinkSpec == SinkInit /\ [][SinkNext]_sinkVars

=============================================================================
