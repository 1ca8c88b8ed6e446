--------------------------- MODULE ValueRoundTrip ---------------------------
(***************************************************************************)
(* A Value is built from events; if it is a dictionary, the client may     *)
(* change it.  Its events are iterated over, and a second Builder builds a *)
(* Value from those, one event at a time.                                  *)
(***************************************************************************)
EXTENDS ValueBuilder

CONSTANTS EditKeys, EditItems,   (* the keys and values of the changes made *)
          MaxEdits               (* bound on their number                   *)

VARIABLES entries, call, answer,               (* the Dictionary         *)
          edits,                               (* changes made, 0 before *)
                                               (* the root is taken out  *)
          sorted,                              (* history: keys sorted,  *)
                                               (* none removed or added  *)
          eStack, eEvents,                     (* the Events iterator    *)
          bStack, bVerdict, bResult, bInput    (* the second Builder     *)

editing == <<entries, call, answer, edits, sorted>>
events == <<eStack, eEvents>>
rebuilder == <<bStack, bVerdict, bResult, bInput>>
allVars == <<vars, editing, events, rebuilder>>

D == INSTANCE Dictionary WITH Keys <- EditKeys, Items <- EditItems

E == INSTANCE ValueEvents WITH
  Leaves <- Leaves \cup EditKeys, MaxLength <- MaxCalls + MaxEdits,
  stack <- eStack, events <- eEvents

B == INSTANCE ValueBuilder WITH
  Leaves <- Leaves \cup EditKeys, Strings <- Strings \cup EditKeys,
  stack <- bStack, verdict <- bVerdict, result <- bResult, input <- bInput

RoundTripInit ==
  /\ Init
  /\ D!New /\ edits = 0 /\ sorted = FALSE
  /\ eStack = <<>> /\ eEvents = <<>>
  /\ bStack = <<>> /\ bVerdict = "ok" /\ bResult = <<>> /\ bInput = <<>>

Build == Next /\ UNCHANGED <<editing, events, rebuilder>>

Ready == result # <<>> /\ eStack = <<>> /\ eEvents = <<>>

(* The entries of the Value are collected into the Dictionary of a client.  *)
Take ==
  /\ Ready /\ edits = 0 /\ result[1].kind = "dict"
  /\ D!Extend(result[1].items)
  /\ edits' = 1 /\ UNCHANGED sorted
  /\ UNCHANGED <<vars, events, rebuilder>>

(* Only a new key or the gap that remove fills can disturb the order.       *)
Edit ==
  /\ Ready /\ edits \in 1..MaxEdits
  /\ D!Edit
  /\ edits' = edits + 1
  /\ sorted' = (\/ call'.op = "sort_keys"
                \/ sorted /\ call'.op # "remove" /\ D!KeysOf(entries') \subseteq D!KeysOf(entries))
  /\ UNCHANGED <<vars, events, rebuilder>>

(* The Value whose events are asked for.                                    *)
Edited == IF edits = 0 THEN result[1] ELSE [kind |-> "dict", items |-> entries]

(* Value::events *)
Iterate ==
  /\ Ready
  /\ eStack' = <<E!Item("root", <<Edited>>)>>
  /\ UNCHANGED <<vars, editing, eEvents, rebuilder>>

(* One round of the loop in Builder::build: the next event is written.      *)
Rebuild ==
  /\ UNCHANGED <<vars, editing>>
  /\ E!Next
  /\ LET e == Last(eEvents') IN
     B!Write(IF e.kind = "value" THEN e ELSE [e EXCEPT !.arg = 0])

Refinish ==
  /\ eStack = <<>> /\ eEvents # <<>>
  /\ B!Finish
  /\ UNCHANGED <<vars, editing, events>>

RoundTripNext == Build \/ Take \/ Edit \/ Iterate \/ Rebuild \/ Refinish

RoundTripSpec == RoundTripInit /\ [][RoundTripNext]_allVars

(***************************************************************************)
(* Properties.                                                             *)
(***************************************************************************)

(* The Value that the calls cs describe, read off them without a stack: the *)
(* elements from position i to the end of their collection, and where they  *)
(* end.  A dictionary has each key where it came first, with the value that *)
(* came last.                                                               *)
Entries(elements) ==
  LET n == Len(elements) \div 2
      key(i) == elements[2 * i - 1].items[1]
      firsts == SelectSeq([i \in 1..n |-> i], LAMBDA i : \A j \in 1..(i - 1) : key(j) # key(i))
      lastOf(i) == CHOOSE j \in 1..n : key(j) = key(i) /\ \A k \in (j + 1)..n : key(k) # key(i)
  IN  [p \in 1..Len(firsts) |-> [key |-> key(firsts[p]),
                                value |-> elements[2 * lastOf(firsts[p])]]]

Described(cs) ==
  LET n == Len(cs)
      from[i \in 1..(n + 1)] ==
        IF i = n + 1 THEN [elements |-> <<>>, next |-> i]
        ELSE CASE cs[i].kind = "end" -> [elements |-> <<>>, next |-> i + 1]
               [] cs[i].kind = "value" ->
                    [elements |-> <<Leaf(cs[i].arg)>> \o from[i + 1].elements,
                     next |-> from[i + 1].next]
               [] cs[i].kind \in {"array", "dict"} ->
                    LET inner == from[i + 1]
                        after == from[inner.next]
                        value == [kind |-> cs[i].kind,
                                  items |-> IF cs[i].kind = "array" THEN inner.elements
                                            ELSE Entries(inner.elements)]
                    IN  [elements |-> <<value>> \o after.elements, next |-> after.next]
  IN  from[1].elements

(* The Value built is the one the calls describe. *)
BuildsDescribed == result # <<>> => result = Described(input)

(* The events of a Value build the same Value again, in the same order of   *)
(* keys, whatever was overwritten, removed or moved on the way to it; no    *)
(* event is refused.                                                        *)
RebuildsSame ==
  /\ bVerdict = "ok"
  /\ bResult # <<>> => bResult = <<Edited>>

(* The Dictionary's property.                                               *)
ImplementsMap == D!ImplementsMap

(* "ensure a consistent key order" (dictionary.rs:87): once the keys are    *)
(* sorted, they come in order among the events, whatever is done to their   *)
(* values since and whichever of them are dropped by retain.                *)
ConsistentKeyOrder ==
  LET depth[i \in 0..Len(eEvents)] ==
        IF i = 0 THEN 0
        ELSE CASE eEvents[i].kind \in {"array", "dict"} -> depth[i - 1] + 1
               [] eEvents[i].kind = "end" -> depth[i - 1] - 1
               [] OTHER -> depth[i - 1]
      parts == SelectSeq([i \in 1..Len(eEvents) |-> i],
                         LAMBDA i : depth[i - 1] = 1 /\ eEvents[i].kind # "end")
  IN  sorted => \A p \in 1..(Len(parts) - 2) :
                  p % 2 = 1 => eEvents[parts[p]].arg < eEvents[parts[p + 2]].arg

(* The events of a Value are one well-formed stream, each collection as     *)
(* long as its start announces.                                             *)
EventsWellFormed ==
  [][E!Stream!StreamNext \/ (eStack = <<>> /\ eEvents = <<>>)]_<<eStack, eEvents>>

=============================================================================
