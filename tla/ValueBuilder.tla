---------------------------- MODULE ValueBuilder ----------------------------
(***************************************************************************)
(* value.rs, Builder: the Writer that builds a Value from plist events.    *)
(* A start is pushed unseen on a stack; whether it was allowed where it    *)
(* came only shows when its collection is put into what is below it.       *)
(*                                                                         *)
(* A Value is a record [kind, items]: a leaf holds what it is, an array    *)
(* its values, a dictionary its entries in insertion order.  The client    *)
(* stops at the first error, as Builder::build and Serializer do.          *)
(***************************************************************************)
EXTENDS Integers, Sequences, SequencesExt, IndexMap

CONSTANTS Leaves,    (* the values that are not collections   *)
          Strings,   (* those that are strings                *)
          MaxCalls   (* bound on the calls of a behaviour     *)

ASSUME StringsAssumption == Strings \subseteq Leaves
ASSUME MaxCallsAssumption == MaxCalls \in Nat

VARIABLES
  stack,      (* StackItem: "root", "array", "dict", or "dictkey" when a   *)
              (* key waits for its value                                   *)
  verdict,    (* "ok", or "error" once a call or finish has failed         *)
  result,     (* what finish returned: <<>>, or the Value                  *)
  input       (* history: the calls made                                   *)

vars == <<stack, verdict, result, input>>

Calls == [kind : {"value"}, arg : Leaves] \cup [kind : {"array", "dict", "end"}, arg : {0}]

Leaf(v) == [kind |-> "leaf", items |-> <<v>>]
IsString(value) == value.kind = "leaf" /\ value.items[1] \in Strings

NoKey == "none"
Item(k, items) == [kind |-> k, items |-> items, key |-> NoKey]

(***************************************************************************)
(* write_value, on the stack below the value.                              *)
(***************************************************************************)
Error == [kind |-> "error"]

(* Mutant: a second root replaces the first. *)
Put_RootReplaced(top, value) ==
  CASE top.kind = "root" -> Item("root", <<value>>)
    [] top.kind = "array" -> [top EXCEPT !.items = Append(@, value)]
    [] top.kind = "dict" -> IF IsString(value)
                            THEN [top EXCEPT !.kind = "dictkey", !.key = value.items[1]]
                            ELSE Error
    [] top.kind = "dictkey" -> Item("dict", Inserted(top.items, top.key, value))

(* What becomes of the top of the stack once the value is put into it.      *)
Put(top, value) ==
  CASE top.kind = "root" -> Error
    [] top.kind = "array" -> [top EXCEPT !.items = Append(@, value)]
    [] top.kind = "dict" -> IF IsString(value)
                            THEN [top EXCEPT !.kind = "dictkey", !.key = value.items[1]]
                            ELSE Error
    [] top.kind = "dictkey" -> Item("dict", Inserted(top.items, top.key, value))

WriteValueOn(below, value) ==
  LET item == IF below = <<>> THEN Item("root", <<value>>) ELSE Put(Last(below), value)
      rest == IF below = <<>> THEN <<>> ELSE Front(below)
  IN  IF item = Error
      THEN verdict' = "error" /\ stack' = rest
      ELSE stack' = Append(rest, item) /\ UNCHANGED verdict

(***************************************************************************)
(* The calls.                                                              *)
(***************************************************************************)
Call(e) ==
  /\ verdict = "ok" /\ result = <<>>
  /\ input' = Append(input, e)
  /\ UNCHANGED result

WriteStartCollection(e) ==
  /\ e.kind \in {"array", "dict"}
  /\ Call(e)
  /\ stack' = Append(stack, Item(e.kind, <<>>))
  /\ UNCHANGED verdict

(* A key that waits for its value keeps its dictionary open.                *)
Closable(top) == top.kind \in {"array", "dict"}

WriteEndCollection(e) ==
  /\ e.kind = "end"
  /\ Call(e)
  /\ IF stack # <<>> /\ Closable(Last(stack))
     THEN WriteValueOn(Front(stack),
                       [kind |-> Last(stack).kind, items |-> Last(stack).items])
     ELSE /\ verdict' = "error"
          /\ stack' = IF stack = <<>> THEN <<>> ELSE Front(stack)

WriteValue(e) ==
  /\ e.kind = "value"
  /\ Call(e)
  /\ WriteValueOn(stack, Leaf(e.arg))

Write(e) == WriteStartCollection(e) \/ WriteEndCollection(e) \/ WriteValue(e)

Finish ==
  /\ verdict = "ok" /\ result = <<>>
  /\ IF stack # <<>> /\ Last(stack).kind = "root"
     THEN result' = Last(stack).items /\ UNCHANGED verdict
     ELSE verdict' = "error" /\ UNCHANGED result
  /\ stack' = IF stack = <<>> THEN <<>> ELSE Front(stack)
  /\ UNCHANGED input

(* Nothing is left to do. *)
Stopped == (verdict = "error" \/ result # <<>>) /\ UNCHANGED vars

Init == stack = <<>> /\ verdict = "ok" /\ result = <<>> /\ input = <<>>

Next ==
  \/ Len(input) < MaxCalls /\ \E e \in Calls : Write(e)
  \/ Finish
  \/ Stopped

Spec == Init /\ [][Next]_vars

(***************************************************************************)
(* Properties.                                                             *)
(***************************************************************************)

(* Every variable has its type; what is on the stack is only ever a root    *)
(* at the bottom, and below collections that are open.                      *)
TypeOK ==
  /\ \A d \in 1..Len(stack) :
       /\ stack[d].kind \in {"root", "array", "dict", "dictkey"}
       /\ stack[d].key \in IF stack[d].kind = "dictkey" THEN Strings ELSE {NoKey}
       /\ stack[d].kind = "root" => d = 1
       /\ stack[d].kind \in {"dict", "dictkey"} =>
            \A i, j \in 1..Len(stack[d].items) :
              stack[d].items[i].key = stack[d].items[j].key => i = j
  /\ verdict \in {"ok", "error"}
  /\ input \in Seq(Calls)

Sink == INSTANCE EventSink WITH open <- <<>>, call <- Last(input)

(* finish returns a Value exactly for the calls that are one whole plist,   *)
(* although a start is accepted anywhere and found out later.               *)
FinishesWhole ==
  /\ result # <<>> => Sink!WholePlist(input)
  /\ verdict = "error" => ~Sink!WholePlist(input)

=============================================================================
