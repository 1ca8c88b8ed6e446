---------------------------- MODULE ValueEvents ----------------------------
(***************************************************************************)
(* stream/mod.rs, Events: the iterator over the events of a Value.  Each   *)
(* call of next pops the innermost iterator, puts it back when it may have *)
(* more, and puts on top what it has just yielded.                         *)
(***************************************************************************)
EXTENDS Integers, Sequences, SequencesExt

CONSTANTS Leaves,     (* the values that are not collections            *)
          MaxLength   (* bound on the length of a collection            *)

VARIABLES stack,    (* StackItem: "root", "array", "dict", "dictvalue", with *)
                    (* what it has yet to yield                              *)
          events    (* history: the events yielded                           *)

vars == <<stack, events>>

Item(k, rest) == [kind |-> k, rest |-> rest]
Yield(k, a) == events' = Append(events, [kind |-> k, arg |-> a])

(* Mutant: the length of a dictionary counts keys and values. *)
HandleValue_KeysCounted(below, value) ==
  IF value.kind = "leaf"
  THEN Yield("value", value.items[1]) /\ stack' = below
  ELSE /\ Yield(value.kind, (IF value.kind = "dict" THEN 2 ELSE 1) * Len(value.items))
       /\ stack' = Append(below, Item(value.kind, value.items))

(* handle_value, on the stack below the value.                              *)
HandleValue(below, value) ==
  IF value.kind = "leaf"
  THEN Yield("value", value.items[1]) /\ stack' = below
  ELSE /\ Yield(value.kind, Len(value.items))
       /\ stack' = Append(below, Item(value.kind, value.items))

Top(k) == stack # <<>> /\ Last(stack).kind = k

NextValue ==
  /\ Top("root") \/ Top("dictvalue")
  /\ HandleValue(Front(stack), Last(stack).rest[1])

NextElement ==
  /\ Top("array") /\ Last(stack).rest # <<>>
  /\ HandleValue(Append(Front(stack), Item("array", Tail(Last(stack).rest))),
                 Head(Last(stack).rest))

(* Mutant: the value comes before the rest of the dictionary is put back. *)
AfterKey_Swapped(below, rest, value) ==
  below \o <<Item("dictvalue", <<value>>), Item("dict", rest)>>

(* The stack after a key: its value is next, then the rest.                 *)
AfterKey(below, rest, value) ==
  below \o <<Item("dict", rest), Item("dictvalue", <<value>>)>>

NextKey ==
  /\ Top("dict") /\ Last(stack).rest # <<>>
  /\ LET entry == Head(Last(stack).rest) IN
     /\ Yield("value", entry.key)
     /\ stack' = AfterKey(Front(stack), Tail(Last(stack).rest), entry.value)

EndCollection ==
  /\ Top("array") \/ Top("dict")
  /\ Last(stack).rest = <<>>
  /\ Yield("end", 0)
  /\ stack' = Front(stack)

Start(value) == stack = <<Item("root", <<value>>)>> /\ events = <<>>

Next == NextValue \/ NextElement \/ NextKey \/ EndCollection

(***************************************************************************)
(* The iterator is a source of events: exactly one value, closed, every    *)
(* collection as long as announced.                                        *)
(***************************************************************************)
(* Elements still due in the collection at depth d of the stack.            *)
Due(d) ==
  IF stack[d].kind = "array" THEN Len(stack[d].rest)
  ELSE 2 * Len(stack[d].rest)
         + (IF d < Len(stack) /\ stack[d + 1].kind = "dictvalue" THEN 1 ELSE 0)

Depths == SelectSeq([d \in 1..Len(stack) |-> d],
                    LAMBDA d : stack[d].kind \in {"array", "dict"})

Stream == INSTANCE EventStream WITH
  Event <- [kind : {"value"}, arg : Leaves]
             \cup [kind : {"array", "dict", "end"}, arg : 0..MaxLength],
  phase <- IF stack = <<>> THEN "after"
           ELSE IF Top("root") THEN "before" ELSE "inside",
  open <- [k \in 1..Len(Depths) |-> Due(Depths[k])]

=============================================================================
