---------------------------- MODULE BinaryReader ----------------------------
(***************************************************************************)
(* stream/binary_reader.rs: the event iterator over a binary plist, that   *)
(* is a depth-first walk over a table of objects that refer to each other  *)
(* by number.  The file is arbitrary: references may be out of range,      *)
(* shared or cyclic, objects unreadable, the header wrong.                 *)
(*                                                                         *)
(* One action is one call of Iterator::next.  An object is abstracted to   *)
(* what the walk can tell apart: a value (whichever type), something it    *)
(* rejects (unknown type, bad length, offset past the trailer, ...), or a  *)
(* collection and its references.                                          *)
(***************************************************************************)
EXTENDS Integers, Sequences

CONSTANTS
  Files,          (* the files the reader may be given                   *)
  NumObjects      (* the number of objects of their offset table         *)

(* A reference is a big-endian unsigned integer of ref_size bytes. *)
Ref == Nat
Type == {"array", "dict"}
(* An array of n elements holds n references; a dictionary of n pairs holds *)
(* its n key references, then its n value references.                       *)
Object ==
  [kind : {"value", "unreadable", "array"}, refs : Seq(Ref)]
    \cup { o \in [kind : {"dict"}, refs : Seq(Ref)] : Len(o.refs) % 2 = 0 }
(* How far read_trailer gets: it succeeds, fails before it stores a non-zero *)
(* ref_size (bad magic, bad offset size, a zero ref_size), or after.         *)
Header == {"good", "bad_before_ref_size", "bad_after_ref_size"}

ObjectRef == 0..(NumObjects - 1)

ASSUME NumObjectsAssumption == NumObjects \in Nat
ASSUME FilesAssumption ==
  Files \subseteq [header : Header, root : Ref, objects : [ObjectRef -> Object],
                   faulty : BOOLEAN]   \* reads of it may fail with an I/O error

VARIABLES
  file,             (* the input, never changed                              *)
  initialised,      (* ref_size # 0                                          *)
  stack,            (* the open collections, innermost last                  *)
  object_on_stack,  (* object_on_stack[r]: object r is one of them           *)
  events,           (* history: the events returned so far                   *)
  returned          (* the result of the last call: "event", "err" or "none" *)

vars == <<file, initialised, stack, object_on_stack, events, returned>>

(***************************************************************************)
(* Helpers.                                                                *)
(***************************************************************************)
Front(s) == SubSeq(s, 1, Len(s) - 1)
Last(s) == s[Len(s)]

(* Mutant: the value of each pair is pushed after its key. *)
ChildRefs_ValueFirst(o) ==
  LET n == Len(o.refs) IN
  IF o.kind = "dict"
  THEN [i \in 1..n |-> IF i % 2 = 0 THEN o.refs[n - (i - 2) \div 2]
                                    ELSE o.refs[n \div 2 - (i - 1) \div 2]]
  ELSE [i \in 1..n |-> o.refs[n - i + 1]]

(* child_object_refs is filled in reverse, so that popping its end yields   *)
(* the elements in order: for a dictionary key, value, key, value...        *)
ChildRefs(o) ==
  LET n == Len(o.refs)
      pairs == n \div 2
  IN  IF o.kind = "dict"
      THEN [i \in 1..n |-> IF i % 2 = 1 THEN o.refs[n - (i - 1) \div 2]
                                        ELSE o.refs[pairs - (i - 2) \div 2]]
      ELSE [i \in 1..n |-> o.refs[n - i + 1]]

(* Mutant: a dictionary announces its keys and values. *)
ObjectLen_Refs(o) == Len(o.refs)

(* The length announced by StartArray and StartDictionary. *)
ObjectLen(o) == IF o.kind = "dict" THEN Len(o.refs) \div 2 ELSE Len(o.refs)

StackItem(r, o) ==
  [object_ref |-> r, child_object_refs |-> ChildRefs(o), ty |-> o.kind]

ValueEvent(r) == [kind |-> "value", arg |-> r]
StartEvent(o) == [kind |-> o.kind, arg |-> ObjectLen(o)]
EndEvent == [kind |-> "end", arg |-> 0]

(* Mutant: one flag too many. *)
NoneOnStack_OneMore == [r \in 0..NumObjects |-> FALSE]

(* object_on_stack once the offset table is read: vec![false; len]. *)
NoneOnStack == [r \in ObjectRef |-> FALSE]

(* Mutant: a closed collection keeps its flag. *)
Lowered_Kept(r, onStack) == onStack

(* push_stack_item_and_check_for_recursion, pop_stack_item: the flag of r.  *)
Raised(r, onStack) == [onStack EXCEPT ![r] = TRUE]
Lowered(r, onStack) == [onStack EXCEPT ![r] = FALSE]

(* Mutant: recursion goes unnoticed. *)
Recursive_Never(r, onStack) == FALSE

Recursive(r, onStack) == onStack[r]

(***************************************************************************)
(* The pieces of a call.                                                   *)
(***************************************************************************)
Return(e) ==
  /\ events' = Append(events, e)
  /\ returned' = "event"

(* Mutant: an error does not clear the stack. *)
Fail_StackKept(onStack) ==
  /\ object_on_stack' = onStack
  /\ returned' = "err"
  /\ UNCHANGED <<stack, events>>

(* Some(Err(_)): next() clears the stack, and leaves object_on_stack as the *)
(* failing read_next left it.                                               *)
Fail(onStack) ==
  /\ stack' = <<>>
  /\ object_on_stack' = onStack
  /\ returned' = "err"
  /\ UNCHANGED events

(* seek_to_object: an object number past the end of the offset table. *)
Readable(r, onStack) ==
  /\ r \in DOMAIN onStack
  /\ file.objects[r].kind # "unreadable"

(* The walk arrives at object r, the open collections being stk. *)
ReadObject(r, stk, onStack) ==
  \/ /\ ~Readable(r, onStack) \/ file.faulty
     /\ Fail(onStack)
  \/ /\ Readable(r, onStack)
     /\ file.objects[r].kind = "value"
     /\ Return(ValueEvent(r))
     /\ stack' = stk
     /\ object_on_stack' = onStack
  \/ /\ Readable(r, onStack)
     /\ file.objects[r].kind \in Type
     /\ \/ /\ Recursive(r, onStack)
           /\ Fail(onStack)
        \/ /\ ~Recursive(r, onStack)
           /\ stack' = Append(stk, StackItem(r, file.objects[r]))
           /\ object_on_stack' = Raised(r, onStack)
           /\ Return(StartEvent(file.objects[r]))

(* Mutant: the reference just taken stays due. *)
Popped_Kept(item) == item

(* The innermost collection once its next reference is taken. *)
Popped(item) == [item EXCEPT !.child_object_refs = Front(@)]

(***************************************************************************)
(* The calls.                                                              *)
(***************************************************************************)
Init ==
  /\ file \in Files
  /\ initialised = FALSE
  /\ stack = <<>>
  /\ object_on_stack = << >>
  /\ events = <<>>
  /\ returned = "none"

(* read_trailer fails before ref_size is set to something else than zero. *)
HeaderFails ==
  /\ ~initialised
  /\ file.header = "bad_before_ref_size" \/ file.faulty
  /\ Fail(object_on_stack)
  /\ UNCHANGED <<file, initialised>>

(* read_trailer fails once ref_size is set. *)
TrailerFails ==
  /\ ~initialised
  /\ file.header = "bad_after_ref_size" \/ (file.faulty /\ file.header = "good")
  /\ initialised' = TRUE
  /\ Fail(object_on_stack)
  /\ UNCHANGED file

FirstCall ==
  /\ ~initialised
  /\ file.header = "good"
  /\ initialised' = TRUE
  /\ ReadObject(file.root, <<>>, NoneOnStack)
  /\ UNCHANGED file

NextChild ==
  /\ initialised
  /\ stack # <<>>
  /\ Last(stack).child_object_refs # <<>>
  /\ ReadObject(Last(Last(stack).child_object_refs),
                Append(Front(stack), Popped(Last(stack))), object_on_stack)
  /\ UNCHANGED <<file, initialised>>

EndCollection ==
  /\ initialised
  /\ stack # <<>>
  /\ Last(stack).child_object_refs = <<>>
  /\ stack' = Front(stack)
  /\ object_on_stack' = Lowered(Last(stack).object_ref, object_on_stack)
  /\ Return(EndEvent)
  /\ UNCHANGED <<file, initialised>>

Finished ==
  /\ initialised
  /\ stack = <<>>
  /\ returned' = "none"
  /\ UNCHANGED <<file, initialised, stack, object_on_stack, events>>

Call == HeaderFails \/ TrailerFails \/ FirstCall \/ NextChild \/ EndCollection

Next == Call \/ Finished

Spec == Init /\ [][Next]_vars

(* The consumer (Builder::build, the deserializer) calls next() until the   *)
(* plist is complete or an error is returned: a call always happens.        *)
FairSpec == Spec /\ WF_vars(Next)

(***************************************************************************)
(* Properties.                                                             *)
(***************************************************************************)

(* Every variable has its type. *)
StackItems == [object_ref : Ref, child_object_refs : Seq(Ref), ty : Type]
Events == [kind : Type \cup {"value", "end"}, arg : Nat]

TypeOK ==
  /\ file \in Files
  /\ initialised \in BOOLEAN
  /\ stack \in Seq(StackItems)
  /\ object_on_stack \in {<< >>} \cup [ObjectRef -> BOOLEAN]
  /\ events \in Seq(Events)
  /\ returned \in {"event", "err", "none"}

(* The flags that detect recursion agree with the stack: the collections on *)
(* the stack are distinct objects of the table, and as long as no error has *)
(* emptied the stack the flags are raised for exactly those objects.  A     *)
(* missed or stale flag makes a shared object fail or a cycle loop forever. *)
Distinct(stk) ==
  \A i, j \in 1..Len(stk) : stk[i].object_ref = stk[j].object_ref => i = j

FlagsMatch(stk, onStack) ==
  /\ onStack \in [ObjectRef -> BOOLEAN]
  /\ \A i \in 1..Len(stk) : stk[i].object_ref \in ObjectRef
  /\ \A r \in ObjectRef :
       onStack[r] <=> \E i \in 1..Len(stk) : stk[i].object_ref = r

FlagsMatchStack ==
  /\ Distinct(stack)
  /\ stack # <<>> => FlagsMatch(stack, object_on_stack)

(* However cyclic the file, no more collections are ever open than there    *)
(* are objects in the table: the memory the walk needs is bounded.          *)
DepthBounded == Len(stack) <= NumObjects

(* The stack is a path of the object graph from the root: the element being *)
(* walked of each open collection is the next open collection, and what is  *)
(* left to walk is exactly what follows it in that collection.              *)
StackIsPath ==
  stack # <<>> =>
    /\ stack[1].object_ref = file.root
    /\ \A i \in 1..Len(stack) :
         LET all == ChildRefs(file.objects[stack[i].object_ref])
             due == stack[i].child_object_refs
         IN  /\ Len(due) <= Len(all)
             /\ due = SubSeq(all, 1, Len(due))
             /\ i < Len(stack) =>
                  /\ Len(due) < Len(all)
                  /\ stack[i + 1].object_ref = all[Len(due) + 1]

(* The reader implements the event stream: what is due in each collection   *)
(* is what is left of its references.                                       *)
phase ==
  IF ~initialised THEN "before" ELSE IF stack = <<>> THEN "after" ELSE "inside"
open == [i \in 1..Len(stack) |-> Len(stack[i].child_object_refs)]

FileEvents ==
  {EndEvent} \cup UNION { { IF f.objects[r].kind \in Type THEN StartEvent(f.objects[r])
                                                         ELSE ValueEvent(r)
                            : r \in ObjectRef } : f \in Files }

Stream == INSTANCE EventStream WITH Event <- FileEvents

StreamSafety == Stream!StreamSpec

(* Every walk ends, cyclic files included: with a good header the iterator  *)
(* reaches a state from which it returns None.                              *)
Terminates == <>[](file.header = "good" /\ ~file.faulty => phase = "after" /\ returned = "none")

=============================================================================
