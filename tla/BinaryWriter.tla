---------------------------- MODULE BinaryWriter ----------------------------
(***************************************************************************)
(* stream/binary_writer.rs: the writer buffers the events of a plist,      *)
(* deduplicating its values, and when the root is complete numbers the     *)
(* objects and writes them: each collection, with references to its        *)
(* elements, followed by its keys.                                         *)
(*                                                                         *)
(* A call of the Writer trait is one action, up to the point where the     *)
(* root is complete; write_plist then proceeds by one action for each      *)
(* write to the output that may fail.  The unit of a position is the       *)
(* object (an offset is the position of an object), the bytes of a value   *)
(* are those that identify it.  The client stops at the first error, as    *)
(* Value and Serializer do.                                                *)
(***************************************************************************)
EXTENDS Integers, Sequences, SequencesExt

CONSTANTS
  Values,           (* the values that may be written                        *)
  Strings,          (* those that are strings                                *)
  FaultyIO,         (* TRUE when the output may fail                         *)
  MaxCalls          (* bound on the calls of a behaviour                     *)

ASSUME StringsAssumption == Strings \subseteq Values
ASSUME SwitchAssumption == FaultyIO \in BOOLEAN
ASSUME MaxCallsAssumption == MaxCalls \in Nat

VARIABLES
  events,                 (* the buffered Collection, Value, DictionaryKeys  *)
  dictionary_key_events,  (* keys of the open dictionaries: value indices    *)
  values,                 (* the distinct values, each with its state        *)
  collection_stack,       (* indices into events of the open collections     *)
  num_objects,            (* collections and distinct values so far          *)
  pos,                    (* writer.pos                                      *)
  pc,                     (* "idle" between calls; where write_plist is      *)
  todo,                   (* events_vec, the events being written            *)
  cursor,                 (* index of the event at hand in todo              *)
  pending,                (* events left of the collection at hand           *)
  next_object_ref,
  offset_table,           (* position of each object, 0 when not yet written *)
  file,                   (* the objects written, in order                   *)
  call, verdict,          (* the last call and what became of it             *)
  input,                  (* history: the calls accepted for this plist      *)
  plists,                 (* history: the plists completed                   *)
  calls                   (* history: the number of calls                    *)

buffer == <<events, dictionary_key_events, collection_stack>>
output == <<pos, todo, cursor, pending, next_object_ref, offset_table, file>>
history == <<call, input, plists, calls>>
vars == <<buffer, values, num_objects, pc, output, verdict, history>>

NoRef == -1

Collection(ty) ==
  [kind |-> "collection", ty |-> ty, len |-> 0, skip |-> 0, object_ref |-> NoRef]
ValueAt(i) == [kind |-> "value", index |-> i]
DictionaryKeys(n) == [kind |-> "keys", len |-> n]

(***************************************************************************)
(* The calls.                                                              *)
(***************************************************************************)
Call(e) ==
  /\ pc = "idle"
  /\ calls < MaxCalls
  /\ calls' = calls + 1
  /\ call' = e
  /\ UNCHANGED <<output, plists>>

(* The call is buffered; write_plist follows when it completes the root.    *)
Accept(e, stack) ==
  /\ collection_stack' = stack
  /\ verdict' = "ok"
  /\ input' = Append(input, e)
  /\ pc' = IF stack = <<>> THEN "header" ELSE "idle"

Refuse ==
  /\ verdict' = "illegal"
  /\ pc' = "stopped"
  /\ UNCHANGED input

(* Mutant: the parity of the length is looked at in arrays, too. *)
ExpectingKey_AnyType ==
  /\ collection_stack # <<>>
  /\ events[Last(collection_stack)].len % 2 = 0

(* expecting_dictionary_key *)
ExpectingKey ==
  /\ collection_stack # <<>>
  /\ LET c == events[Last(collection_stack)] IN c.ty = "dict" /\ c.len % 2 = 0

(* increment_current_collection_len *)
Incremented ==
  IF collection_stack = <<>> THEN events
  ELSE [events EXCEPT ![Last(collection_stack)].len = @ + 1]

WriteStartCollection(ty) ==
  /\ Call([kind |-> ty, arg |-> 0])
  /\ IF ExpectingKey
     THEN Refuse /\ UNCHANGED <<buffer, values, num_objects>>
     ELSE /\ events' = Append(Incremented, Collection(ty))
          /\ num_objects' = num_objects + 1
          /\ Accept(call', Append(collection_stack, Len(events) + 1))
          /\ UNCHANGED <<dictionary_key_events, values>>

(* Mutant: the collection counts itself out twice. *)
Closed_SkipLess(i, len, skip) == [events EXCEPT ![i].len = len, ![i].skip = skip - 1]

(* Mutant: the DictionaryKeys event itself is not skipped. *)
DictSkip_KeysOnly(skip, pairs) == skip + pairs

(* The events to skip to get past a dictionary whose values take up skip.   *)
DictSkip(skip, pairs) == skip + 1 + pairs

(* The buffered collection i once closed, when it has skip events after it. *)
Closed(i, len, skip) == [events EXCEPT ![i].len = len, ![i].skip = skip]

WriteEndCollection ==
  /\ Call([kind |-> "end", arg |-> 0])
  /\ UNCHANGED <<values, num_objects>>
  /\ IF collection_stack = <<>>
     THEN Refuse /\ UNCHANGED buffer
     ELSE LET i == Last(collection_stack)
              c == events[i]
              skip == Len(events) - i
              pairs == c.len \div 2
              keysStart == Len(dictionary_key_events) - pairs
          IN  \/ /\ c.ty = "array"
                 /\ events' = Closed(i, c.len, skip)
                 /\ Accept(call', Front(collection_stack))
                 /\ UNCHANGED dictionary_key_events
              \/ /\ c.ty = "dict" /\ c.len % 2 # 0     \* a key without its value
                 /\ events' = Closed(i, c.len, skip)
                 /\ collection_stack' = Front(collection_stack)
                 /\ Refuse
                 /\ UNCHANGED dictionary_key_events
              \/ /\ c.ty = "dict" /\ c.len % 2 = 0
                 /\ events' = Closed(i, pairs, DictSkip(skip, pairs))
                                \o <<DictionaryKeys(pairs)>>
                                \o [k \in 1..pairs |->
                                      ValueAt(dictionary_key_events[keysStart + k])]
                 /\ dictionary_key_events' = SubSeq(dictionary_key_events, 1, keysStart)
                 /\ Accept(call', Front(collection_stack))

Indices(v) == { i \in 1..Len(values) : values[i].value = v }

WriteValue(v) ==
  /\ Call([kind |-> "value", arg |-> v])
  /\ IF ExpectingKey /\ v \notin Strings
     THEN Refuse /\ UNCHANGED <<buffer, values, num_objects>>
     ELSE LET known == Indices(v) # {}
              index == IF known THEN CHOOSE i \in Indices(v) : TRUE ELSE Len(values) + 1
          IN  /\ IF known
                 THEN UNCHANGED <<values, num_objects>>
                 ELSE /\ values' = Append(values, [value |-> v, state |-> "unassigned",
                                                   ref |-> NoRef])
                      /\ num_objects' = num_objects + 1
              /\ IF ExpectingKey
                 THEN /\ dictionary_key_events' = Append(dictionary_key_events, index)
                      /\ events' = Incremented
                 ELSE /\ events' = Append(Incremented, ValueAt(index))
                      /\ UNCHANGED dictionary_key_events
              /\ Accept(call', collection_stack)

(***************************************************************************)
(* write_plist.                                                            *)
(***************************************************************************)
(* An unreachable!, an assert! or an index computation of the code fails.   *)
Panic ==
  /\ pc' = "panic"
  /\ verdict' = "panic"
  /\ UNCHANGED <<buffer, num_objects, output, history>>

(* The output fails: `?` leaves the state as it is, without what follows.   *)
(* What the step did to `values` before it failed is for the step to say.   *)
IOError ==
  /\ FaultyIO
  /\ pc' = "stopped"
  /\ verdict' = "failed"
  /\ UNCHANGED <<buffer, num_objects, output, history>>

(* A step of write_plist that succeeds.                                     *)
Continue(where) ==
  /\ pc' = where
  /\ UNCHANGED <<buffer, num_objects, verdict, history>>

Assigned(i, r) == [values EXCEPT ![i].state = "unwritten", ![i].ref = r]
Written(i) == [values EXCEPT ![i].state = "written"]

(* The magic number, then the root gets reference zero.                     *)
WriteHeader ==
  /\ pc = "header"
  /\ \/ IOError /\ UNCHANGED values
     \/ LET root == events[1] IN
        /\ pos' = pos + 1
        /\ events' = <<>>
        /\ offset_table' = [r \in 0..(num_objects - 1) |-> 0]
        /\ file' = <<>>
        /\ cursor' = 1
        /\ pending' = <<>>
        /\ next_object_ref' = 1
        /\ values' = IF root.kind = "value" THEN Assigned(root.index, 0) ELSE values
        /\ todo' = IF root.kind = "collection" THEN [events EXCEPT ![1].object_ref = 0]
                                               ELSE events
        /\ pc' = "objects"
        /\ UNCHANGED <<dictionary_key_events, collection_stack, num_objects, verdict, history>>

(* write_plist_value *)
WritePlistValue(i) ==
  LET v == values[i] IN
  CASE v.state = "unassigned" -> Panic /\ UNCHANGED values
    [] v.state = "written" -> Continue(pc) /\ UNCHANGED <<values, pos, file, offset_table>>
    [] v.state = "unwritten" ->
         /\ values' = Written(i)
         /\ \/ IOError
            \/ /\ offset_table' = [offset_table EXCEPT ![v.ref] = pos]
               /\ file' = Append(file, [kind |-> "value", value |-> v.value, refs |-> <<>>])
               /\ pos' = pos + 1
               /\ Continue(pc)

(* Mutant: the DictionaryKeys event is taken for a value. *)
KeysStart_OneMore(c) == IF c.ty = "dict" THEN c.skip - c.len ELSE c.skip

(* write_plist_collection starts: the positions in todo of the events of    *)
(* the collection c at position i, keys first.                              *)
KeysStart(c) == IF c.ty = "dict" THEN c.skip - c.len - 1 ELSE c.skip
KeyPositions(i, c) ==
  IF c.ty = "dict" THEN [k \in 1..c.len |-> i + KeysStart(c) + 1 + k] ELSE <<>>
(* Mutant: values before keys. *)
Positions_ValuesFirst(i, c) == [k \in 1..KeysStart(c) |-> i + k] \o KeyPositions(i, c)

Positions(i, c) == KeyPositions(i, c) \o [k \in 1..KeysStart(c) |-> i + k]

(* Mutant: the keys are skipped, the event that counts them is not. *)
PastKeys_NotItself(e) == cursor + e.len

PastKeys(e) == cursor + 1 + e.len

WriteObject ==
  /\ pc = "objects"
  /\ cursor <= Len(todo)
  /\ LET e == todo[cursor] IN
     \/ /\ e.kind = "keys"
        /\ cursor' = PastKeys(e)
        /\ Continue("objects")
        /\ UNCHANGED <<values, pos, todo, pending, next_object_ref, offset_table, file>>
     \/ /\ e.kind = "value"
        /\ WritePlistValue(e.index)
        /\ cursor' = IF pc' = "objects" THEN cursor + 1 ELSE cursor
        /\ UNCHANGED <<todo, pending, next_object_ref>>
     \/ /\ e.kind = "collection"
        /\ UNCHANGED values
        /\ IF e.object_ref = NoRef \/ KeysStart(e) < 0
           THEN Panic
           ELSE \/ IOError
                \/ /\ offset_table' = [offset_table EXCEPT ![e.object_ref] = pos]
                   /\ file' = Append(file, [kind |-> e.ty, value |-> NoRef, refs |-> <<>>])
                   /\ pos' = pos + 1
                   /\ pending' = Positions(cursor, e)
                   /\ Continue("refs")
                   /\ UNCHANGED <<todo, cursor, next_object_ref>>

(* One element of the collection at hand: it gets a reference if it has     *)
(* none yet, and the reference is written.                                  *)
WriteRef ==
  /\ pc = "refs"
  /\ pending # <<>>
  /\ LET e == todo[Head(pending)]
         fresh == e.kind = "collection" \/ values[e.index].state = "unassigned"
         ref == IF fresh THEN next_object_ref ELSE values[e.index].ref
         taken == IF e.kind = "collection" THEN 1 + e.skip ELSE 1
     IN  IF e.kind = "keys" \/ (e.kind = "collection" /\ e.object_ref # NoRef)
         THEN Panic /\ UNCHANGED values
         ELSE /\ values' = IF e.kind = "value" /\ fresh THEN Assigned(e.index, ref) ELSE values
              /\ \/ IOError
                 \/ /\ file' = [file EXCEPT ![Len(file)].refs = Append(@, ref)]
                    /\ todo' = IF e.kind = "collection"
                               THEN [todo EXCEPT ![Head(pending)].object_ref = ref] ELSE todo
                    /\ next_object_ref' = IF fresh THEN ref + 1 ELSE next_object_ref
                    /\ pending' = SubSeq(pending, 1 + taken, Len(pending))
                    /\ Continue("refs")
                    /\ UNCHANGED <<pos, cursor, offset_table>>

RefsWritten ==
  /\ pc = "refs"
  /\ pending = <<>>
  /\ pending' = KeyPositions(cursor, todo[cursor])
  /\ Continue("keys")
  /\ UNCHANGED <<values, pos, todo, cursor, next_object_ref, offset_table, file>>

(* The keys of a dictionary are written right after it.                     *)
WriteKey ==
  /\ pc = "keys"
  /\ pending # <<>>
  /\ WritePlistValue(todo[Head(pending)].index)
  /\ pending' = IF pc' = "keys" THEN Tail(pending) ELSE pending
  /\ UNCHANGED <<todo, cursor, next_object_ref>>

KeysWritten ==
  /\ pc = "keys"
  /\ pending = <<>>
  /\ cursor' = cursor + 1
  /\ Continue("objects")
  /\ UNCHANGED <<values, pos, todo, pending, next_object_ref, offset_table, file>>

(* Mutant: the next plist finds the values of this one. *)
Reset_ValuesKept == pos' = 0 /\ num_objects' = 0 /\ UNCHANGED values

(* "Reset plist writer"; events is empty since WriteHeader took it.         *)
Reset == pos' = 0 /\ num_objects' = 0 /\ values' = <<>>

(* The offset table and the trailer; then the writer is reset.              *)
WriteTrailer ==
  /\ pc = "objects"
  /\ cursor > Len(todo)
  /\ \/ IOError /\ UNCHANGED values
     \/ /\ plists' = Append(plists, [input |-> input, objects |-> file,
                                     offsets |-> offset_table, next |-> next_object_ref])
        /\ input' = <<>>
        /\ Reset
        /\ todo' = <<>>
        /\ pc' = "idle"
        /\ UNCHANGED <<buffer, cursor, pending, next_object_ref, offset_table, file,
                       verdict, call, calls>>

WritePlist ==
  \/ WriteHeader \/ WriteObject \/ WriteRef \/ RefsWritten
  \/ WriteKey \/ KeysWritten \/ WriteTrailer

(* The client makes no call, for now or for good.                           *)
Rest == pc \in {"idle", "stopped"} /\ UNCHANGED vars

Init ==
  /\ events = <<>> /\ dictionary_key_events = <<>> /\ collection_stack = <<>>
  /\ values = <<>> /\ num_objects = 0
  /\ pos = 0 /\ todo = <<>> /\ cursor = 1 /\ pending = <<>>
  /\ next_object_ref = 0 /\ offset_table = << >> /\ file = <<>>
  /\ pc = "idle" /\ verdict = "none" /\ call = [kind |-> "end", arg |-> 0]
  /\ input = <<>> /\ plists = <<>> /\ calls = 0

Next ==
  \/ \E ty \in {"array", "dict"} : WriteStartCollection(ty)
  \/ WriteEndCollection
  \/ \E v \in Values : WriteValue(v)
  \/ WritePlist
  \/ Rest

Spec == Init /\ [][Next]_vars

(***************************************************************************)
(* Properties.                                                             *)
(***************************************************************************)

(* Every variable has its type. *)
Events ==
  [kind : {"collection"}, ty : {"array", "dict"}, len : Nat, skip : Nat,
   object_ref : Nat \cup {NoRef}]
    \cup [kind : {"value"}, index : 1..Len(values)] \cup [kind : {"keys"}, len : Nat]
Objects == [kind : {"array", "dict", "value"}, value : Values \cup {NoRef}, refs : Seq(Nat)]

TypeOK ==
  /\ events \in Seq(Events)
  /\ dictionary_key_events \in Seq(1..Len(values))
  /\ values \in Seq([value : Values, state : {"unassigned", "unwritten", "written"},
                     ref : Nat \cup {NoRef}])
  /\ collection_stack \in Seq(1..Len(events))
  /\ num_objects \in Nat /\ pos \in Nat
  /\ todo \in Seq(Events) /\ cursor \in Nat \ {0} /\ pending \in Seq(1..Len(todo))
  /\ next_object_ref \in Nat /\ file \in Seq(Objects)
  /\ pc \in {"idle", "stopped", "panic", "header", "objects", "refs", "keys"}
  /\ verdict \in {"none", "ok", "illegal", "failed", "panic"}

(* No unreachable!, assert! or index computation of the writer can fail, as *)
(* long as the client stops at the first error.                             *)
NoPanic == pc # "panic"

(* The layout of `events` is the documented one (binary_writer.rs:40-72):   *)
(* the len elements of a closed array, or the len values of a closed        *)
(* dictionary followed by DictionaryKeys(len) and that many strings, end    *)
(* where skip says.  An open collection has the elements it has counted,    *)
(* the last of them still open unless it is the innermost one; the keys of  *)
(* the open dictionaries, and nothing else, wait in dictionary_key_events.  *)
Skip(evs, i) == IF evs[i].kind = "collection" THEN i + evs[i].skip + 1 ELSE i + 1
(* The position that follows the first n elements of collection i of evs.   *)
PastElements(evs, i, n) ==
  LET past[k \in 0..n] == IF k = 0 THEN i + 1 ELSE Skip(evs, past[k - 1]) IN past[n]

ClosedLayout(evs, i) ==
  LET c == evs[i]
      end == PastElements(evs, i, c.len)
  IN  IF c.ty = "array" THEN end = i + c.skip + 1
      ELSE /\ evs[end] = DictionaryKeys(c.len)
           /\ end + c.len = i + c.skip
           /\ \A k \in 1..c.len : /\ evs[end + k].kind = "value"
                                   /\ values[evs[end + k].index].value \in Strings

KeysOf(c) == IF c.ty = "dict" THEN (c.len + 1) \div 2 ELSE 0

OpenLayout(d) ==
  LET i == collection_stack[d]
      c == events[i]
      inner == IF d < Len(collection_stack) THEN 1 ELSE 0
      next == IF inner = 1 THEN collection_stack[d + 1] ELSE Len(events) + 1
  IN  PastElements(events, i, c.len - KeysOf(c) - inner) = next

BufferedKeys ==
  LET keys[d \in 0..Len(collection_stack)] ==
        IF d = 0 THEN 0 ELSE keys[d - 1] + KeysOf(events[collection_stack[d]])
  IN  keys[Len(collection_stack)]

LayoutAsDocumented ==
  pc \in {"idle", "header"} =>
    /\ \A d \in 1..Len(collection_stack) : OpenLayout(d)
    /\ BufferedKeys = Len(dictionary_key_events)
    /\ \A i \in 1..Len(events) :
         events[i].kind = "collection"
           /\ ~(\E d \in 1..Len(collection_stack) : collection_stack[d] = i)
         => ClosedLayout(events, i)

(* Every object gets exactly one reference below num_objects (which fixed   *)
(* the size of a reference and of the offset table before any was assigned) *)
(* and is written exactly once, where its entry of the offset table says,   *)
(* before anything is written that the reader would look up there.          *)
ObjectTableComplete ==
  /\ pc \in {"objects", "refs", "keys"} => next_object_ref <= num_objects
  /\ pc = "objects" /\ cursor > Len(todo) =>
       /\ next_object_ref = num_objects
       /\ Len(file) = num_objects
       /\ DOMAIN offset_table = 0..(num_objects - 1)
       /\ \A r \in DOMAIN offset_table : offset_table[r] \in 1..Len(file)
       /\ \A r, q \in DOMAIN offset_table : offset_table[r] = offset_table[q] => r = q
       /\ \A i \in 1..Len(file) : \A k \in 1..Len(file[i].refs) :
            file[i].refs[k] \in DOMAIN offset_table
       /\ \A i, j \in 1..Len(file) :
            file[i].kind = "value" /\ file[j] = file[i] => i = j

(* The writer accepts exactly the calls that continue a well-formed stream. *)
Frame(c) ==
  CASE c.ty = "array" -> "array"
    [] c.ty = "dict" /\ c.len % 2 = 0 -> "key"
    [] c.ty = "dict" /\ c.len % 2 = 1 -> "value"

Sink == INSTANCE EventSink WITH
  Calls <- [kind : {"value"}, arg : Values] \cup [kind : {"array", "dict", "end"}, arg : {0}],
  open <- IF verdict \in {"none", "ok"}
          THEN [d \in 1..Len(collection_stack) |-> Frame(events[collection_stack[d]])]
          ELSE <<>>

AcceptsWellFormed == Sink!SinkSpec

(* Every call returns: write_plist goes through the events it took in       *)
(* finitely many writes.                                                    *)
CallsReturn == pc \in {"header", "objects", "refs", "keys"} ~> pc \in {"idle", "stopped"}

=============================================================================
