----------------------------- MODULE BinaryBytes -----------------------------
(***************************************************************************)
(* stream/binary_reader.rs, byte by byte: how the trailer, the offset      *)
(* table and the objects are read and what is checked on the way, over any *)
(* bytes.  Of the walk, which BinaryReader is about, it keeps all; a call  *)
(* of next is several actions here, from pc = "idle" to pc = "idle".       *)
(*                                                                         *)
(* Positions count from 0.  A failed call leaves the position of the       *)
(* reader anywhere: whatever is read later is sought first.                *)
(***************************************************************************)
EXTENDS BinaryEncoding

CONSTANTS
  Files,          (* [bytes, table]: table is the objects that the bytes    *)
                  (* encode, by number, when they are known, or <<>>        *)
  MaxObjects,     (* bound on the objects of a table                        *)
  Unpaired,       (* the code units that stand for no character             *)
  NotFinite       (* the bits of the reals that are no date                 *)

Byte == 0..255

ASSUME FilesAssumption == \A f \in Files : f.bytes \in Seq(Byte)

VARIABLES
  bytes, table,           (* the input                                       *)
  at,                     (* the position of the input                       *)
  pos,                    (* PosReader.pos                                   *)
  trailer_start_offset, ref_size, root_object, object_offsets,
  pc,                     (* what is read next                               *)
  object_ref,             (* the object that is read                         *)
  ty, len,                (* its type, and its nibble or its length          *)
  key_refs,               (* the references that have been read of it        *)
  stack, object_on_stack, (* as in BinaryReader                              *)
  events, returned,       (* as in BinaryReader, values with their content   *)
  allocated               (* history: the bytes the largest vector is for    *)

input == <<bytes, table>>
trailer == <<trailer_start_offset, ref_size, root_object, object_offsets>>
object == <<object_ref, ty, len, key_refs>>
walk == <<stack, object_on_stack, events, returned>>
vars == <<input, at, pos, trailer, pc, object, walk, allocated>>

(***************************************************************************)
(* PosReader and the allocations.                                          *)
(***************************************************************************)
Available(n) == at + n <= Len(bytes)
Slice(from, n) == SubSeq(bytes, from + 1, from + n)
Number(from, n) == Unsigned(Slice(from, n))

(* seek, the one thing that sets pos; and what read makes of a sum that it  *)
(* checks and drops.                                                        *)
Seek(to) == pos' = to
Read(n) == at' = at + n /\ UNCHANGED pos

(* Mutant: the product wraps. *)
Allocatable_Wrapping(n, size) == pos + ((n * size) % Limit(8)) <= trailer_start_offset

(* allocate_vec: a product or a sum beyond a u64 is beyond the trailer.     *)
Allocatable(n, size) == pos + n * size <= trailer_start_offset

Allocate(n, size) == allocated' = IF n * size > allocated THEN n * size ELSE allocated

Ints(from, n, size) == [i \in 1..n |-> Number(from + (i - 1) * size, size)]

(***************************************************************************)
(* The outcomes of a call.                                                 *)
(***************************************************************************)
Fail ==
  /\ returned' = "err" /\ stack' = <<>> /\ pc' = "idle"
  /\ UNCHANGED <<object_on_stack, events, object>>

Goto(where) == pc' = where /\ UNCHANGED walk

Return(e) == events' = Append(events, e) /\ returned' = "event" /\ pc' = "idle"

Deliver(type, content) ==
  /\ Return([kind |-> "value", arg |-> object_ref,
             value |-> [type |-> type, content |-> content]])
  /\ UNCHANGED <<stack, object_on_stack, object>>

(***************************************************************************)
(* read_trailer.                                                           *)
(***************************************************************************)
Start == Len(bytes) - 32
OffsetSize == bytes[trailer_start_offset + 7]

HasMagic == Len(bytes) >= 8 /\ Slice(0, 8) = Magic
HeaderGood == HasMagic /\ Len(bytes) >= 32 /\ bytes[Start + 7] \in {1, 2, 3, 4, 8}

(* Shorter than a trailer, or no such size of an offset.                    *)
HeaderFails ==
  /\ pc = "idle" /\ ref_size = 0
  /\ ~HeaderGood
  /\ trailer_start_offset' = IF HasMagic /\ Len(bytes) >= 32 THEN Start
                             ELSE trailer_start_offset
  /\ Fail
  /\ UNCHANGED <<input, at, pos, ref_size, root_object, object_offsets, allocated>>

(* The bytes of the trailer are there since it was found from the end.      *)
ReadTrailer ==
  /\ pc = "idle" /\ ref_size = 0
  /\ HeaderGood
  /\ trailer_start_offset' = Start
  /\ ref_size' = bytes[Start + 8]
  /\ \/ /\ ref_size' \notin {1, 2, 4, 8}
        /\ Fail
        /\ UNCHANGED <<at, pos, root_object>>
     \/ /\ ref_size' \in {1, 2, 4, 8}
        /\ root_object' = Number(Start + 16, 8)
        /\ at' = Number(Start + 24, 8) /\ Seek(at')
        /\ Goto("offsets")
        /\ UNCHANGED object
  /\ UNCHANGED <<input, object_offsets, allocated>>

(* Mutant: the last object has no flag. *)
NoneOnStack_OneLess(n) == [r \in 0..(n - 2) |-> FALSE]

(* vec![false; self.object_offsets.len()] *)
NoneOnStack(n) == [r \in 0..(n - 1) |-> FALSE]

(* The offset table, on whose length the numbers of objects depend.         *)
ReadOffsets ==
  /\ pc = "offsets"
  /\ LET n == Number(trailer_start_offset + 8, 8) IN
     IF Allocatable(n, OffsetSize)
     THEN /\ Allocate(n, OffsetSize)
          /\ IF Available(n * OffsetSize)
             THEN /\ object_offsets' = Ints(at, n, OffsetSize)
                  /\ object_on_stack' = NoneOnStack(n)
                  /\ object_ref' = root_object
                  /\ pc' = "object"
                  /\ UNCHANGED <<stack, events, returned, ty, len, key_refs>>
             ELSE Fail /\ UNCHANGED object_offsets
     ELSE Fail /\ UNCHANGED <<object_offsets, allocated>>
  /\ UNCHANGED <<input, at, pos, trailer_start_offset, ref_size, root_object>>

(***************************************************************************)
(* read_next.                                                              *)
(***************************************************************************)
NextChild ==
  /\ pc = "idle" /\ stack # <<>>
  /\ Last(stack).child_object_refs # <<>>
  /\ object_ref' = Last(Last(stack).child_object_refs)
  /\ stack' = [stack EXCEPT ![Len(stack)].child_object_refs = Front(@)]
  /\ pc' = "object"
  /\ UNCHANGED <<input, at, pos, trailer, ty, len, key_refs, object_on_stack,
                 events, returned, allocated>>

EndCollection ==
  /\ pc = "idle" /\ stack # <<>>
  /\ Last(stack).child_object_refs = <<>>
  /\ stack' = Front(stack)
  /\ object_on_stack' = [object_on_stack EXCEPT ![Last(stack).object_ref] = FALSE]
  /\ Return([kind |-> "end", arg |-> 0])
  /\ UNCHANGED <<input, at, pos, trailer, object, allocated>>

Finished ==
  /\ pc = "idle" /\ ref_size # 0 /\ stack = <<>>
  /\ returned' = "none"
  /\ UNCHANGED <<input, at, pos, trailer, pc, object, stack, object_on_stack,
                 events, allocated>>

(* seek_to_object, and the token.                                           *)
SeekToObject ==
  /\ pc = "object"
  /\ IF /\ object_ref < Len(object_offsets)
        /\ object_offsets[object_ref + 1] < trailer_start_offset
     THEN LET offset == object_offsets[object_ref + 1] IN
          /\ Seek(offset) /\ at' = offset + 1
          /\ ty' = bytes[offset + 1] \div 16 /\ len' = bytes[offset + 1] % 16
          /\ key_refs' = <<>>
          /\ Goto(IF ty' \in {4, 5, 6, 10, 13} THEN "length" ELSE "scalar")
          /\ UNCHANGED object_ref
     ELSE Fail /\ UNCHANGED <<at, pos>>
  /\ UNCHANGED <<input, trailer, allocated>>

(* The bytes of the objects that have a fixed size; -1 for an unknown type. *)
Width ==
  CASE ty = 0 /\ len \in {8, 9} -> 0
    [] ty = 1 /\ len \in 0..4 -> 2 ^ len
    [] ty = 2 /\ len \in {2, 3} -> 2 ^ len
    [] ty = 3 /\ len = 3 -> 8
    [] ty = 8 /\ len < 8 -> len + 1
    [] OTHER -> -1

(* An integer of 16 bytes has to be a u64.                                  *)
ReadScalar ==
  /\ pc = "scalar"
  /\ IF Width = -1 \/ ~Available(Width)
     THEN Fail /\ UNCHANGED <<at, pos>>
     ELSE LET bs == Slice(at, Width) IN
          /\ Read(Width)
          /\ CASE ty = 0 -> Deliver("boolean", len = 9)
               [] ty = 1 /\ len < 3 -> Deliver("integer", Unsigned(bs))
               [] ty = 1 /\ len = 3 -> Deliver("integer", Signed(bs))
               [] ty = 1 /\ len = 4 ->
                    IF \A i \in 1..8 : Digit(bs[i]) = 0
                    THEN Deliver("integer", Unsigned(bs)) ELSE Fail
               [] ty = 2 /\ len = 2 -> Deliver("single", Unsigned(bs))
               [] ty = 2 /\ len = 3 -> Deliver("real", Unsigned(bs))
               [] ty = 3 -> IF Unsigned(bs) \in NotFinite THEN Fail
                            ELSE Deliver("date", Unsigned(bs))
               [] ty = 8 -> Deliver("uid", Unsigned(bs))
  /\ UNCHANGED <<input, trailer, allocated>>

(* read_object_len: in the token, or after a byte with its own size.        *)
ReadLength ==
  /\ pc = "length"
  /\ \/ /\ len < Inline
        /\ Goto("payload")
        /\ UNCHANGED <<at, pos, object>>
     \/ /\ len >= Inline
        /\ LET width == IF Available(1) THEN <<1, 2, 4, 8>>[(bytes[at + 1] % 4) + 1] ELSE 0 IN
           IF Available(1) /\ Available(1 + width)
           THEN /\ len' = Number(at + 1, width)
                /\ Read(1 + width)
                /\ Goto("payload")
                /\ UNCHANGED <<object_ref, ty, key_refs>>
           ELSE Fail /\ UNCHANGED <<at, pos>>
  /\ UNCHANGED <<input, trailer, allocated>>

(* len pieces of the given size, and then what Found says.                  *)
ReadPieces(size, Found) ==
  IF Allocatable(len, size)
  THEN /\ Allocate(len, size)
       /\ IF Available(len * size) THEN Read(len * size) /\ Found
                                   ELSE Fail /\ UNCHANGED <<at, pos>>
  ELSE Fail /\ UNCHANGED <<at, pos, allocated>>

(* Data, or a string: of several-byte characters only UTF-16 ones are kept. *)
ReadData ==
  /\ pc = "payload" /\ ty \in {4, 5, 6}
  /\ \/ ty = 4 /\ ReadPieces(1, Deliver("data", Slice(at, len)))
     \/ /\ ty = 5
        /\ ReadPieces(1, IF \A i \in 1..len : bytes[at + i] < 128
                         THEN Deliver("ascii", Slice(at, len)) ELSE Fail)
     \/ /\ ty = 6
        /\ LET units == Ints(at, len, 2) IN
           ReadPieces(2, IF \A i \in 1..len : units[i] \notin Unpaired
                         THEN Deliver("utf16", units) ELSE Fail)
  /\ UNCHANGED <<input, trailer>>

(* The references of an array, or those of the keys of a dictionary.        *)
ReadRefs ==
  /\ pc = "payload" /\ ty \in {10, 13}
  /\ ReadPieces(ref_size,
       /\ key_refs' = Ints(at, len, ref_size)
       /\ Goto(IF ty = 10 THEN "push" ELSE "values")
       /\ UNCHANGED <<object_ref, ty, len>>)
  /\ UNCHANGED <<input, trailer>>

ReadValueRefs ==
  /\ pc = "values"
  /\ ReadPieces(ref_size,
       /\ key_refs' = key_refs \o Ints(at, len, ref_size)
       /\ Goto("double")
       /\ UNCHANGED <<object_ref, ty, len>>)
  /\ UNCHANGED <<input, trailer>>

(* Mutant: the vector for both is taken for granted. *)
Doubled_Unchecked == TRUE

Doubled == Allocatable(2 * len, ref_size)

(* The vector for keys and values.                                          *)
DoubleLength ==
  /\ pc = "double"
  /\ IF Doubled
     THEN Allocate(2 * len, ref_size) /\ Goto("push") /\ UNCHANGED object
     ELSE Fail /\ UNCHANGED allocated
  /\ UNCHANGED <<input, at, pos, trailer>>

(* Keys and values by turns.                                                *)
KeysAndValues ==
  [i \in 1..(2 * len) |->
     IF i % 2 = 1 THEN key_refs[(i + 1) \div 2] ELSE key_refs[len + i \div 2]]

(* In reverse, so that the elements come off the end in order.              *)
ChildRefs == Reverse(IF ty = 10 THEN key_refs ELSE KeysAndValues)

Type == IF ty = 10 THEN "array" ELSE "dict"

PushStackItem ==
  /\ pc = "push"
  /\ IF object_on_stack[object_ref]
     THEN Fail
     ELSE /\ object_on_stack' = [object_on_stack EXCEPT ![object_ref] = TRUE]
          /\ stack' = Append(stack, [object_ref |-> object_ref, ty |-> Type,
                                     child_object_refs |-> ChildRefs])
          /\ Return([kind |-> Type, arg |-> len])
          /\ UNCHANGED object
  /\ UNCHANGED <<input, at, pos, trailer, allocated>>

Init ==
  /\ \E f \in Files : bytes = f.bytes /\ table = f.table
  /\ at = 0 /\ pos = 0
  /\ trailer_start_offset = 0 /\ ref_size = 0 /\ root_object = 0 /\ object_offsets = <<>>
  /\ pc = "idle" /\ object_ref = 0 /\ ty = 0 /\ len = 0 /\ key_refs = <<>>
  /\ stack = <<>> /\ object_on_stack = << >> /\ events = <<>> /\ returned = "none"
  /\ allocated = 0

Next ==
  \/ HeaderFails \/ ReadTrailer \/ ReadOffsets
  \/ NextChild \/ EndCollection \/ Finished
  \/ SeekToObject \/ ReadScalar \/ ReadLength \/ ReadData
  \/ ReadRefs \/ ReadValueRefs \/ DoubleLength \/ PushStackItem

Spec == Init /\ [][Next]_vars

(***************************************************************************)
(* Properties.                                                             *)
(***************************************************************************)

(* However large the lengths in the file, no vector is ever made for more   *)
(* elements than the bytes before the trailer could hold, whatever their    *)
(* product overflows to.                                                    *)
AllocationsBounded == allocated <= trailer_start_offset

(* An object of a variable length has been read.                            *)
PiecesRead ==
  \/ pc = "push"
  \/ /\ pc = "idle" /\ returned = "event" /\ Last(events).kind = "value"
     /\ Last(events).value.type \in {"data", "ascii", "utf16"}

(* "Check we are not reading past the start of the plist trailer"           *)
(* (binary_reader.rs:81): what an accepted object holds ends before it.      *)
EndsBeforeTrailer == PiecesRead /\ len > 0 => at <= trailer_start_offset

(* What is checked is where the object starts, since reading does not move  *)
(* pos: an object may run into the trailer by its token and length, ten     *)
(* bytes at most.  That the two lists of a dictionary do not overrun it by  *)
(* more, although each is checked from the start of the object, is due to   *)
(* the check of the vector for both.                                        *)
OverrunIsHeader == PiecesRead => at <= trailer_start_offset + 10

(* "internal consistency error" (binary_reader.rs:199, 211): the flags are  *)
(* indexed by the numbers of objects without a look at the table, on the    *)
(* way down and on the way up again, and every such number has a flag.      *)
FlagsWithinTable ==
  /\ pc = "push" => object_ref \in DOMAIN object_on_stack
  /\ \A d \in 1..Len(stack) : stack[d].object_ref \in DOMAIN object_on_stack

(* The values of a file in a known encoding are delivered as they were      *)
(* encoded: at every width of integers, uids, lengths, references, offsets. *)
ValuesReadBack ==
  table # <<>> =>
    \A i \in 1..Len(events) :
      events[i].kind = "value" => events[i].value = table[events[i].arg + 1].value

(***************************************************************************)
(* Over a file that encodes a table this is BinaryReader over that table.  *)
(***************************************************************************)
(* A call that is under way is not yet seen.                                *)
Called == ref_size # 0 /\ (pc = "idle" \/ events # <<>>)

Due(d) ==
  LET refs == stack[d].child_object_refs IN
  IF d = Len(stack) /\ pc # "idle" THEN Append(refs, object_ref) ELSE refs

SeenStack ==
  [d \in 1..Len(stack) |-> [stack[d] EXCEPT !.child_object_refs = Due(d)]]

SeenFlags ==
  IF ~Called THEN << >>
  ELSE [r \in 0..(MaxObjects - 1) |-> r \in DOMAIN object_on_stack /\ object_on_stack[r]]

Reader == INSTANCE BinaryReader WITH
  Files <- {}, NumObjects <- MaxObjects,
  file <- [header |-> "good", root |-> 0, faulty |-> FALSE,
           objects |-> [r \in 0..(MaxObjects - 1) |->
                          IF r < Len(table)
                          THEN [kind |-> table[r + 1].kind, refs |-> table[r + 1].refs]
                          ELSE [kind |-> "unreadable", refs |-> <<>>]]],
  initialised <- Called,
  stack <- SeenStack, object_on_stack <- SeenFlags,
  events <- [i \in 1..Len(events) |-> [kind |-> events[i].kind, arg |-> events[i].arg]]

(* Each call of next is one of BinaryReader: what the bytes say, in any of  *)
(* the widths that an encoder may choose, is the table they were made from. *)
ReadsTable ==
  [][table # <<>> => Reader!Next]_<<Called, SeenStack, SeenFlags, events, returned>>

=============================================================================
