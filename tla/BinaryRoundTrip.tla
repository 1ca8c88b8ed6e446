-------------------------- MODULE BinaryRoundTrip --------------------------
(***************************************************************************)
(* The binary encoding end to end: whatever BinaryWriter writes,           *)
(* BinaryReader reads back as the events that were written.  The writer    *)
(* may write several plists one after the other; the reader is given the   *)
(* last one once the client has no more calls under way.                   *)
(***************************************************************************)
EXTENDS BinaryWriter

VARIABLES reading,   (* FALSE while the writer is used, TRUE afterwards *)
          rInitialised, rStack, rOnStack, rEvents, rReturned

reader == <<rInitialised, rStack, rOnStack, rEvents, rReturned>>
allVars == <<vars, reading, reader>>

(* The file that holds plist p: its offset table names its objects.  The    *)
(* numbers past the end of the table name nothing that can be read.         *)
Table(p) ==
  [header |-> "good", root |-> 0, faulty |-> FALSE,
   objects |-> [r \in 0..(MaxCalls - 1) |->
                  IF r \in DOMAIN p.offsets
                  THEN [kind |-> p.objects[p.offsets[r]].kind,
                        refs |-> p.objects[p.offsets[r]].refs]
                  ELSE [kind |-> "unreadable", refs |-> <<>>]]]

R == INSTANCE BinaryReader WITH
  Files <- {}, NumObjects <- MaxCalls, file <- Table(Last(plists)),
  initialised <- rInitialised, stack <- rStack, object_on_stack <- rOnStack,
  events <- rEvents, returned <- rReturned

RoundTripInit ==
  /\ Init
  /\ reading = FALSE
  /\ rInitialised = FALSE /\ rStack = <<>> /\ rOnStack = << >>
  /\ rEvents = <<>> /\ rReturned = "none"

Write == ~reading /\ Next /\ UNCHANGED <<reading, reader>>

Turn ==
  /\ ~reading
  /\ pc = "idle" /\ plists # <<>> /\ input = <<>>
  /\ reading' = TRUE
  /\ UNCHANGED <<vars, reader>>

Read == reading /\ UNCHANGED <<vars, reading>> /\ R!Next

RoundTripNext == Write \/ Turn \/ Read

RoundTripSpec == RoundTripInit /\ [][RoundTripNext]_allVars

(* A call of the writer goes on until it returns.                           *)
FairRoundTripSpec ==
  RoundTripSpec /\ WF_allVars(WritePlist /\ UNCHANGED <<reading, reader>>)

(***************************************************************************)
(* Properties.                                                             *)
(***************************************************************************)
(* The call that event e stands for: a value is the one that the object     *)
(* referred to holds, a start's length is the reader's own.                 *)
AsCall(e) ==
  [kind |-> e.kind,
   arg |-> IF e.kind = "value"
           THEN LET p == Last(plists) IN p.objects[p.offsets[e.arg]].value
           ELSE 0]

(* The reader delivers the events written, in the order they were written,  *)
(* all of them when it ends, and never fails: whatever the sharing of       *)
(* values, the order of keys, the nesting, and what was written before.     *)
ReadsBack ==
  reading =>
    LET written == Last(plists).input IN
    /\ rReturned # "err"
    /\ Len(rEvents) <= Len(written)
    /\ \A i \in 1..Len(rEvents) : AsCall(rEvents[i]) = written[i]
    /\ rReturned = "none" /\ rInitialised => Len(rEvents) = Len(written)

=============================================================================
