------------------------ MODULE BinaryWriterProofs ------------------------
(***************************************************************************)
(* The binary writer never panics and implements the event sink, for all   *)
(* values, however many calls are made and wherever the output fails.      *)
(*                                                                         *)
(* The layout of the buffered events is stated by extents: an event with   *)
(* its extent is a block, and the blocks are nested.  While the plist is   *)
(* written the objects that have a reference are exactly the root and the  *)
(* elements of the collections already written.                            *)
(***************************************************************************)
EXTENDS BinaryWriter, SequenceLemmas

Calls == [kind : {"value"}, arg : Values] \cup [kind : {"array", "dict", "end"}, arg : {0}]

Writing == pc \in {"objects", "refs", "keys"}

(***************************************************************************)
(* The layout.                                                             *)
(***************************************************************************)
Collecting(evs, i) == i \in 1..Len(evs) /\ evs[i].kind = "collection"

(* The last position of the block that begins at i.                         *)
BlockEnd(evs, i) ==
  CASE evs[i].kind = "collection" -> i + evs[i].skip
    [] evs[i].kind = "keys"       -> i + evs[i].len
    [] OTHER                      -> i

(* The last position of the elements (of a dictionary: the values) of i.    *)
ElementsEnd(evs, i) == i + KeysStart(evs[i])

(* A closed collection holds whole blocks of closed collections, and after  *)
(* those of a dictionary follow the event that counts its keys and the keys.*)
LaidCollection(evs, open, i) ==
  /\ i <= ElementsEnd(evs, i)
  /\ \A p \in (i + 1)..ElementsEnd(evs, i) :
       p \notin open /\ BlockEnd(evs, p) <= ElementsEnd(evs, i)
  /\ evs[i].ty = "dict" => evs[ElementsEnd(evs, i) + 1] = DictionaryKeys(evs[i].len)

(* Keys are counted for a closed dictionary, and are values.                *)
LaidKeys(evs, open, i) ==
  /\ \A p \in (i + 1)..(i + evs[i].len) : evs[p].kind = "value"
  /\ \E j \in 1..(i - 1) :
       /\ j \notin open /\ evs[j].kind = "collection" /\ evs[j].ty = "dict"
       /\ ElementsEnd(evs, j) + 1 = i

(* The layout of evs, where the collections at the positions open are open. *)
LaidAt(evs, open, i) ==
  /\ BlockEnd(evs, i) <= Len(evs)
  /\ evs[i].kind = "collection" => LaidCollection(evs, open, i)
  /\ evs[i].kind = "keys" => LaidKeys(evs, open, i)

Laid(evs, open) == \A i \in 1..Len(evs) : i \notin open => LaidAt(evs, open, i)

(* p is an element of the collection at i, not of one inside it.            *)
Child(evs, i, p) ==
  /\ Collecting(evs, i)
  /\ p \in (i + 1)..ElementsEnd(evs, i)
  /\ \A q \in (i + 1)..(p - 1) : BlockEnd(evs, q) < p

(***************************************************************************)
(* While the client calls.                                                 *)
(***************************************************************************)
OpenSet == { collection_stack[d] : d \in 1..Len(collection_stack) }

OpenCollections ==
  /\ \A d \in 1..Len(collection_stack) : events[collection_stack[d]].kind = "collection"
  /\ \A d \in 1..Len(collection_stack), b \in 1..Len(collection_stack) :
       b < d => collection_stack[b] < collection_stack[d]
  /\ collection_stack # <<>> => collection_stack[1] = 1

(* The keys that wait, of which there are k, are those of the dictionaries  *)
(* of evs that are open in stack.                                           *)
Waits(evs, stack, k) ==
  \E waiting \in [0..Len(stack) -> Nat] :
    /\ waiting[0] = 0
    /\ \A d \in 1..Len(stack) : waiting[d] = waiting[d - 1] + KeysOf(evs[stack[d]])
    /\ waiting[Len(stack)] = k

KeysWait == Waits(events, collection_stack, Len(dictionary_key_events))

Buffering ==
  /\ Laid(events, OpenSet)
  /\ OpenCollections
  /\ KeysWait
  /\ \A i \in 1..Len(events) : events[i].kind = "collection" => events[i].object_ref = NoRef

(***************************************************************************)
(* While the plist is written.                                             *)
(***************************************************************************)
(* What waits is the end of the positions of the collection at hand.        *)
Remaining ==
  LET all == Positions(cursor, todo[cursor]) IN
  /\ Len(pending) <= Len(all)
  /\ \A j \in 1..Len(pending) : pending[j] = all[Len(all) - Len(pending) + j]

(* The element of the collection at hand that is next to get a reference.   *)
NextElement ==
  IF Len(pending) > KeysStart(todo[cursor]) THEN cursor + 1
  ELSE ElementsEnd(todo, cursor) + 1 - Len(pending)

(* The element q of i has got its reference.                                *)
Reffed(i, q) ==
  \/ i < cursor
  \/ i = cursor /\ pc = "refs" /\ q < NextElement
  \/ i = cursor /\ pc = "keys"

Referred(q) == q = 1 \/ \E i \in 1..Len(todo) : Child(todo, i, q) /\ Reffed(i, q)

Assignment(q) ==
  /\ todo[q].kind = "collection" => (todo[q].object_ref # NoRef <=> Referred(q))
  /\ todo[q].kind = "value" /\ Referred(q) => values[todo[q].index].state # "unassigned"

KeysAt == (ElementsEnd(todo, cursor) + 2)..(cursor + todo[cursor].skip)

Keyed(q) == values[todo[q].index].state # "unassigned"

AtHand ==
  /\ Collecting(todo, cursor)
  /\ pc = "refs" =>
       /\ Remaining
       /\ NextElement = ElementsEnd(todo, cursor) + 1 \/ Child(todo, cursor, NextElement)
       /\ \A q \in KeysAt : q + Len(pending) <= cursor + todo[cursor].skip + KeysStart(todo[cursor])
                              => Keyed(q)
  /\ pc = "keys" =>
       /\ \A j \in 1..Len(pending) : pending[j] \in KeysAt
       /\ \A q \in KeysAt : Keyed(q)

(* No keys event has the position p among its keys.                         *)
NotAmongKeys(evs, p) ==
  \A k \in 1..(p - 1) : k <= Len(evs) /\ evs[k].kind = "keys" => k + evs[k].len < p

Numbering ==
  /\ todo # <<>> /\ BlockEnd(todo, 1) = Len(todo)
  /\ Laid(todo, {})
  /\ NotAmongKeys(todo, cursor)
  /\ \A q \in 1..Len(todo) : Assignment(q)
  /\ pc = "objects" => pending = <<>>
  /\ pc # "objects" => AtHand

(***************************************************************************)
(* The inductive invariant.                                                *)
(***************************************************************************)
(* Where the writer is, and what is left of the buffer there.               *)
Phases ==
  /\ pc # "panic"
  /\ pc = "idle" => verdict \in {"none", "ok"} /\ (events # <<>> => collection_stack # <<>>)
  /\ pc = "header" => /\ verdict = "ok" /\ collection_stack = <<>>
                      /\ events # <<>> /\ BlockEnd(events, 1) = Len(events)
  /\ Writing => /\ verdict = "ok" /\ collection_stack = <<>>
                /\ events = <<>> /\ dictionary_key_events = <<>>
  /\ pc = "stopped" => verdict \in {"illegal", "failed"}
  /\ call \in Calls

RefsAssigned == \A i \in 1..Len(values) : values[i].state # "unassigned" => values[i].ref \in Nat

WInv ==
  /\ TypeOK /\ Phases /\ RefsAssigned
  /\ pc \in {"idle", "header"} => Buffering
  /\ Writing => Numbering

(***************************************************************************)
(* The events.                                                            *)
(***************************************************************************)
(* The events when there are n values.                                      *)
EventsFor(n) ==
  [kind : {"collection"}, ty : {"array", "dict"}, len : Nat, skip : Nat,
   object_ref : Nat \cup {NoRef}]
    \cup [kind : {"value"}, index : 1..n] \cup [kind : {"keys"}, len : Nat]

(* The events of the writer are those for the values it has.                *)
LEMMA EventsAreFor == Events = EventsFor(Len(values))
  BY DEF Events, EventsFor

(* The fields of an event, by its kind.                                     *)
LEMMA EventFacts ==
  ASSUME NEW n \in Nat, NEW e \in EventsFor(n)
  PROVE  /\ e.kind \in {"collection", "value", "keys"}
         /\ e.kind = "collection" =>
              /\ e.ty \in {"array", "dict"} /\ e.len \in Nat /\ e.skip \in Nat
              /\ e.object_ref \in Nat \cup {NoRef}
              /\ e = [kind |-> "collection", ty |-> e.ty, len |-> e.len, skip |-> e.skip,
                      object_ref |-> e.object_ref]
         /\ e.kind = "value" => e.index \in 1..n /\ e = ValueAt(e.index)
         /\ e.kind = "keys" => e.len \in Nat /\ e = DictionaryKeys(e.len)
  BY DEF EventsFor, ValueAt, DictionaryKeys

(* The events the writer makes.                                             *)
LEMMA EventsMade ==
  ASSUME NEW n \in Nat
  PROVE  /\ \A ty \in {"array", "dict"} : Collection(ty) \in EventsFor(n)
         /\ \A i \in 1..n : ValueAt(i) \in EventsFor(n)
         /\ \A k \in Nat : DictionaryKeys(k) \in EventsFor(n)
         /\ \A m \in Nat : m <= n => EventsFor(m) \subseteq EventsFor(n)
  BY DEF EventsFor, ValueAt, DictionaryKeys, Collection, NoRef

(* A collection that is given another length, end or reference.             *)
LEMMA EventChanged ==
  ASSUME NEW n \in Nat, NEW e \in EventsFor(n), e.kind = "collection"
  PROVE  /\ \A len \in Nat : [e EXCEPT !.len = len] \in EventsFor(n)
         /\ \A ref \in Nat : [e EXCEPT !.object_ref = ref] \in EventsFor(n)
         /\ \A len \in Nat, skip \in Nat :
              [[e EXCEPT !.len = len] EXCEPT !.skip = skip] \in EventsFor(n)
  BY DEF EventsFor, NoRef

(* Where a block and its elements end.                                      *)
LEMMA BlockFacts ==
  ASSUME NEW n \in Nat, NEW evs \in Seq(EventsFor(n)), NEW i \in 1..Len(evs)
  PROVE  /\ i \in Nat \ {0} /\ Len(evs) \in Nat
         /\ evs[i] \in EventsFor(n)
         /\ BlockEnd(evs, i) \in Nat /\ i <= BlockEnd(evs, i)
         /\ evs[i].kind = "value" => BlockEnd(evs, i) = i
         /\ evs[i].kind = "keys" => BlockEnd(evs, i) = i + evs[i].len /\ evs[i].len \in Nat
         /\ evs[i].kind = "collection" =>
              /\ BlockEnd(evs, i) = i + evs[i].skip
              /\ evs[i].skip \in Nat /\ evs[i].len \in Nat /\ evs[i].ty \in {"array", "dict"}
              /\ ElementsEnd(evs, i) \in Int
              /\ evs[i].ty = "array" => ElementsEnd(evs, i) = i + evs[i].skip
              /\ evs[i].ty = "dict" => ElementsEnd(evs, i) = i + evs[i].skip - evs[i].len - 1
              /\ ElementsEnd(evs, i) <= BlockEnd(evs, i)
              /\ evs[i].ty = "dict" => ElementsEnd(evs, i) < BlockEnd(evs, i)
<1>1. i \in Nat \ {0} /\ Len(evs) \in Nat /\ evs[i] \in EventsFor(n)
  OBVIOUS
<1>2. evs[i].kind \in {"collection", "value", "keys"}
  BY <1>1, EventFacts
<1>3. CASE evs[i].kind = "collection"
  <2>1. evs[i].skip \in Nat /\ evs[i].len \in Nat /\ evs[i].ty \in {"array", "dict"}
    BY <1>1, <1>3, EventFacts
  <2>2. BlockEnd(evs, i) = i + evs[i].skip
    BY <1>3 DEF BlockEnd
  <2> QED
    BY <1>1, <1>3, <2>1, <2>2 DEF ElementsEnd, KeysStart
<1>4. CASE evs[i].kind = "value"
  BY <1>1, <1>4 DEF BlockEnd
<1>5. CASE evs[i].kind = "keys"
  <2>1. evs[i].len \in Nat
    BY <1>1, <1>5, EventFacts
  <2> QED
    BY <1>1, <1>5, <2>1 DEF BlockEnd
<1> QED
  BY <1>2, <1>3, <1>4, <1>5

(***************************************************************************)
(* The layout is kept.                                                     *)
(***************************************************************************)
(* evs2 begins as evs does, except that the open collections may change.    *)
Continues(evs, evs2, open) ==
  /\ Len(evs) <= Len(evs2)
  /\ \A i \in 1..Len(evs) : evs2[i].kind = evs[i].kind /\ (i \notin open => evs2[i] = evs[i])

(* A position stays laid out when what follows the events grows.            *)
LEMMA LaidAtKept ==
  ASSUME NEW n \in Nat, NEW evs \in Seq(EventsFor(n)), NEW evs2 \in Seq(EventsFor(n)),
         NEW open, NEW open2, Continues(evs, evs2, open),
         \A o \in open : o \in 1..Len(evs) => evs[o].kind = "collection",
         \A o \in open2 : o \in 1..Len(evs) => o \in open,
         NEW i \in 1..Len(evs), i \notin open, LaidAt(evs, open, i)
  PROVE  LaidAt(evs2, open2, i)
<1>1. /\ Len(evs) \in Nat /\ Len(evs2) \in Nat /\ Len(evs) <= Len(evs2)
      /\ i \in 1..Len(evs2) /\ evs2[i] = evs[i]
  BY DEF Continues
<1>2. BlockEnd(evs2, i) = BlockEnd(evs, i) /\ ElementsEnd(evs2, i) = ElementsEnd(evs, i)
  BY <1>1 DEF BlockEnd, ElementsEnd
<1>3. BlockEnd(evs, i) <= Len(evs)
  BY DEF LaidAt
<1>4. BlockEnd(evs, i) \in Nat
  BY BlockFacts
<1>5. ASSUME evs[i].kind = "collection"
      PROVE  LaidCollection(evs2, open2, i)
  <2>1. LaidCollection(evs, open, i)
    BY <1>5 DEF LaidAt
  <2>2. /\ ElementsEnd(evs, i) \in Int /\ ElementsEnd(evs, i) <= BlockEnd(evs, i)
        /\ evs[i].ty = "dict" => ElementsEnd(evs, i) < BlockEnd(evs, i)
    BY <1>5, BlockFacts
  <2>3. ASSUME NEW p \in (i + 1)..ElementsEnd(evs2, i)
        PROVE  p \notin open2 /\ BlockEnd(evs2, p) <= ElementsEnd(evs2, i)
    <3>1. p \in 1..Len(evs) /\ p \notin open /\ BlockEnd(evs, p) <= ElementsEnd(evs, i)
      BY <1>1, <1>2, <1>3, <1>4, <2>1, <2>2 DEF LaidCollection
    <3>2. evs2[p] = evs[p]
      BY <3>1 DEF Continues
    <3> QED
      BY <1>2, <3>1, <3>2 DEF BlockEnd
  <2>4. ASSUME evs[i].ty = "dict"
        PROVE  evs2[ElementsEnd(evs2, i) + 1] = DictionaryKeys(evs2[i].len)
    <3> DEFINE k == ElementsEnd(evs, i) + 1
    <3>1. k \in 1..Len(evs)
      <4>1. i <= ElementsEnd(evs, i)
        BY <2>1 DEF LaidCollection
      <4> QED
        BY <1>1, <1>3, <1>4, <2>2, <2>4, <4>1
    <3>2. evs[k] = DictionaryKeys(evs[i].len)
      BY <2>1, <2>4 DEF LaidCollection
    <3>3. k \notin open
      BY <3>1, <3>2 DEF DictionaryKeys
    <3>4. evs2[k] = evs[k]
      BY <3>1, <3>3 DEF Continues
    <3> QED
      BY <1>1, <1>2, <3>2, <3>4
  <2> QED
    BY <1>1, <1>2, <2>1, <2>3, <2>4 DEF LaidCollection
<1>6. ASSUME evs[i].kind = "keys"
      PROVE  LaidKeys(evs2, open2, i)
  <2>1. LaidKeys(evs, open, i)
    BY <1>6 DEF LaidAt
  <2>2. evs[i].len \in Nat /\ i + evs[i].len <= Len(evs)
    BY <1>3, <1>6, BlockFacts
  <2>3. ASSUME NEW p \in (i + 1)..(i + evs2[i].len)
        PROVE  evs2[p].kind = "value"
    <3>1. p \in 1..Len(evs) /\ p \in (i + 1)..(i + evs[i].len)
      BY <1>1, <2>2
    <3>2. evs[p].kind = "value"
      BY <2>1, <3>1 DEF LaidKeys
    <3> QED
      BY <3>1, <3>2 DEF Continues
  <2>4. PICK j \in 1..(i - 1) :
               /\ j \notin open /\ evs[j].kind = "collection" /\ evs[j].ty = "dict"
               /\ ElementsEnd(evs, j) + 1 = i
    BY <2>1 DEF LaidKeys
  <2>5. j \in 1..Len(evs) /\ evs2[j] = evs[j] /\ j \notin open2
    BY <2>4 DEF Continues
  <2>6. ElementsEnd(evs2, j) = ElementsEnd(evs, j)
    BY <2>5 DEF ElementsEnd
  <2> QED
    BY <2>3, <2>4, <2>5, <2>6 DEF LaidKeys
<1> QED
  <2>1. BlockEnd(evs2, i) <= Len(evs2)
    BY <1>1, <1>2, <1>3, <1>4
  <2> QED
    BY <1>1, <1>5, <1>6, <2>1 DEF LaidAt

(* Events stay laid out when another position opens or is added.            *)
LEMMA LaidExtended ==
  ASSUME NEW n \in Nat, NEW evs \in Seq(EventsFor(n)), NEW evs2 \in Seq(EventsFor(n)),
         NEW open, NEW open2, Continues(evs, evs2, open), Laid(evs, open),
         \A o \in open : o \in 1..Len(evs) => evs[o].kind = "collection",
         \A o \in open2 : o \in 1..Len(evs) => o \in open,
         \A i \in 1..Len(evs2) :
           i \notin open2 /\ (i \in open \/ i > Len(evs)) => LaidAt(evs2, open2, i)
  PROVE  Laid(evs2, open2)
<1> SUFFICES ASSUME NEW i \in 1..Len(evs2), i \notin open2
             PROVE  LaidAt(evs2, open2, i)
  BY DEF Laid
<1>1. CASE i \in open \/ i > Len(evs)
  BY <1>1
<1>2. CASE i \notin open /\ i <= Len(evs)
  <2>1. i \in 1..Len(evs) /\ LaidAt(evs, open, i)
    BY <1>2 DEF Laid
  <2> QED
    BY <1>2, <2>1, LaidAtKept
<1> QED
  BY <1>1, <1>2

(***************************************************************************)
(* The elements of the collections of a whole plist.                       *)
(***************************************************************************)
LEMMA WholeFacts ==
  ASSUME NEW n \in Nat, NEW evs \in Seq(EventsFor(n)), Laid(evs, {}), NEW i \in 1..Len(evs)
  PROVE  /\ i \in Nat \ {0} /\ Len(evs) \in Nat
         /\ BlockEnd(evs, i) \in Nat /\ i <= BlockEnd(evs, i) /\ BlockEnd(evs, i) <= Len(evs)
         /\ evs[i].kind = "collection" =>
              /\ ElementsEnd(evs, i) \in Int
              /\ i <= ElementsEnd(evs, i) /\ ElementsEnd(evs, i) <= BlockEnd(evs, i)
              /\ \A p \in (i + 1)..ElementsEnd(evs, i) : BlockEnd(evs, p) <= ElementsEnd(evs, i)
              /\ evs[i].ty = "array" => ElementsEnd(evs, i) = BlockEnd(evs, i)
              /\ evs[i].ty = "dict" =>
                   /\ ElementsEnd(evs, i) + 1 + evs[i].len = BlockEnd(evs, i)
                   /\ evs[ElementsEnd(evs, i) + 1] = DictionaryKeys(evs[i].len)
<1>1. LaidAt(evs, {}, i)
  BY DEF Laid
<1>2. ASSUME evs[i].kind = "collection"
      PROVE  LaidCollection(evs, {}, i)
  BY <1>1, <1>2 DEF LaidAt
<1>3. BlockEnd(evs, i) <= Len(evs)
  BY <1>1 DEF LaidAt
<1>4. ASSUME evs[i].kind = "collection"
      PROVE  /\ ElementsEnd(evs, i) \in Int
             /\ i <= ElementsEnd(evs, i) /\ ElementsEnd(evs, i) <= BlockEnd(evs, i)
             /\ \A p \in (i + 1)..ElementsEnd(evs, i) : BlockEnd(evs, p) <= ElementsEnd(evs, i)
             /\ evs[i].ty = "array" => ElementsEnd(evs, i) = BlockEnd(evs, i)
             /\ evs[i].ty = "dict" =>
                  /\ ElementsEnd(evs, i) + 1 + evs[i].len = BlockEnd(evs, i)
                  /\ evs[ElementsEnd(evs, i) + 1] = DictionaryKeys(evs[i].len)
  <2>1. LaidCollection(evs, {}, i)
    BY <1>2, <1>4
  <2>2. /\ i <= ElementsEnd(evs, i)
        /\ \A p \in (i + 1)..ElementsEnd(evs, i) : BlockEnd(evs, p) <= ElementsEnd(evs, i)
        /\ evs[i].ty = "dict" => evs[ElementsEnd(evs, i) + 1] = DictionaryKeys(evs[i].len)
    BY <2>1 DEF LaidCollection
  <2>3. /\ ElementsEnd(evs, i) \in Int /\ ElementsEnd(evs, i) <= BlockEnd(evs, i)
        /\ evs[i].ty = "array" => ElementsEnd(evs, i) = BlockEnd(evs, i)
        /\ evs[i].ty = "dict" => ElementsEnd(evs, i) + 1 + evs[i].len = BlockEnd(evs, i)
    <3>1. /\ BlockEnd(evs, i) = i + evs[i].skip /\ i \in Nat
          /\ evs[i].skip \in Nat /\ evs[i].len \in Nat
          /\ ElementsEnd(evs, i) \in Int /\ ElementsEnd(evs, i) <= BlockEnd(evs, i)
          /\ evs[i].ty = "array" => ElementsEnd(evs, i) = i + evs[i].skip
          /\ evs[i].ty = "dict" => ElementsEnd(evs, i) = i + evs[i].skip - evs[i].len - 1
      BY <1>4, BlockFacts
    <3> QED
      BY <3>1
  <2> QED
    BY <2>2, <2>3
<1> QED
  BY <1>3, <1>4, BlockFacts

(* An event has one parent at most.                                         *)
LEMMA ParentUnique ==
  ASSUME NEW n \in Nat, NEW evs \in Seq(EventsFor(n)), Laid(evs, {}),
         NEW p, NEW i, NEW j, Child(evs, i, p), Child(evs, j, p)
  PROVE  i = j
<1>1. ASSUME NEW k, NEW l, Child(evs, k, p), Child(evs, l, p)
      PROVE  ~(k < l)
  <2> SUFFICES ASSUME k < l
               PROVE  FALSE
    OBVIOUS
  <2>1. /\ k \in 1..Len(evs) /\ l \in 1..Len(evs)
        /\ p \in (l + 1)..ElementsEnd(evs, l)
        /\ \A q \in (k + 1)..(p - 1) : BlockEnd(evs, q) < p
        /\ evs[l].kind = "collection"
    BY <1>1 DEF Child, Collecting
  <2>2. /\ ElementsEnd(evs, l) \in Int /\ ElementsEnd(evs, l) <= BlockEnd(evs, l)
        /\ BlockEnd(evs, l) \in Nat
    BY <2>1, WholeFacts
  <2>3. l \in (k + 1)..(p - 1)
    BY <2>1, <2>2
  <2>4. BlockEnd(evs, l) < p
    BY <2>1, <2>3
  <2> QED
    BY <2>1, <2>2, <2>4
<1>2. i \in Nat /\ j \in Nat
  BY DEF Child, Collecting
<1>3. ~(i < j) /\ ~(j < i)
  BY <1>1
<1> QED
  BY <1>2, <1>3

(* A child is a value or a collection.                                      *)
LEMMA ChildKind ==
  ASSUME NEW n \in Nat, NEW evs \in Seq(EventsFor(n)), Laid(evs, {}),
         NEW i, NEW p, Child(evs, i, p)
  PROVE  /\ p \in 1..Len(evs) /\ i \in 1..Len(evs) /\ i < p
         /\ evs[i].kind = "collection" /\ p <= ElementsEnd(evs, i)
         /\ evs[p].kind \in {"value", "collection"}
         /\ i + 1 <= p /\ ElementsEnd(evs, i) \in Nat /\ ElementsEnd(evs, i) <= Len(evs)
         /\ BlockEnd(evs, p) <= ElementsEnd(evs, i)
<1>1. /\ i \in 1..Len(evs) /\ evs[i].kind = "collection"
      /\ p \in (i + 1)..ElementsEnd(evs, i)
      /\ \A q \in (i + 1)..(p - 1) : BlockEnd(evs, q) < p
  BY DEF Child, Collecting
<1>2. /\ ElementsEnd(evs, i) \in Int /\ ElementsEnd(evs, i) <= BlockEnd(evs, i)
      /\ BlockEnd(evs, i) <= Len(evs) /\ BlockEnd(evs, i) \in Nat /\ Len(evs) \in Nat
      /\ \A q \in (i + 1)..ElementsEnd(evs, i) : BlockEnd(evs, q) <= ElementsEnd(evs, i)
      /\ i <= ElementsEnd(evs, i)
  BY <1>1, WholeFacts
<1>3. p \in 1..Len(evs) /\ i < p /\ ElementsEnd(evs, i) \in Nat /\ ElementsEnd(evs, i) <= Len(evs)
  BY <1>1, <1>2
<1>4. evs[p].kind # "keys"
  <2> SUFFICES ASSUME evs[p].kind = "keys"
               PROVE  FALSE
    OBVIOUS
  <2>1. LaidKeys(evs, {}, p)
    BY <1>3 DEF Laid, LaidAt
  <2>2. PICK j \in 1..(p - 1) :
               /\ evs[j].kind = "collection" /\ evs[j].ty = "dict"
               /\ ElementsEnd(evs, j) + 1 = p
    BY <2>1 DEF LaidKeys
  <2>3. j \in 1..Len(evs)
    BY <1>3, <2>2
  <2>4. /\ BlockEnd(evs, j) \in Nat /\ ElementsEnd(evs, j) \in Int
        /\ ElementsEnd(evs, j) + 1 + evs[j].len = BlockEnd(evs, j) /\ evs[j].len \in Nat
        /\ \A q \in (j + 1)..ElementsEnd(evs, j) : BlockEnd(evs, q) <= ElementsEnd(evs, j)
    BY <2>2, <2>3, WholeFacts, BlockFacts
  <2>5. p <= BlockEnd(evs, j)
    BY <2>2, <2>4
  <2>6. CASE i < j
    BY <1>1, <2>2, <2>3, <2>4, <2>5, <2>6
  <2>7. CASE i = j
    BY <1>1, <1>2, <2>2, <2>7
  <2>8. CASE j < i
    <3>1. i \in (j + 1)..ElementsEnd(evs, j)
      BY <1>1, <1>3, <2>2, <2>3, <2>4, <2>8, SMTT(40)
    <3>2. BlockEnd(evs, i) <= ElementsEnd(evs, j)
      BY <2>4, <3>1
    <3> QED
      BY <1>1, <1>2, <2>2, <2>4, <3>2
  <2> QED
    BY <1>1, <2>3, <2>6, <2>7, <2>8
<1>5. evs[p].kind \in {"value", "collection"}
  <2>1. evs[p] \in EventsFor(n)
    BY <1>3
  <2> QED
    BY <1>4, <2>1, EventFacts
<1> QED
  BY <1>1, <1>2, <1>3, <1>5

(* The first child of a collection, and the one after another.              *)
LEMMA FirstChild ==
  ASSUME NEW n \in Nat, NEW evs \in Seq(EventsFor(n)), Laid(evs, {}), NEW i, Collecting(evs, i),
         i + 1 <= ElementsEnd(evs, i)
  PROVE  Child(evs, i, i + 1)
<1>1. i \in Nat /\ ElementsEnd(evs, i) \in Int
  BY WholeFacts DEF Collecting
<1>2. i + 1 \in (i + 1)..ElementsEnd(evs, i) /\ (i + 1)..((i + 1) - 1) = {}
  BY <1>1
<1> QED
  BY <1>2 DEF Child

(* r is the element of i that follows p, or what follows the last of them.  *)
Follows(evs, i, p, r) ==
  /\ r \in Nat /\ p < r /\ r <= ElementsEnd(evs, i) + 1
  /\ r = ElementsEnd(evs, i) + 1 \/ Child(evs, i, r)
  /\ \A q : Child(evs, i, q) => (q < r <=> (q < p \/ q = p))

(* What follows an element is the next element, or the end of the elements. *)
LEMMA NextChild ==
  ASSUME NEW n \in Nat, NEW evs \in Seq(EventsFor(n)), Laid(evs, {}), NEW i, NEW p,
         Child(evs, i, p), NEW r, r = BlockEnd(evs, p) + 1
  PROVE  Follows(evs, i, p, r)
<1>1. /\ i \in 1..Len(evs) /\ evs[i].kind = "collection"
      /\ p \in (i + 1)..ElementsEnd(evs, i)
      /\ \A q \in (i + 1)..(p - 1) : BlockEnd(evs, q) < p
  BY DEF Child, Collecting
<1>2. p \in 1..Len(evs)
  BY ChildKind
<1>3. /\ BlockEnd(evs, p) \in Nat /\ p <= BlockEnd(evs, p)
      /\ ElementsEnd(evs, i) \in Nat /\ BlockEnd(evs, p) <= ElementsEnd(evs, i)
  BY <1>2, ChildKind, WholeFacts
<1>4. r \in Nat /\ p < r /\ r <= ElementsEnd(evs, i) + 1
  BY <1>1, <1>3
<1>5. ASSUME r # ElementsEnd(evs, i) + 1
      PROVE  Child(evs, i, r)
  <2>1. r \in (i + 1)..ElementsEnd(evs, i)
    BY <1>1, <1>3, <1>4, <1>5
  <2>2. ASSUME NEW q \in (i + 1)..(r - 1)
        PROVE  BlockEnd(evs, q) < r
    <3>1. CASE q < p
      <4>1. q \in (i + 1)..(p - 1)
        BY <1>1, <3>1
      <4>2. BlockEnd(evs, q) < p
        BY <1>1, <4>1
      <4>3. BlockEnd(evs, q) \in Nat
        <5>1. q \in 1..Len(evs)
          BY <1>1, <1>2, <4>1
        <5> QED
          BY <5>1, WholeFacts
      <4> QED
        BY <1>1, <1>4, <4>2, <4>3
    <3>2. CASE q = p
      BY <1>3, <3>2
    <3>3. CASE p < q
      <4>1. p # BlockEnd(evs, p) /\ q \in (p + 1)..BlockEnd(evs, p)
        BY <1>1, <1>3, <1>4, <3>3
      <4>2. evs[p].kind = "collection"
        BY <1>2, <4>1, ChildKind, BlockFacts
      <4>3. q \in 1..Len(evs)
        BY <1>1, <1>2, <1>3, <4>1, WholeFacts
      <4>4. BlockEnd(evs, q) \in Nat
        BY <4>3, WholeFacts
      <4>5. CASE q <= ElementsEnd(evs, p)
        <5>1. /\ ElementsEnd(evs, p) \in Int /\ ElementsEnd(evs, p) <= BlockEnd(evs, p)
              /\ q \in (p + 1)..ElementsEnd(evs, p)
          BY <1>2, <4>1, <4>2, <4>5, WholeFacts
        <5>2. BlockEnd(evs, q) <= ElementsEnd(evs, p)
          BY <1>2, <4>2, <5>1, WholeFacts
        <5> QED
          BY <1>3, <4>4, <5>1, <5>2
      <4>6. CASE ~(q <= ElementsEnd(evs, p))
        <5> DEFINE k == ElementsEnd(evs, p) + 1
        <5>1. /\ evs[p].ty = "dict" /\ k \in Nat
              /\ k + evs[p].len = BlockEnd(evs, p) /\ evs[p].len \in Nat
              /\ evs[k] = DictionaryKeys(evs[p].len) /\ k \in 1..Len(evs)
          <6>1. evs[p].ty = "dict"
            BY <1>2, <4>1, <4>2, <4>6, WholeFacts, BlockFacts
          <6> QED
            BY <1>2, <4>2, <6>1, WholeFacts, BlockFacts, SMTT(40)
        <5>2. CASE q = k
          <6>1. evs[q].kind = "keys" /\ evs[q].len = evs[p].len
            BY <5>1, <5>2 DEF DictionaryKeys
          <6>2. BlockEnd(evs, q) = q + evs[p].len
            BY <4>3, <6>1, BlockFacts
          <6> QED
            BY <1>3, <5>1, <5>2, <6>2
        <5>3. CASE q # k
          <6>1. evs[k].kind = "keys" /\ evs[k].len = evs[p].len
            BY <5>1 DEF DictionaryKeys
          <6>2. LaidKeys(evs, {}, k)
            BY <5>1, <6>1 DEF Laid, LaidAt
          <6>3. q \in (k + 1)..(k + evs[k].len)
            <7>1. q \in Nat /\ q <= k + evs[k].len /\ ElementsEnd(evs, p) \in Int
              BY <1>2, <1>3, <4>1, <4>2, <4>3, <5>1, <6>1, WholeFacts, SMTT(40)
            <7>2. k < q
              BY <4>6, <5>1, <5>3, <7>1
            <7> QED
              BY <5>1, <6>1, <7>1, <7>2
          <6>4. evs[q].kind = "value"
            BY <6>2, <6>3 DEF LaidKeys
          <6> QED
            BY <1>3, <4>1, <4>3, <6>4, BlockFacts
        <5> QED
          BY <5>2, <5>3
      <4> QED
        BY <4>5, <4>6
    <3> QED
      BY <1>1, <3>1, <3>2, <3>3
  <2> QED
    BY <1>1, <2>1, <2>2 DEF Child, Collecting
<1>6. ASSUME NEW q, Child(evs, i, q)
      PROVE  q < r <=> (q < p \/ q = p)
  <2>1. /\ q \in (i + 1)..ElementsEnd(evs, i) /\ q \in Nat
        /\ \A k \in (i + 1)..(q - 1) : BlockEnd(evs, k) < q
    BY <1>1, <1>6 DEF Child, Collecting
  <2>2. ASSUME p < q
        PROVE  ~(q < r)
    <3>1. p \in (i + 1)..(q - 1)
      BY <1>1, <2>1, <2>2
    <3>2. BlockEnd(evs, p) < q
      BY <2>1, <3>1
    <3> QED
      BY <1>3, <2>1, <3>2
  <2> QED
    BY <1>1, <1>4, <2>1, <2>2
<1> QED
  BY <1>4, <1>5, <1>6 DEF Follows

(* Whatever lies inside the root, and is no key, has a parent: the          *)
(* innermost collection around it.                                          *)
LEMMA ParentExists ==
  ASSUME NEW n \in Nat, NEW evs \in Seq(EventsFor(n)), Laid(evs, {}),
         BlockEnd(evs, 1) = Len(evs), NEW p \in 2..Len(evs),
         evs[p].kind # "keys", NotAmongKeys(evs, p)
  PROVE  \E i \in 1..(p - 1) : Child(evs, i, p)
<1> DEFINE Around == {i \in 1..(p - 1) : evs[i].kind = "collection" /\ p <= BlockEnd(evs, i)}
           Distances == {p - i : i \in Around}
<1>1. p \in Nat /\ Len(evs) \in Nat /\ 1 \in 1..Len(evs) /\ p \in 1..Len(evs)
  OBVIOUS
<1>2. 1 \in Around
  <2>1. evs[1].kind \in {"collection", "value", "keys"}
    BY <1>1, EventFacts
  <2>2. evs[1].kind # "value"
    BY <1>1, BlockFacts
  <2>3. evs[1].kind # "keys"
    <3> SUFFICES ASSUME evs[1].kind = "keys"
                 PROVE  FALSE
      OBVIOUS
    <3>1. BlockEnd(evs, 1) = 1 + evs[1].len /\ 1 \in 1..(p - 1)
      BY <1>1, BlockFacts
    <3> QED
      BY <1>1, <3>1 DEF NotAmongKeys
  <2> QED
    BY <1>1, <2>1, <2>2, <2>3
<1>3. Distances \subseteq Nat /\ Distances # {}
  BY <1>1, <1>2
<1>4. PICK d \in Distances : \A e \in Distances : d <= e
  BY <1>3, LeastNumber
<1>5. PICK i \in Around : d = p - i
  BY <1>4
<1>6. /\ i \in 1..(p - 1) /\ i \in 1..Len(evs) /\ evs[i].kind = "collection"
      /\ p <= BlockEnd(evs, i)
  BY <1>1, <1>5
<1>7. ASSUME NEW j \in Around
      PROVE  j <= i
  <2>1. p - j \in Distances /\ j \in Nat
    OBVIOUS
  <2>2. p - i <= p - j
    BY <1>4, <1>5, <2>1
  <2> QED
    BY <1>1, <1>6, <2>1, <2>2
<1> HIDE DEF Around, Distances
<1>8. /\ ElementsEnd(evs, i) \in Int /\ BlockEnd(evs, i) \in Nat /\ i <= ElementsEnd(evs, i)
      /\ BlockEnd(evs, i) <= Len(evs) /\ evs[i].ty \in {"array", "dict"} /\ evs[i].len \in Nat
      /\ evs[i].ty = "array" => ElementsEnd(evs, i) = BlockEnd(evs, i)
      /\ evs[i].ty = "dict" =>
           /\ ElementsEnd(evs, i) + 1 + evs[i].len = BlockEnd(evs, i)
           /\ evs[ElementsEnd(evs, i) + 1] = DictionaryKeys(evs[i].len)
  BY <1>6, WholeFacts, BlockFacts
<1>9. p <= ElementsEnd(evs, i)
  <2> SUFFICES ASSUME ElementsEnd(evs, i) < p
               PROVE  FALSE
    BY <1>1, <1>8
  <2> DEFINE k == ElementsEnd(evs, i) + 1
  <2>1. evs[i].ty = "dict"
    BY <1>1, <1>6, <1>8
  <2>2. /\ evs[k].kind = "keys" /\ evs[k].len = evs[i].len
        /\ k \in 1..Len(evs) /\ k <= p /\ p <= k + evs[k].len
    BY <1>1, <1>6, <1>8, <2>1 DEF DictionaryKeys
  <2>3. k # p
    BY <2>2
  <2>4. k \in 1..(p - 1)
    BY <1>1, <2>2, <2>3
  <2>5. k + evs[k].len < p
    BY <2>2, <2>4 DEF NotAmongKeys
  <2> QED
    BY <1>1, <1>8, <2>2, <2>5
<1>10. ASSUME NEW q \in (i + 1)..(p - 1)
       PROVE  BlockEnd(evs, q) < p
  <2>1. q \in 1..Len(evs) /\ q \in 1..(p - 1) /\ i < q /\ q < p
    BY <1>1, <1>6
  <2>2. evs[q].kind \in {"collection", "value", "keys"} /\ BlockEnd(evs, q) \in Nat
    BY <2>1, EventFacts, WholeFacts
  <2>3. CASE evs[q].kind = "value"
    BY <2>1, <2>3, BlockFacts
  <2>4. CASE evs[q].kind = "keys"
    <3>1. BlockEnd(evs, q) = q + evs[q].len
      BY <2>1, <2>4, BlockFacts
    <3> QED
      BY <2>1, <2>4, <3>1 DEF NotAmongKeys
  <2>5. CASE evs[q].kind = "collection"
    <3>1. q \notin Around
      BY <1>6, <1>7, <2>1
    <3> QED
      BY <1>1, <2>1, <2>2, <2>5, <3>1 DEF Around
  <2> QED
    BY <2>2, <2>3, <2>4, <2>5
<1> QED
  BY <1>1, <1>6, <1>8, <1>9, <1>10 DEF Child, Collecting

(* The references of collections are no part of the layout.                 *)
SameShape(evs, evs2) ==
  /\ Len(evs2) = Len(evs)
  /\ \A i \in 1..Len(evs) :
       /\ evs2[i].kind = evs[i].kind
       /\ evs[i].kind = "collection" =>
            evs2[i].ty = evs[i].ty /\ evs2[i].len = evs[i].len /\ evs2[i].skip = evs[i].skip
       /\ evs[i].kind # "collection" => evs2[i] = evs[i]

(* Where the blocks and the elements of two sequences of one shape end.     *)
LEMMA ShapeFacts ==
  ASSUME NEW n \in Nat, NEW evs \in Seq(EventsFor(n)), NEW evs2 \in Seq(EventsFor(n)),
         SameShape(evs, evs2), NEW i \in 1..Len(evs)
  PROVE  /\ BlockEnd(evs2, i) = BlockEnd(evs, i)
         /\ evs[i].kind = "collection" => ElementsEnd(evs2, i) = ElementsEnd(evs, i)
<1>1. evs[i].kind \in {"collection", "value", "keys"}
  <2>1. evs[i] \in EventsFor(n)
    OBVIOUS
  <2> QED
    BY <2>1, EventFacts
<1>2. CASE evs[i].kind = "collection"
  BY <1>2 DEF SameShape, BlockEnd, ElementsEnd, KeysStart
<1>3. CASE evs[i].kind # "collection"
  <2>1. evs2[i] = evs[i]
    BY <1>3 DEF SameShape
  <2> QED
    BY <1>3, <2>1 DEF BlockEnd
<1> QED
  BY <1>2, <1>3

(* A reference given to a collection does not change the layout.            *)
LEMMA ShapeKeepsLayout ==
  ASSUME NEW n \in Nat, NEW evs \in Seq(EventsFor(n)), NEW evs2 \in Seq(EventsFor(n)),
         SameShape(evs, evs2), Laid(evs, {})
  PROVE  Laid(evs2, {})
<1> SUFFICES ASSUME NEW i \in 1..Len(evs2)
             PROVE  LaidAt(evs2, {}, i)
  BY DEF Laid
<1>1. i \in 1..Len(evs) /\ Len(evs2) = Len(evs) /\ evs2[i].kind = evs[i].kind
  BY DEF SameShape
<1>2. BlockEnd(evs2, i) <= Len(evs2)
  BY <1>1, WholeFacts, ShapeFacts
<1>3. ASSUME evs[i].kind = "collection"
      PROVE  LaidCollection(evs2, {}, i)
  <2>1. /\ evs2[i].ty = evs[i].ty /\ evs2[i].len = evs[i].len
        /\ ElementsEnd(evs2, i) = ElementsEnd(evs, i)
    BY <1>1, <1>3, ShapeFacts DEF SameShape
  <2>2. /\ ElementsEnd(evs, i) \in Int /\ i <= ElementsEnd(evs, i) /\ i \in Nat /\ Len(evs) \in Nat
        /\ ElementsEnd(evs, i) <= BlockEnd(evs, i) /\ BlockEnd(evs, i) <= Len(evs)
        /\ BlockEnd(evs, i) \in Nat
        /\ \A p \in (i + 1)..ElementsEnd(evs, i) : BlockEnd(evs, p) <= ElementsEnd(evs, i)
        /\ evs[i].ty = "dict" =>
             /\ ElementsEnd(evs, i) + 1 + evs[i].len = BlockEnd(evs, i)
             /\ evs[ElementsEnd(evs, i) + 1] = DictionaryKeys(evs[i].len)
    BY <1>1, <1>3, WholeFacts
  <2>3. ASSUME NEW p \in (i + 1)..ElementsEnd(evs, i)
        PROVE  BlockEnd(evs2, p) <= ElementsEnd(evs, i)
    <3>1. p \in 1..Len(evs)
      BY <2>2
    <3> QED
      BY <2>2, <3>1, ShapeFacts
  <2>4. ASSUME evs[i].ty = "dict"
        PROVE  evs2[ElementsEnd(evs, i) + 1] = DictionaryKeys(evs[i].len)
    <3> DEFINE k == ElementsEnd(evs, i) + 1
    <3>1. evs[i].len \in Nat
      BY <1>1, <1>3, BlockFacts
    <3>2. k \in 1..Len(evs) /\ evs[k] = DictionaryKeys(evs[i].len)
      BY <2>2, <2>4, <3>1
    <3>3. evs[k].kind # "collection"
      BY <3>2 DEF DictionaryKeys
    <3> QED
      BY <3>2, <3>3 DEF SameShape
  <2> QED
    BY <2>1, <2>2, <2>3, <2>4 DEF LaidCollection
<1>4. ASSUME evs[i].kind = "keys"
      PROVE  LaidKeys(evs2, {}, i)
  <2>1. LaidKeys(evs, {}, i) /\ BlockEnd(evs, i) <= Len(evs)
    BY <1>1, <1>4 DEF Laid, LaidAt
  <2>2. evs2[i] = evs[i] /\ evs[i].len \in Nat /\ i + evs[i].len <= Len(evs) /\ i \in Nat
    BY <1>1, <1>4, <2>1, BlockFacts DEF SameShape
  <2>3. ASSUME NEW p \in (i + 1)..(i + evs[i].len)
        PROVE  evs2[p].kind = "value"
    <3>1. p \in 1..Len(evs) /\ evs[p].kind = "value"
      BY <2>1, <2>2 DEF LaidKeys
    <3> QED
      BY <3>1 DEF SameShape
  <2>4. PICK j \in 1..(i - 1) :
               /\ evs[j].kind = "collection" /\ evs[j].ty = "dict"
               /\ ElementsEnd(evs, j) + 1 = i
    BY <2>1 DEF LaidKeys
  <2>5. /\ j \in 1..Len(evs) /\ evs2[j].kind = "collection" /\ evs2[j].ty = "dict"
        /\ ElementsEnd(evs2, j) = ElementsEnd(evs, j)
    <3>1. j \in 1..Len(evs)
      BY <1>1, <2>4
    <3> QED
      BY <2>4, <3>1, ShapeFacts DEF SameShape
  <2> QED
    BY <2>2, <2>3, <2>4, <2>5 DEF LaidKeys
<1> QED
  BY <1>1, <1>2, <1>3, <1>4 DEF LaidAt

(* Nor does it change whose element is what.                                *)
LEMMA ShapeKeepsChildren ==
  ASSUME NEW n \in Nat, NEW evs \in Seq(EventsFor(n)), NEW evs2 \in Seq(EventsFor(n)),
         SameShape(evs, evs2), Laid(evs, {}), NEW i, NEW p
  PROVE  Child(evs2, i, p) <=> Child(evs, i, p)
<1>1. Collecting(evs2, i) <=> Collecting(evs, i)
  BY DEF Collecting, SameShape
<1> SUFFICES ASSUME Collecting(evs, i)
             PROVE  Child(evs2, i, p) <=> Child(evs, i, p)
  BY <1>1 DEF Child
<1>2. i \in 1..Len(evs) /\ evs[i].kind = "collection"
  BY DEF Collecting
<1>3. /\ ElementsEnd(evs2, i) = ElementsEnd(evs, i) /\ ElementsEnd(evs, i) \in Int
      /\ ElementsEnd(evs, i) <= Len(evs) /\ i \in Nat /\ Len(evs) \in Nat
  BY <1>2, ShapeFacts, WholeFacts
<1>4. ASSUME p \in (i + 1)..ElementsEnd(evs, i), NEW q \in (i + 1)..(p - 1)
      PROVE  BlockEnd(evs2, q) = BlockEnd(evs, q)
  <2>1. q \in 1..Len(evs)
    BY <1>3, <1>4
  <2> QED
    BY <2>1, ShapeFacts
<1> QED
  BY <1>1, <1>3, <1>4 DEF Child

(***************************************************************************)
(* The keys that wait.                                                     *)
(***************************************************************************)
(* The innermost dictionary has got k keys more.                            *)
LEMMA WaitsForMore ==
  ASSUME NEW evs, NEW evs2, NEW stack \in Seq(Nat), NEW n \in Nat, NEW k \in Nat,
         stack # <<>>, Waits(evs, stack, n),
         \A d \in 1..(Len(stack) - 1) : KeysOf(evs2[stack[d]]) = KeysOf(evs[stack[d]]),
         KeysOf(evs[stack[Len(stack)]]) \in Nat,
         KeysOf(evs2[stack[Len(stack)]]) = KeysOf(evs[stack[Len(stack)]]) + k
  PROVE  Waits(evs2, stack, n + k)
<1> DEFINE m == Len(stack)
<1>1. PICK w \in [0..m -> Nat] :
             /\ w[0] = 0
             /\ \A d \in 1..m : w[d] = w[d - 1] + KeysOf(evs[stack[d]])
             /\ w[m] = n
  BY DEF Waits
<1>2. /\ m \in Nat \ {0}
      /\ \A d \in 1..(m - 1) : KeysOf(evs2[stack[d]]) = KeysOf(evs[stack[d]])
      /\ KeysOf(evs[stack[m]]) \in Nat /\ KeysOf(evs2[stack[m]]) = KeysOf(evs[stack[m]]) + k
  BY EmptyIffZero
<1> HIDE DEF m
<1> DEFINE w2 == [d \in 0..m |-> IF d = m THEN n + k ELSE w[d]]
<1>3. w2 \in [0..m -> Nat] /\ w2[0] = 0 /\ w2[m] = n + k
  BY <1>1, <1>2, SMTT(40)
<1>4. ASSUME NEW d \in 1..m
      PROVE  w2[d] = w2[d - 1] + KeysOf(evs2[stack[d]])
  <2>1. w[d] = w[d - 1] + KeysOf(evs[stack[d]]) /\ d - 1 \in 0..m /\ d - 1 # m
    BY <1>1, <1>2, SMTT(40)
  <2>2. CASE d = m
    BY <1>1, <1>2, <2>1, <2>2
  <2>3. CASE d # m
    <3>1. d \in 1..(m - 1) /\ w2[d] = w[d] /\ w2[d - 1] = w[d - 1]
      BY <1>2, <2>1, <2>3
    <3>2. KeysOf(evs2[stack[d]]) = KeysOf(evs[stack[d]])
      BY <1>2, <3>1
    <3> HIDE DEF w2
    <3> QED
      BY <2>1, <3>1, <3>2
  <2> QED
    BY <2>2, <2>3
<1> QED
  BY <1>3, <1>4 DEF Waits, m

(* Another collection is open, which has none yet.                          *)
LEMMA WaitsPushed ==
  ASSUME NEW evs, NEW evs2, NEW stack \in Seq(Nat), NEW n \in Nat, Waits(evs, stack, n),
         \A d \in 1..Len(stack) : KeysOf(evs2[stack[d]]) = KeysOf(evs[stack[d]]),
         NEW i \in Nat, KeysOf(evs2[i]) = 0
  PROVE  Waits(evs2, Append(stack, i), n)
<1> DEFINE m == Len(stack)
           pushed == Append(stack, i)
<1>1. PICK w \in [0..m -> Nat] :
             /\ w[0] = 0
             /\ \A d \in 1..m : w[d] = w[d - 1] + KeysOf(evs[stack[d]])
             /\ w[m] = n
  BY DEF Waits
<1>2. /\ m \in Nat /\ Len(pushed) = m + 1
      /\ \A d \in 1..m : pushed[d] = stack[d]
      /\ pushed[m + 1] = i
  BY AppendFacts
<1>3. \A d \in 1..m : KeysOf(evs2[pushed[d]]) = KeysOf(evs[stack[d]])
  BY <1>2
<1>4. KeysOf(evs2[pushed[m + 1]]) = 0
  BY <1>2
<1> HIDE DEF m, pushed
<1> DEFINE w2 == [d \in 0..(m + 1) |-> IF d = m + 1 THEN n ELSE w[d]]
<1>5. w2 \in [0..(m + 1) -> Nat] /\ w2[0] = 0 /\ w2[m + 1] = n
  BY <1>1, <1>2
<1>6. ASSUME NEW d \in 1..(m + 1)
      PROVE  w2[d] = w2[d - 1] + KeysOf(evs2[pushed[d]])
  <2>1. CASE d = m + 1
    BY <1>1, <1>2, <1>4, <2>1
  <2>2. CASE d # m + 1
    <3>1. d \in 1..m /\ d - 1 \in 0..m
      BY <1>2, <2>2
    <3>2. w[d] = w[d - 1] + KeysOf(evs[stack[d]])
      BY <1>1, <3>1
    <3> QED
      BY <1>2, <1>3, <3>1, <3>2
  <2> QED
    BY <2>1, <2>2
<1>7. Waits(evs2, pushed, n)
  BY <1>2, <1>5, <1>6 DEF Waits
<1> QED
  BY <1>7 DEF pushed

(* The keys of the innermost collection are taken.                          *)
LEMMA WaitsPopped ==
  ASSUME NEW evs, NEW evs2, NEW stack \in Seq(Nat), NEW n \in Nat, stack # <<>>,
         Waits(evs, stack, n), KeysOf(evs[Last(stack)]) \in Nat,
         \A d \in 1..(Len(stack) - 1) : KeysOf(evs2[stack[d]]) = KeysOf(evs[stack[d]])
  PROVE  /\ n - KeysOf(evs[Last(stack)]) \in Nat
         /\ Waits(evs2, Front(stack), n - KeysOf(evs[Last(stack)]))
<1> DEFINE m == Len(stack)
           popped == Front(stack)
           keys == KeysOf(evs[Last(stack)])
<1>1. PICK w \in [0..m -> Nat] :
             /\ w[0] = 0
             /\ \A d \in 1..m : w[d] = w[d - 1] + KeysOf(evs[stack[d]])
             /\ w[m] = n
  BY DEF Waits
<1>2. /\ m \in Nat \ {0} /\ Len(popped) = m - 1 /\ Last(stack) = stack[m]
      /\ \A d \in 1..(m - 1) : popped[d] = stack[d]
  BY FrontLast
<1>3. \A d \in 1..(m - 1) : KeysOf(evs2[popped[d]]) = KeysOf(evs[stack[d]])
  BY <1>2
<1>4. n = w[m - 1] + keys /\ keys \in Nat /\ w[m - 1] \in Nat
  <2>1. m \in 1..m /\ m - 1 \in 0..m
    BY <1>2
  <2> QED
    BY <1>1, <1>2, <2>1
<1> HIDE DEF m, popped, keys
<1>5. n - keys = w[m - 1]
  BY <1>4
<1> DEFINE w2 == [d \in 0..(m - 1) |-> w[d]]
<1>6. w2 \in [0..(m - 1) -> Nat] /\ w2[0] = 0 /\ w2[m - 1] = n - keys
  BY <1>1, <1>2, <1>5
<1>7. ASSUME NEW d \in 1..(m - 1)
      PROVE  w2[d] = w2[d - 1] + KeysOf(evs2[popped[d]])
  <2>1. d \in 1..m /\ d - 1 \in 0..(m - 1) /\ d \in 0..(m - 1)
    BY <1>2
  <2>2. w[d] = w[d - 1] + KeysOf(evs[stack[d]])
    BY <1>1, <2>1
  <2> QED
    BY <1>3, <2>1, <2>2
<1>8. Waits(evs2, popped, n - keys)
  BY <1>2, <1>6, <1>7 DEF Waits
<1> QED
  BY <1>4, <1>5, <1>8 DEF popped, keys

(***************************************************************************)
(* The open collections.                                                   *)
(***************************************************************************)
(* The types of the variables that the calls are about.                     *)
BufferTypes ==
  /\ events \in Seq(EventsFor(Len(values))) /\ Len(events) \in Nat
  /\ dictionary_key_events \in Seq(1..Len(values)) /\ Len(dictionary_key_events) \in Nat
  /\ values \in Seq([value : Values, state : {"unassigned", "unwritten", "written"},
                     ref : Nat \cup {NoRef}])
  /\ Len(values) \in Nat
  /\ collection_stack \in Seq(1..Len(events)) /\ Len(collection_stack) \in Nat
  /\ collection_stack \in Seq(Nat)

(* The types of what is buffered.                                           *)
LEMMA TypesOfBuffer == TypeOK => BufferTypes
<1> SUFFICES ASSUME TypeOK
             PROVE  BufferTypes
  OBVIOUS
<1>1. /\ events \in Seq(EventsFor(Len(values)))
      /\ dictionary_key_events \in Seq(1..Len(values))
      /\ values \in Seq([value : Values, state : {"unassigned", "unwritten", "written"},
                         ref : Nat \cup {NoRef}])
      /\ collection_stack \in Seq(1..Len(events))
  BY EventsAreFor DEF TypeOK
<1>2. 1..Len(events) \subseteq Nat
  BY <1>1
<1> QED
  BY <1>1, <1>2 DEF BufferTypes

(* The innermost open collection comes last among the open ones.            *)
LEMMA InnermostFacts ==
  ASSUME BufferTypes, OpenCollections, collection_stack # <<>>
  PROVE  /\ Last(collection_stack) \in 1..Len(events) /\ Last(collection_stack) \in OpenSet
         /\ Last(collection_stack) = collection_stack[Len(collection_stack)]
         /\ events[Last(collection_stack)] \in EventsFor(Len(values))
         /\ events[Last(collection_stack)].kind = "collection"
         /\ Len(collection_stack) \in Nat \ {0}
         /\ \A d \in 1..(Len(collection_stack) - 1) :
              collection_stack[d] # Last(collection_stack)
         /\ \A p \in OpenSet : p <= Last(collection_stack)
         /\ Front(collection_stack) \in Seq(1..Len(events))
         /\ Front(collection_stack) \in Seq(Nat)
         /\ Len(Front(collection_stack)) = Len(collection_stack) - 1
         /\ \A d \in 1..(Len(collection_stack) - 1) :
              Front(collection_stack)[d] = collection_stack[d]
<1> DEFINE s == collection_stack
           m == Len(collection_stack)
<1>1. /\ Front(s) \in Seq(1..Len(events)) /\ Len(Front(s)) = m - 1
      /\ \A d \in 1..(m - 1) : Front(s)[d] = s[d]
      /\ Last(s) \in 1..Len(events) /\ Last(s) = s[m] /\ m \in Nat \ {0}
  BY FrontLast DEF BufferTypes
<1>2. Front(s) \in Seq(Nat)
  BY FrontLast DEF BufferTypes
<1>3. m \in 1..m
  BY <1>1
<1>4. /\ events[s[m]].kind = "collection" /\ s[m] \in OpenSet
      /\ events[s[m]] \in EventsFor(Len(values))
  BY <1>1, <1>3 DEF OpenCollections, OpenSet, BufferTypes
<1>5. ASSUME NEW d \in 1..(m - 1)
      PROVE  s[d] < s[m]
  <2>1. d \in 1..m /\ m \in 1..m /\ d < m
    BY <1>1
  <2> QED
    BY <2>1 DEF OpenCollections
<1>6. \A d \in 1..m : s[d] \in Nat
  BY <1>1 DEF BufferTypes
<1>7. ASSUME NEW p \in OpenSet
      PROVE  p <= s[m]
  <2>1. PICK d \in 1..m : p = s[d]
    BY DEF OpenSet
  <2>2. CASE d = m
    BY <1>3, <1>6, <2>1, <2>2
  <2>3. CASE d # m
    <3>1. d \in 1..(m - 1)
      BY <1>1, <2>1, <2>3
    <3> QED
      BY <1>3, <1>5, <1>6, <2>1, <3>1
  <2> QED
    BY <2>2, <2>3
<1>8. \A d \in 1..(m - 1) : s[d] # s[m]
  BY <1>1, <1>3, <1>5, <1>6
<1> QED
  BY <1>1, <1>2, <1>4, <1>7, <1>8

(* KeysOf, and what another element makes of it.                            *)
LEMMA KeysFacts ==
  ASSUME NEW n \in Nat, NEW e \in EventsFor(n), e.kind = "collection", NEW e2,
         e2.ty = e.ty, e2.len = e.len + 1
  PROVE  /\ KeysOf(e) \in Nat
         /\ e.ty = "dict" /\ e.len % 2 = 0 => KeysOf(e2) = KeysOf(e) + 1 /\ KeysOf(e) = e.len \div 2
         /\ ~(e.ty = "dict" /\ e.len % 2 = 0) => KeysOf(e2) = KeysOf(e)
<1>1. e.ty \in {"array", "dict"} /\ e.len \in Nat
  BY EventFacts
<1>2. PICK k \in Nat : e.len = 2 * k \/ e.len = 2 * k + 1
  <2>1. \A x \in Nat : x \div 2 \in Nat /\ (x = 2 * (x \div 2) \/ x = 2 * (x \div 2) + 1)
    OBVIOUS
  <2> QED
    BY <1>1, <2>1
<1>3. CASE e.len = 2 * k
  <2>1. /\ e.len % 2 = 0 /\ e.len \div 2 = k /\ (e.len + 1) \div 2 = k
        /\ (e.len + 1 + 1) \div 2 = k + 1
    BY <1>3
  <2> QED
    BY <1>1, <2>1 DEF KeysOf
<1>4. CASE e.len = 2 * k + 1
  <2>1. /\ e.len % 2 = 1 /\ (e.len + 1) \div 2 = k + 1 /\ (e.len + 1 + 1) \div 2 = k + 1
    BY <1>4
  <2> QED
    BY <1>1, <2>1 DEF KeysOf
<1> QED
  BY <1>2, <1>3, <1>4

(* One element more in the innermost collection.                            *)
LEMMA IncrementedFacts ==
  ASSUME BufferTypes, OpenCollections
  PROVE  /\ Incremented \in Seq(EventsFor(Len(values)))
         /\ Len(Incremented) = Len(events)
         /\ \A i \in 1..Len(events) :
              /\ Incremented[i].kind = events[i].kind
              /\ events[i].kind = "collection" =>
                   Incremented[i].object_ref = events[i].object_ref
              /\ collection_stack = <<>> \/ i # Last(collection_stack) =>
                   Incremented[i] = events[i]
              /\ collection_stack # <<>> /\ i = Last(collection_stack) =>
                   Incremented[i].ty = events[i].ty /\ Incremented[i].len = events[i].len + 1
         /\ Continues(events, Incremented, OpenSet)
<1>1. CASE collection_stack = <<>>
  <2>1. Incremented = events
    BY <1>1 DEF Incremented
  <2> QED
    BY <1>1, <2>1 DEF BufferTypes, Continues
<1>2. CASE collection_stack # <<>>
  <2> DEFINE l == Last(collection_stack)
             e == [events[l] EXCEPT !.len = events[l].len + 1]
  <2>1. /\ l \in 1..Len(events) /\ l \in OpenSet
        /\ events[l] \in EventsFor(Len(values)) /\ events[l].kind = "collection"
    BY <1>2, InnermostFacts
  <2>2. events[l].len \in Nat
    BY <2>1, EventFacts DEF BufferTypes
  <2>3. e \in EventsFor(Len(values))
    <3> HIDE DEF l
    <3>1. \A len \in Nat : [events[l] EXCEPT !.len = len] \in EventsFor(Len(values))
      BY <2>1, EventChanged DEF BufferTypes
    <3>2. events[l].len + 1 \in Nat
      BY <2>2
    <3> QED
      BY <3>1, <3>2
  <2>4. /\ e.kind = events[l].kind /\ e.ty = events[l].ty /\ e.object_ref = events[l].object_ref
        /\ e.len = events[l].len + 1
    BY <2>1, EventFacts DEF BufferTypes
  <2>5. Incremented = [events EXCEPT ![l] = e]
    BY <1>2 DEF Incremented
  <2> HIDE DEF l, e
  <2>6. /\ Incremented \in Seq(EventsFor(Len(values))) /\ Len(Incremented) = Len(events)
        /\ Incremented[l] = e
        /\ \A i \in 1..Len(events) : i # l => Incremented[i] = events[i]
    BY <2>1, <2>3, <2>5 DEF BufferTypes
  <2>7. \A i \in 1..Len(events) :
          /\ Incremented[i].kind = events[i].kind
          /\ Incremented[i].object_ref = events[i].object_ref
          /\ i = l => Incremented[i].ty = events[i].ty /\ Incremented[i].len = events[i].len + 1
    BY <2>4, <2>6
  <2>8. Continues(events, Incremented, OpenSet)
    <3>1. Len(events) <= Len(Incremented)
      BY <2>6 DEF BufferTypes
    <3> QED
      BY <2>1, <2>6, <2>7, <3>1 DEF Continues
  <2> QED
    BY <1>2, <2>6, <2>7, <2>8 DEF l
<1> QED
  BY <1>1, <1>2

(* A sequence over a set is one over any larger set.                        *)
LEMMA SeqOfMore ==
  ASSUME NEW S, NEW T, S \subseteq T, NEW s \in Seq(S)
  PROVE  s \in Seq(T)
  OBVIOUS

(* The positions that are open are those of collections.                    *)
LEMMA OpenAreCollections ==
  ASSUME BufferTypes, OpenCollections, NEW o \in OpenSet
  PROVE  o \in 1..Len(events) /\ events[o].kind = "collection"
  BY DEF BufferTypes, OpenCollections, OpenSet

(* What is put in the innermost collection without being buffered itself, a *)
(* key, leaves the layout.                                                  *)
LEMMA IncrementedLayout ==
  ASSUME BufferTypes, OpenCollections, Laid(events, OpenSet)
  PROVE  Laid(Incremented, OpenSet)
<1>1. /\ Incremented \in Seq(EventsFor(Len(values))) /\ Len(Incremented) = Len(events)
      /\ Continues(events, Incremented, OpenSet)
  BY IncrementedFacts
<1>2. \A i \in 1..Len(Incremented) : i \in OpenSet \/ i > Len(events) => i \in OpenSet
  BY <1>1 DEF BufferTypes
<1>3. events \in Seq(EventsFor(Len(values))) /\ Len(values) \in Nat
  BY DEF BufferTypes
<1> HIDE DEF OpenSet
<1> QED
  BY <1>1, <1>2, <1>3, LaidExtended, OpenAreCollections

(* A value or a collection is buffered after what there is.                 *)
LEMMA AppendedLayout ==
  ASSUME BufferTypes, OpenCollections, Laid(events, OpenSet),
         NEW n \in Nat, Len(values) <= n, NEW e \in EventsFor(n),
         NEW open2, \A o \in OpenSet : o \in open2,
         \A o \in open2 : o \in OpenSet \/ o = Len(events) + 1,
         e.kind = "value" \/ Len(events) + 1 \in open2
  PROVE  /\ Append(Incremented, e) \in Seq(EventsFor(n))
         /\ Len(Append(Incremented, e)) = Len(events) + 1
         /\ Append(Incremented, e)[Len(events) + 1] = e
         /\ \A i \in 1..Len(events) : Append(Incremented, e)[i] = Incremented[i]
         /\ Laid(Append(Incremented, e), open2)
<1> DEFINE evs2 == Append(Incremented, e)
<1>1. /\ Incremented \in Seq(EventsFor(Len(values))) /\ Len(Incremented) = Len(events)
      /\ Continues(events, Incremented, OpenSet)
  BY IncrementedFacts
<1>2. EventsFor(Len(values)) \subseteq EventsFor(n)
  BY EventsMade DEF BufferTypes
<1>3. Incremented \in Seq(EventsFor(n)) /\ events \in Seq(EventsFor(n)) /\ Len(events) \in Nat
  BY <1>1, <1>2, SeqOfMore DEF BufferTypes
<1>4. /\ evs2 \in Seq(EventsFor(n)) /\ Len(evs2) = Len(events) + 1
      /\ \A i \in 1..Len(events) : evs2[i] = Incremented[i]
      /\ evs2[Len(events) + 1] = e
  BY <1>1, <1>3, AppendFacts
<1> HIDE DEF evs2
<1>5. Continues(events, evs2, OpenSet)
  BY <1>1, <1>3, <1>4 DEF Continues
<1>6. \A o \in open2 : o \in 1..Len(events) => o \in OpenSet
  BY <1>3
<1>7. ASSUME NEW i \in 1..Len(evs2), i \notin open2, i \in OpenSet \/ i > Len(events)
      PROVE  LaidAt(evs2, open2, i)
  <2>1. i = Len(events) + 1 /\ e.kind = "value"
    BY <1>3, <1>4, <1>7
  <2>2. evs2[i].kind = "value"
    BY <1>4, <2>1
  <2>3. BlockEnd(evs2, i) = i
    BY <2>2 DEF BlockEnd
  <2> QED
    BY <1>3, <1>4, <2>1, <2>2, <2>3 DEF LaidAt
<1>8. Laid(evs2, open2)
  <2> HIDE DEF OpenSet
  <2> QED
    BY <1>3, <1>4, <1>5, <1>6, <1>7, LaidExtended, OpenAreCollections
<1> QED
  BY <1>4, <1>8 DEF evs2

(***************************************************************************)
(* The calls keep the invariant.                                           *)
(***************************************************************************)
LEMMA CallTypes ==
  ASSUME TypeOK, UNCHANGED output, Len(values) <= Len(values'), Len(values') \in Nat,
         values' \in Seq([value : Values, state : {"unassigned", "unwritten", "written"},
                          ref : Nat \cup {NoRef}]),
         events' \in Seq(EventsFor(Len(values'))),
         dictionary_key_events' \in Seq(1..Len(values')),
         collection_stack' \in Seq(1..Len(events')),
         num_objects' \in Nat, pc' \in {"idle", "header", "stopped"},
         verdict' \in {"none", "ok", "illegal", "failed", "panic"}
  PROVE  TypeOK'
<1>1. Events' = EventsFor(Len(values'))
  BY DEF Events, EventsFor
<1>2. EventsFor(Len(values)) \subseteq EventsFor(Len(values'))
  BY TypesOfBuffer, EventsMade DEF BufferTypes
<1>3. /\ todo \in Seq(EventsFor(Len(values))) /\ cursor \in Nat \ {0}
      /\ pending \in Seq(1..Len(todo)) /\ next_object_ref \in Nat /\ file \in Seq(Objects)
      /\ pos \in Nat
  BY EventsAreFor DEF TypeOK
<1>4. todo \in Seq(EventsFor(Len(values')))
  BY <1>2, <1>3, SeqOfMore
<1>5. /\ todo' \in Seq(Events') /\ cursor' \in Nat \ {0} /\ pending' \in Seq(1..Len(todo'))
      /\ next_object_ref' \in Nat /\ file' \in Seq(Objects') /\ pos' \in Nat
  BY <1>1, <1>3, <1>4 DEF output, Objects
<1> QED
  BY <1>1, <1>5 DEF TypeOK

(* A call that is refused.                                                  *)
LEMMA StoppedKeeps ==
  ASSUME TypeOK', pc' = "stopped", verdict' \in {"illegal", "failed"}, call' \in Calls,
         RefsAssigned'
  PROVE  WInv'
<1>1. Phases'
  BY DEF Phases, Writing
<1> QED
  BY <1>1 DEF WInv, Writing

(* A call that is refused without a change to the buffer.                   *)
LEMMA RefusedKeeps ==
  ASSUME WInv, Refuse, UNCHANGED <<buffer, values, num_objects, output>>, call' \in Calls
  PROVE  WInv'
<1>1. /\ TypeOK /\ RefsAssigned /\ pc' = "stopped" /\ verdict' = "illegal"
      /\ events' = events /\ values' = values /\ num_objects' = num_objects
      /\ dictionary_key_events' = dictionary_key_events /\ collection_stack' = collection_stack
  BY DEF WInv, Refuse, buffer
<1>2. TypeOK'
  <2>1. BufferTypes /\ num_objects \in Nat
    BY <1>1, TypesOfBuffer DEF TypeOK
  <2>2. Len(values) <= Len(values)
    BY <2>1 DEF BufferTypes
  <2> QED
    BY <1>1, <2>1, <2>2, CallTypes DEF BufferTypes
<1>3. RefsAssigned'
  BY <1>1 DEF RefsAssigned
<1> QED
  BY <1>1, <1>2, <1>3, StoppedKeeps

(* The keys that wait after a key, and after any other element.             *)
LEMMA IncrementedWaits ==
  ASSUME BufferTypes, OpenCollections, KeysWait
  PROVE  /\ ExpectingKey =>
              Waits(Incremented, collection_stack, Len(dictionary_key_events) + 1)
         /\ ~ExpectingKey => Waits(Incremented, collection_stack, Len(dictionary_key_events))
<1> DEFINE s == collection_stack
           m == Len(s)
           n == Len(dictionary_key_events)
<1>0. s \in Seq(Nat) /\ n \in Nat /\ Waits(events, s, n) /\ Len(values) \in Nat
  BY DEF BufferTypes, KeysWait
<1>1. CASE s = <<>>
  <2>1. Incremented = events /\ ~ExpectingKey
    BY <1>1 DEF Incremented, ExpectingKey
  <2> QED
    BY <1>0, <2>1
<1>2. CASE s # <<>>
  <2> DEFINE l == Last(s)
  <2>1. /\ l \in 1..Len(events) /\ l = s[m] /\ events[l] \in EventsFor(Len(values))
        /\ events[l].kind = "collection"
        /\ \A d \in 1..(m - 1) : s[d] # l
    BY <1>2, InnermostFacts
  <2>2. \A d \in 1..(m - 1) : s[d] \in 1..Len(events)
    BY DEF BufferTypes
  <2>3. /\ \A d \in 1..(m - 1) : Incremented[s[d]] = events[s[d]]
        /\ Incremented[l].ty = events[l].ty /\ Incremented[l].len = events[l].len + 1
    BY <1>2, <2>1, <2>2, IncrementedFacts
  <2>4. ExpectingKey <=> events[l].ty = "dict" /\ events[l].len % 2 = 0
    BY <1>2 DEF ExpectingKey
  <2>5. /\ KeysOf(events[l]) \in Nat
        /\ ExpectingKey => KeysOf(Incremented[l]) = KeysOf(events[l]) + 1
        /\ ~ExpectingKey => KeysOf(Incremented[l]) = KeysOf(events[l]) + 0
    BY <1>0, <2>1, <2>3, <2>4, KeysFacts
  <2>6. \A d \in 1..(m - 1) : KeysOf(Incremented[s[d]]) = KeysOf(events[s[d]])
    BY <2>3
  <2>7. KeysOf(events[s[m]]) = KeysOf(events[l]) /\ KeysOf(Incremented[s[m]]) = KeysOf(Incremented[l])
    BY <2>1
  <2> HIDE DEF s, m, n, l
  <2>8. CASE ExpectingKey
    <3>1. Waits(Incremented, s, n + 1)
      BY <1>0, <1>2, <2>5, <2>6, <2>7, <2>8, WaitsForMore DEF m
    <3> QED
      BY <2>8, <3>1 DEF s, n
  <2>9. CASE ~ExpectingKey
    <3>1. Waits(Incremented, s, n + 0)
      BY <1>0, <1>2, <2>5, <2>6, <2>7, <2>9, WaitsForMore DEF m
    <3> QED
      BY <1>0, <2>9, <3>1 DEF s, n
  <2> QED
    BY <2>8, <2>9
<1> QED
  BY <1>1, <1>2

(* The keys that wait are told from the open collections alone.             *)
LEMMA WaitsSame ==
  ASSUME NEW evs, NEW evs2, NEW stack, NEW n, Waits(evs, stack, n),
         \A d \in 1..Len(stack) : evs2[stack[d]] = evs[stack[d]]
  PROVE  Waits(evs2, stack, n)
  BY DEF Waits

(* What is known when the client calls.                                     *)
LEMMA IdleFacts ==
  ASSUME WInv, pc = "idle"
  PROVE  /\ TypeOK /\ BufferTypes /\ RefsAssigned /\ num_objects \in Nat
         /\ Laid(events, OpenSet) /\ OpenCollections /\ KeysWait
         /\ \A i \in 1..Len(events) :
              events[i].kind = "collection" => events[i].object_ref = NoRef
         /\ collection_stack = <<>> => events = <<>>
         /\ verdict \in {"none", "ok"}
  BY TypesOfBuffer DEF WInv, Buffering, Phases, TypeOK

(* Where an accepted call leads to.                                         *)
LEMMA AcceptedPhases ==
  ASSUME NEW e, NEW stack, Accept(e, stack), call' \in Calls,
         stack = <<>> => events' # <<>> /\ BlockEnd(events', 1) = Len(events')
  PROVE  /\ Phases' /\ ~Writing' /\ collection_stack' = stack
         /\ pc' \in {"idle", "header"} /\ verdict' = "ok"
  BY DEF Accept, Phases, Writing

(* A value, buffered or refused.                                            *)
LEMMA WriteValueKeeps ==
  ASSUME WInv, NEW v \in Values, WriteValue(v)
  PROVE  WInv'
<1> DEFINE n == Len(values)
           known == Indices(v) # {}
           index == IF known THEN CHOOSE i \in Indices(v) : TRUE ELSE n + 1
<1>1. /\ pc = "idle" /\ UNCHANGED output /\ call' = [kind |-> "value", arg |-> v]
  BY DEF WriteValue, Call
<1>2. call' \in Calls
  BY <1>1 DEF Calls
<1>3. /\ TypeOK /\ BufferTypes /\ RefsAssigned /\ num_objects \in Nat
      /\ Laid(events, OpenSet) /\ OpenCollections /\ KeysWait
      /\ \A i \in 1..Len(events) : events[i].kind = "collection" => events[i].object_ref = NoRef
      /\ collection_stack = <<>> => events = <<>>
  BY <1>1, IdleFacts
<1>4. CASE ExpectingKey /\ v \notin Strings
  BY <1>1, <1>2, <1>4, RefusedKeeps DEF WriteValue
<1>5. CASE ~(ExpectingKey /\ v \notin Strings)
  <2>1. /\ IF known
           THEN UNCHANGED <<values, num_objects>>
           ELSE /\ values' = Append(values, [value |-> v, state |-> "unassigned",
                                             ref |-> NoRef])
                /\ num_objects' = num_objects + 1
        /\ IF ExpectingKey
           THEN /\ dictionary_key_events' = Append(dictionary_key_events, index)
                /\ events' = Incremented
           ELSE /\ events' = Append(Incremented, ValueAt(index))
                /\ UNCHANGED dictionary_key_events
        /\ Accept(call', collection_stack)
    BY <1>5 DEF WriteValue
  <2>2. /\ n \in Nat
        /\ values \in Seq([value : Values, state : {"unassigned", "unwritten", "written"},
                           ref : Nat \cup {NoRef}])
    BY <1>3 DEF BufferTypes
  <2>3. /\ values' \in Seq([value : Values, state : {"unassigned", "unwritten", "written"},
                            ref : Nat \cup {NoRef}])
        /\ n <= Len(values') /\ Len(values') \in Nat /\ index \in 1..Len(values')
        /\ num_objects' \in Nat
        /\ \A i \in 1..Len(values') :
             values'[i].state # "unassigned" => i \in 1..n /\ values'[i] = values[i]
    <3>1. CASE known
      <4>1. index \in 1..n
        BY <3>1 DEF Indices
      <4> QED
        BY <1>3, <2>1, <2>2, <3>1, <4>1
    <3>2. CASE ~known
      <4> DEFINE new == [value |-> v, state |-> "unassigned", ref |-> NoRef]
      <4>1. new \in [value : Values, state : {"unassigned", "unwritten", "written"},
                     ref : Nat \cup {NoRef}]
        OBVIOUS
      <4>2. values' = Append(values, new) /\ num_objects' = num_objects + 1 /\ index = n + 1
        BY <2>1, <3>2
      <4>3. new.state = "unassigned"
        OBVIOUS
      <4> HIDE DEF new
      <4>4. /\ values' \in Seq([value : Values, state : {"unassigned", "unwritten", "written"},
                                ref : Nat \cup {NoRef}])
            /\ Len(values') = n + 1 /\ values'[n + 1] = new
            /\ \A i \in 1..n : values'[i] = values[i]
        BY <2>2, <4>1, <4>2, AppendFacts
      <4> HIDE DEF index, known
      <4> QED
        BY <1>3, <2>2, <4>2, <4>3, <4>4
    <3> QED
      BY <3>1, <3>2
  <2> HIDE DEF known, index
  <2>4. RefsAssigned'
    BY <1>3, <2>3 DEF RefsAssigned
  <2>5. EventsFor(n) \subseteq EventsFor(Len(values')) /\ ValueAt(index) \in EventsFor(Len(values'))
    BY <2>2, <2>3, EventsMade
  <2>6. /\ events' \in Seq(EventsFor(Len(values')))
        /\ Len(events) <= Len(events')
        /\ \A i \in 1..Len(events) : events'[i] = Incremented[i]
        /\ \A i \in 1..Len(events') : i \in 1..Len(events) \/ events'[i] = ValueAt(index)
        /\ Laid(events', OpenSet)
        /\ ExpectingKey \/ Len(events') = Len(events) + 1
    <3>1. CASE ExpectingKey
      <4>1. events' = Incremented
        BY <2>1, <3>1
      <4>2. Incremented \in Seq(EventsFor(n)) /\ Len(Incremented) = Len(events)
        BY <1>3, IncrementedFacts
      <4>3. Laid(Incremented, OpenSet)
        BY <1>3, IncrementedLayout
      <4> HIDE DEF OpenSet
      <4> QED
        BY <1>3, <2>5, <3>1, <4>1, <4>2, <4>3, SeqOfMore DEF BufferTypes
    <3>2. CASE ~ExpectingKey
      <4>1. events' = Append(Incremented, ValueAt(index)) /\ ValueAt(index).kind = "value"
        BY <2>1, <3>2 DEF ValueAt
      <4> HIDE DEF OpenSet
      <4>2. /\ events' \in Seq(EventsFor(Len(values'))) /\ Len(events') = Len(events) + 1
            /\ events'[Len(events) + 1] = ValueAt(index)
            /\ \A i \in 1..Len(events) : events'[i] = Incremented[i]
            /\ Laid(events', OpenSet)
        <5> DEFINE e == ValueAt(index)
                   k == Len(values')
        <5>1. /\ k \in Nat /\ Len(values) <= k /\ e \in EventsFor(k) /\ e.kind = "value"
              /\ \A o \in OpenSet : o \in OpenSet /\ (o \in OpenSet \/ o = Len(events) + 1)
              /\ events' = Append(Incremented, e)
          BY <2>2, <2>3, <2>5, <4>1
        <5> HIDE DEF e, k
        <5>2. /\ events' \in Seq(EventsFor(k)) /\ Len(events') = Len(events) + 1
              /\ events'[Len(events) + 1] = e
              /\ \A i \in 1..Len(events) : events'[i] = Incremented[i]
              /\ Laid(events', OpenSet)
          <6> DEFINE evs2 == Append(Incremented, e)
          <6>1. /\ evs2 \in Seq(EventsFor(k)) /\ Len(evs2) = Len(events) + 1
                /\ evs2[Len(events) + 1] = e
                /\ \A i \in 1..Len(events) : evs2[i] = Incremented[i]
                /\ Laid(evs2, OpenSet)
            BY <1>3, <5>1, AppendedLayout
          <6>2. events' = evs2
            BY <5>1
          <6> HIDE DEF evs2
          <6> QED
            BY <6>1, <6>2
        <5> QED
          BY <5>2 DEF e, k
      <4> QED
        BY <1>3, <3>2, <4>2 DEF BufferTypes
    <3> QED
      BY <3>1, <3>2
  <2>7. /\ collection_stack' = collection_stack /\ call' \in Calls
        /\ Phases' /\ ~Writing' /\ pc' \in {"idle", "header"} /\ verdict' = "ok"
    <3>1. collection_stack = <<>> => events' # <<>> /\ BlockEnd(events', 1) = Len(events')
      <4> SUFFICES ASSUME collection_stack = <<>>
                   PROVE  events' # <<>> /\ BlockEnd(events', 1) = Len(events')
        OBVIOUS
      <4>1. events = <<>> /\ Len(events) = 0 /\ ~ExpectingKey
        BY <1>3 DEF ExpectingKey
      <4>2. Len(events') = 1 /\ events'[1] = ValueAt(index)
        BY <2>6, <4>1
      <4>3. events'[1].kind = "value"
        BY <4>2 DEF ValueAt
      <4> QED
        BY <4>2, <4>3 DEF BlockEnd
    <3> QED
      BY <1>2, <2>1, <3>1, AcceptedPhases
  <2>8. TypeOK'
    <3>1. dictionary_key_events' \in Seq(1..Len(values'))
      <4>1. dictionary_key_events \in Seq(1..Len(values'))
        <5>1. 1..n \subseteq 1..Len(values') /\ dictionary_key_events \in Seq(1..n)
          BY <1>3, <2>2, <2>3 DEF BufferTypes
        <5> QED
          BY <5>1, SeqOfMore
      <4>2. Append(dictionary_key_events, index) \in Seq(1..Len(values'))
        BY <2>3, <4>1, AppendFacts
      <4> QED
        BY <2>1, <4>1, <4>2
    <3>2. collection_stack' \in Seq(1..Len(events'))
      <4>1. 1..Len(events) \subseteq 1..Len(events') /\ collection_stack \in Seq(1..Len(events))
        BY <1>3, <2>6 DEF BufferTypes
      <4> QED
        BY <2>7, <4>1, SeqOfMore
    <3>3. verdict' \in {"none", "ok", "illegal", "failed", "panic"}
          /\ pc' \in {"idle", "header", "stopped"}
      BY <2>7
    <3> QED
      BY <1>1, <1>3, <2>3, <2>6, <3>1, <3>2, <3>3, CallTypes
  <2>9. Buffering'
    <3>1. OpenSet' = OpenSet
      BY <2>7 DEF OpenSet
    <3>2. \A d \in 1..Len(collection_stack) : /\ collection_stack[d] \in 1..Len(events)
                                              /\ events'[collection_stack[d]]
                                                   = Incremented[collection_stack[d]]
      <4>1. \A d \in 1..Len(collection_stack) : collection_stack[d] \in 1..Len(events)
        BY <1>3 DEF BufferTypes
      <4> QED
        BY <2>6, <4>1
    <3>3. \A i \in 1..Len(events) :
            /\ events'[i].kind = events[i].kind
            /\ events[i].kind = "collection" => events'[i].object_ref = events[i].object_ref
      BY <1>3, <2>6, IncrementedFacts
    <3>4. OpenCollections'
      BY <1>3, <2>7, <3>2, <3>3 DEF OpenCollections
    <3>5. KeysWait'
      <4>1. Waits(Incremented, collection_stack, Len(dictionary_key_events'))
        <5>1. /\ ExpectingKey => Len(dictionary_key_events') = Len(dictionary_key_events) + 1
              /\ ~ExpectingKey => Len(dictionary_key_events') = Len(dictionary_key_events)
          <6>1. dictionary_key_events \in Seq(1..n)
            BY <1>3 DEF BufferTypes
          <6> QED
            BY <2>1, <6>1
        <5> QED
          BY <1>3, <5>1, IncrementedWaits
      <4>2. Waits(events', collection_stack, Len(dictionary_key_events'))
        BY <3>2, <4>1, WaitsSame
      <4> QED
        BY <2>7, <4>2 DEF KeysWait
    <3>6. \A i \in 1..Len(events') :
            events'[i].kind = "collection" => events'[i].object_ref = NoRef
      <4>1. ValueAt(index).kind = "value"
        BY DEF ValueAt
      <4> QED
        BY <1>3, <2>6, <3>3, <4>1
    <3> QED
      BY <2>6, <3>1, <3>4, <3>5, <3>6 DEF Buffering
  <2> QED
    BY <2>4, <2>7, <2>8, <2>9 DEF WInv
<1> QED
  BY <1>4, <1>5

(* The start of a collection, buffered or refused.                          *)
LEMMA WriteStartCollectionKeeps ==
  ASSUME WInv, NEW ty \in {"array", "dict"}, WriteStartCollection(ty)
  PROVE  WInv'
<1> DEFINE n == Len(values)
           l == Len(events) + 1
           e == Collection(ty)
           evs2 == Append(Incremented, e)
           open2 == OpenSet \cup {l}
           stack2 == Append(collection_stack, l)
<1>1. /\ pc = "idle" /\ UNCHANGED output /\ call' = [kind |-> ty, arg |-> 0]
  BY DEF WriteStartCollection, Call
<1>2. call' \in Calls
  BY <1>1 DEF Calls
<1>3. /\ TypeOK /\ BufferTypes /\ RefsAssigned /\ num_objects \in Nat
      /\ Laid(events, OpenSet) /\ OpenCollections /\ KeysWait
      /\ \A i \in 1..Len(events) : events[i].kind = "collection" => events[i].object_ref = NoRef
      /\ collection_stack = <<>> => events = <<>>
  BY <1>1, IdleFacts
<1>4. CASE ExpectingKey
  BY <1>1, <1>2, <1>4, RefusedKeeps DEF WriteStartCollection
<1>5. CASE ~ExpectingKey
  <2>1. /\ events' = evs2 /\ num_objects' = num_objects + 1
        /\ Accept(call', stack2)
        /\ dictionary_key_events' = dictionary_key_events /\ values' = values
    BY <1>5 DEF WriteStartCollection
  <2>2. n \in Nat /\ e \in EventsFor(n) /\ e.kind = "collection" /\ e.object_ref = NoRef
        /\ KeysOf(e) = 0 /\ l \in Nat
    <3>1. e.len = 0 /\ e.kind = "collection" /\ e.object_ref = NoRef /\ l \in Nat /\ n \in Nat
      BY <1>3 DEF Collection, BufferTypes
    <3>2. KeysOf(e) = 0
      BY <3>1 DEF KeysOf
    <3> QED
      BY <3>1, <3>2, EventsMade
  <2> HIDE DEF e
  <2>3. /\ evs2 \in Seq(EventsFor(n)) /\ Len(evs2) = l /\ evs2[l] = e
        /\ \A i \in 1..Len(events) : evs2[i] = Incremented[i]
        /\ Laid(evs2, open2)
    <3>1. n <= n /\ l \in open2
      BY <2>2
    <3>2. /\ \A o \in OpenSet : o \in open2
          /\ \A o \in open2 : o \in OpenSet \/ o = Len(events) + 1
      OBVIOUS
    <3> HIDE DEF open2
    <3> QED
      BY <1>3, <2>2, <3>1, <3>2, AppendedLayout
  <2>4. /\ stack2 \in Seq(1..l) /\ Len(stack2) = Len(collection_stack) + 1
        /\ stack2[Len(collection_stack) + 1] = l /\ stack2 # <<>>
        /\ \A d \in 1..Len(collection_stack) : stack2[d] = collection_stack[d]
    <3>1. 1..Len(events) \subseteq 1..l /\ l \in 1..l
      BY <1>3 DEF BufferTypes
    <3>2. collection_stack \in Seq(1..l)
      BY <1>3, <3>1, SeqOfMore DEF BufferTypes
    <3> QED
      BY <3>1, <3>2, AppendFacts
  <2> HIDE DEF evs2, stack2, l
  <2>5. /\ collection_stack' = stack2
        /\ Phases' /\ ~Writing' /\ pc' \in {"idle", "header"} /\ verdict' = "ok"
    BY <1>2, <2>1, <2>4, AcceptedPhases
  <2>6. TypeOK'
    <3>1. num_objects' \in Nat /\ n <= n
      BY <1>3, <2>1, <2>2
    <3>2. pc' \in {"idle", "header", "stopped"}
          /\ verdict' \in {"none", "ok", "illegal", "failed", "panic"}
      BY <2>5
    <3> QED
      BY <1>1, <1>3, <2>1, <2>2, <2>3, <2>4, <2>5, <3>1, <3>2, CallTypes DEF BufferTypes
  <2>7. RefsAssigned'
    BY <1>3, <2>1 DEF RefsAssigned
  <2>8. Buffering'
    <3>1. OpenSet' = open2
      <4>1. OpenSet' = {stack2[d] : d \in 1..Len(stack2)}
        BY <2>5 DEF OpenSet
      <4>2. \A d \in 1..Len(stack2) : d \in 1..Len(collection_stack) \/ d = Len(collection_stack) + 1
        BY <1>3, <2>4 DEF BufferTypes
      <4>3. Len(collection_stack) + 1 \in 1..Len(stack2)
            /\ 1..Len(collection_stack) \subseteq 1..Len(stack2)
        BY <1>3, <2>4 DEF BufferTypes
      <4> QED
        BY <2>4, <4>1, <4>2, <4>3 DEF OpenSet
    <3>2. \A d \in 1..Len(collection_stack) :
            /\ collection_stack[d] \in 1..Len(events) /\ collection_stack[d] < l
            /\ evs2[collection_stack[d]] = Incremented[collection_stack[d]]
            /\ evs2[collection_stack[d]].kind = "collection"
      <4>1. \A d \in 1..Len(collection_stack) : collection_stack[d] \in 1..Len(events)
        BY <1>3 DEF BufferTypes
      <4>2. \A d \in 1..Len(collection_stack) : collection_stack[d] < l
        BY <1>3, <4>1 DEF BufferTypes, l
      <4> QED
        BY <1>3, <2>3, <4>1, <4>2, IncrementedFacts DEF OpenCollections
    <3>3. OpenCollections'
      <4> DEFINE m == Len(collection_stack)
      <4>1. m \in Nat
        BY <1>3 DEF BufferTypes
      <4>2. ASSUME NEW d \in 1..Len(stack2)
            PROVE  evs2[stack2[d]].kind = "collection"
        <5>1. CASE d = m + 1
          BY <2>2, <2>3, <2>4, <5>1
        <5>2. CASE d # m + 1
          <6>1. d \in 1..m
            BY <2>4, <4>1, <5>2
          <6> QED
            BY <2>4, <3>2, <6>1
        <5> QED
          BY <5>1, <5>2
      <4>3. ASSUME NEW d \in 1..Len(stack2), NEW b \in 1..Len(stack2), b < d
            PROVE  stack2[b] < stack2[d]
        <5>1. CASE d = m + 1
          <6>1. b \in 1..m
            BY <2>4, <4>1, <4>3, <5>1
          <6> QED
            BY <2>4, <3>2, <5>1, <6>1
        <5>2. CASE d # m + 1
          <6>1. b \in 1..m /\ d \in 1..m
            BY <2>4, <4>1, <4>3, <5>2
          <6> QED
            BY <1>3, <2>4, <4>3, <6>1 DEF OpenCollections
        <5> QED
          BY <5>1, <5>2
      <4>4. stack2[1] = 1
        <5>1. CASE collection_stack = <<>>
          <6>1. Len(collection_stack) = 0 /\ Len(events) = 0
            BY <1>3, <5>1
          <6> QED
            BY <2>4, <6>1 DEF l
        <5>2. CASE collection_stack # <<>>
          <6>1. collection_stack[1] = 1 /\ 1 \in 1..m
            BY <1>3, <5>2, EmptyIffZero DEF OpenCollections, BufferTypes
          <6> QED
            BY <2>4, <6>1
        <5> QED
          BY <5>1, <5>2
      <4> QED
        BY <2>1, <2>5, <4>2, <4>3, <4>4 DEF OpenCollections
    <3>4. KeysWait'
      <4> DEFINE k == Len(dictionary_key_events)
      <4>1. Waits(Incremented, collection_stack, k) /\ k \in Nat /\ collection_stack \in Seq(Nat)
        BY <1>3, <1>5, IncrementedWaits DEF BufferTypes
      <4>2. \A d \in 1..Len(collection_stack) :
              KeysOf(evs2[collection_stack[d]]) = KeysOf(Incremented[collection_stack[d]])
        BY <3>2
      <4>3. KeysOf(evs2[l]) = 0
        BY <2>2, <2>3
      <4> HIDE DEF k
      <4>4. Waits(evs2, stack2, k)
        BY <2>2, <4>1, <4>2, <4>3, WaitsPushed DEF stack2
      <4> QED
        BY <2>1, <2>5, <4>4 DEF KeysWait, k
    <3>5. \A i \in 1..Len(evs2) : evs2[i].kind = "collection" => evs2[i].object_ref = NoRef
      <4>1. \A i \in 1..Len(evs2) : i \in 1..Len(events) \/ i = l
        BY <1>3, <2>3 DEF BufferTypes, l
      <4> QED
        BY <1>3, <2>2, <2>3, <4>1, IncrementedFacts
    <3> QED
      BY <2>1, <2>3, <3>1, <3>3, <3>4, <3>5 DEF Buffering
  <2> QED
    BY <2>5, <2>6, <2>7, <2>8 DEF WInv
<1> QED
  BY <1>4, <1>5

(* A collection c is closed, when it has len elements: the t events of tail *)
(* follow, for a dictionary those that name its keys.                       *)
KeysAfter(c, len, tail, t) ==
  /\ tail \in Seq(EventsFor(Len(values))) /\ t = Len(tail)
  /\ \/ c.ty = "array" /\ t = 0
     \/ /\ c.ty = "dict" /\ t = len + 1 /\ tail[1] = DictionaryKeys(len)
        /\ \A k \in 2..t : tail[k].kind = "value"

(* evs2 holds the m events there were, of which i is closed now, and is laid *)
(* out.                                                                     *)
WellClosed(evs2, i, m, skip) ==
  /\ evs2 \in Seq(EventsFor(Len(values))) /\ Len(evs2) = i + skip
  /\ \A p \in 1..m :
       /\ p # i => evs2[p] = events[p]
       /\ evs2[p].kind = events[p].kind
       /\ events[p].kind = "collection" => evs2[p].object_ref = events[p].object_ref
  /\ evs2[i].skip = skip
  /\ \A p \in (m + 1)..(i + skip) : evs2[p].kind # "collection"
  /\ Laid(evs2, OpenSet \ {i})

(* A collection that closes takes in everything that follows it.            *)
LEMMA ClosingLayout ==
  ASSUME BufferTypes, OpenCollections, Laid(events, OpenSet), collection_stack # <<>>,
         NEW i \in Nat, i = Last(collection_stack),
         NEW m \in Nat, m = Len(events),
         NEW len \in Nat, NEW skip \in Nat, NEW t \in Nat, i + skip = m + t,
         NEW tail, KeysAfter(events[i], len, tail, t)
  PROVE  WellClosed(Closed(i, len, skip) \o tail, i, m, skip)
<1> DEFINE n == Len(values)
           c == [[events[i] EXCEPT !.len = len] EXCEPT !.skip = skip]
           evs == Closed(i, len, skip)
           evs2 == evs \o tail
           open2 == OpenSet \ {i}
<1>1. /\ i \in 1..m /\ i \in OpenSet /\ events[i] \in EventsFor(n) /\ events[i].kind = "collection"
      /\ \A p \in OpenSet : p <= i
  BY InnermostFacts
<1>0. /\ events[i].ty = "array" => t = 0
      /\ events[i].ty = "dict" =>
           /\ t = len + 1 /\ tail[1] = DictionaryKeys(len)
           /\ \A k \in 2..t : tail[k].kind = "value"
      /\ t # 0 => events[i].ty = "dict"
      /\ tail \in Seq(EventsFor(Len(values))) /\ Len(tail) = t
  BY DEF KeysAfter
<1>2. n \in Nat /\ events \in Seq(EventsFor(n)) /\ 1 <= i /\ i <= m
  BY <1>1 DEF BufferTypes
<1>3. /\ c \in EventsFor(n) /\ c.kind = "collection" /\ c.ty = events[i].ty
      /\ c.len = len /\ c.skip = skip /\ c.object_ref = events[i].object_ref
  <2>1. c \in EventsFor(n)
    BY <1>1, <1>2, EventChanged
  <2> QED
    BY <1>1, <1>2, <2>1, EventFacts
<1>4. evs = [events EXCEPT ![i] = c]
  BY <1>1, <1>2 DEF Closed
<1> HIDE DEF c, evs
<1>5. /\ evs \in Seq(EventsFor(n)) /\ Len(evs) = m /\ evs[i] = c
      /\ \A p \in 1..m : p # i => evs[p] = events[p]
  BY <1>1, <1>2, <1>3, <1>4
<1> HIDE DEF n
<1>6. /\ evs2 \in Seq(EventsFor(n)) /\ Len(evs2) = m + t /\ Len(evs2) = i + skip
      /\ \A p \in 1..m : evs2[p] = evs[p]
      /\ \A k \in 1..t : evs2[m + k] = tail[k]
  <2>1. tail \in Seq(EventsFor(n))
    BY <1>0 DEF n
  <2>2. /\ evs2 \in Seq(EventsFor(n)) /\ Len(evs2) = Len(evs) + t
        /\ \A p \in 1..Len(evs) : evs2[p] = evs[p]
        /\ \A k \in 1..t : evs2[Len(evs) + k] = tail[k]
    <3>1. evs2 = evs \o tail /\ evs \in Seq(EventsFor(n))
      BY <1>5
    <3>2. /\ evs \o tail \in Seq(EventsFor(n)) /\ Len(evs \o tail) = Len(evs) + Len(tail)
          /\ \A p \in 1..Len(evs) : (evs \o tail)[p] = evs[p]
          /\ \A k \in 1..Len(tail) : (evs \o tail)[Len(evs) + k] = tail[k]
      BY <2>1, <3>1, ConcatFacts
    <3> HIDE DEF evs2
    <3> QED
      BY <1>0, <3>1, <3>2
  <2> HIDE DEF evs2
  <2> QED
    BY <1>2, <1>5, <2>2
<1> HIDE DEF evs2
<1>7. /\ evs2[i] = c
      /\ \A p \in 1..m : p # i => evs2[p] = events[p]
      /\ \A p \in 1..m : /\ evs2[p].kind = events[p].kind
                         /\ events[p].kind = "collection" =>
                              evs2[p].object_ref = events[p].object_ref
  BY <1>1, <1>3, <1>5, <1>6
<1>8. \A p \in (m + 1)..(i + skip) : p - m \in 1..t /\ evs2[p] = tail[p - m]
  <2> TAKE p \in (m + 1)..(i + skip)
  <2>1. p - m \in 1..t /\ m + (p - m) = p
    <3>1. p \in Int /\ m + 1 <= p /\ p <= m + t
      BY <1>2
    <3> QED
      BY <1>2, <3>1
  <2> QED
    BY <1>6, <2>1
<1>9. \A k \in 1..t : tail[k].kind # "collection"
  <2> TAKE k \in 1..t
  <2>1. events[i].ty = "dict"
    BY <1>0
  <2>2. k = 1 \/ k \in 2..t
    BY <1>2
  <2> QED
    BY <1>0, <2>1, <2>2 DEF DictionaryKeys
<1>10. Continues(events, evs2, OpenSet)
  <2>1. Len(events) <= Len(evs2)
    BY <1>2, <1>6
  <2> QED
    BY <1>1, <1>7, <2>1 DEF Continues
<1>11. ASSUME NEW q \in 1..Len(evs2), q \notin open2, q \in OpenSet \/ q > m
       PROVE  LaidAt(evs2, open2, q)
  <2>1. CASE q = i
    <3>1. BlockEnd(evs2, i) = i + skip
      BY <1>3, <1>7 DEF BlockEnd
    <3>2. ElementsEnd(evs2, i) = m
      <4>1. CASE events[i].ty = "array"
        <5>1. KeysStart(c) = skip /\ t = 0
          BY <1>0, <1>3, <4>1 DEF KeysStart
        <5> QED
          BY <1>2, <1>6, <1>7, <5>1 DEF ElementsEnd
      <4>2. CASE events[i].ty = "dict"
        <5>1. KeysStart(c) = skip - len - 1 /\ t = len + 1
          BY <1>0, <1>3, <4>2 DEF KeysStart
        <5> QED
          BY <1>2, <1>7, <5>1, SMTT(40) DEF ElementsEnd
      <4> QED
        BY <1>1, <1>2, <4>1, <4>2, EventFacts
    <3>3. ASSUME NEW p \in (i + 1)..m
          PROVE  p \notin open2 /\ BlockEnd(evs2, p) <= m
      <4>1. p \in 1..m /\ p # i /\ p \notin OpenSet
        <5>1. p \in Nat /\ i < p /\ p <= m /\ 1 <= p
          BY <1>2
        <5> HIDE DEF OpenSet
        <5>2. ASSUME p \in OpenSet
              PROVE  FALSE
          BY <1>1, <1>2, <5>1, <5>2
        <5> QED
          BY <1>2, <5>1, <5>2
      <4>2. BlockEnd(events, p) <= m
        BY <4>1 DEF Laid, LaidAt
      <4>3. BlockEnd(evs2, p) = BlockEnd(events, p)
        BY <1>7, <4>1 DEF BlockEnd
      <4> QED
        BY <4>1, <4>2, <4>3
    <3>4. ASSUME evs2[i].ty = "dict"
          PROVE  evs2[m + 1] = DictionaryKeys(evs2[i].len)
      <4>1. events[i].ty = "dict" /\ evs2[i].len = len
        BY <1>3, <1>7, <3>4
      <4>2. 1 \in 1..t /\ tail[1] = DictionaryKeys(len)
        BY <1>0, <4>1
      <4> QED
        BY <1>6, <4>1, <4>2
    <3>5. LaidCollection(evs2, open2, i)
      BY <1>1, <1>2, <3>2, <3>3, <3>4 DEF LaidCollection
    <3>6. BlockEnd(evs2, i) <= Len(evs2)
      BY <1>1, <1>2, <1>6, <3>1
    <3> QED
      BY <1>3, <1>7, <2>1, <3>5, <3>6 DEF LaidAt
  <2>2. CASE q > m
    <3>1. q \in (m + 1)..(i + skip) /\ q \in Nat
      BY <1>2, <1>6, <2>2
    <3>2. q - m \in 1..t /\ evs2[q] = tail[q - m]
      BY <1>8, <3>1
    <3>3. events[i].ty = "dict" /\ t = len + 1 /\ tail[1] = DictionaryKeys(len)
          /\ \A k \in 2..t : tail[k].kind = "value"
      BY <1>0, <3>2
    <3>4. CASE q = m + 1
      <4>1. q - m = 1
        BY <1>2, <3>4
      <4>2. evs2[q].kind = "keys" /\ evs2[q].len = len
        BY <3>2, <3>3, <4>1 DEF DictionaryKeys
      <4>3. BlockEnd(evs2, q) = Len(evs2)
        BY <1>2, <1>6, <3>3, <3>4, <4>2 DEF BlockEnd
      <4>4. ASSUME NEW p \in (q + 1)..(q + len)
            PROVE  evs2[p].kind = "value"
        <5>1. p \in (m + 1)..(i + skip) /\ p - m \in 2..t
          <6>1. p \in Nat /\ m + 1 < p /\ p <= m + 1 + len /\ i + skip = m + 1 + len
            BY <1>2, <3>1, <3>3, <3>4
          <6>2. p - m \in Nat /\ 2 <= p - m /\ p - m <= t
            BY <3>3, <6>1
          <6>3. p \in (m + 1)..(i + skip)
            BY <3>3, <6>1
          <6> QED
            BY <6>2, <6>3
        <5> QED
          BY <1>8, <3>3, <5>1
      <4>5. /\ i \in 1..(q - 1) /\ i \notin open2
            /\ evs2[i].kind = "collection" /\ evs2[i].ty = "dict"
            /\ ElementsEnd(evs2, i) + 1 = q
        <5>1. KeysStart(c) = skip - len - 1
          BY <1>3, <3>3 DEF KeysStart
        <5>2. ElementsEnd(evs2, i) = i + (skip - len - 1)
          BY <1>7, <5>1 DEF ElementsEnd
        <5>3. ElementsEnd(evs2, i) + 1 = q
          <6>1. skip - len - 1 = m - i
            BY <1>2, <3>3
          <6>2. i + (m - i) = m
            OBVIOUS
          <6> HIDE DEF evs2
          <6> QED
            BY <3>4, <5>2, <6>1, <6>2
        <5>4. i \in 1..(q - 1) /\ i \notin open2
          BY <1>2, <3>4
        <5> QED
          BY <1>3, <1>7, <3>3, <5>3, <5>4
      <4>6. LaidKeys(evs2, open2, q)
        BY <4>2, <4>4, <4>5 DEF LaidKeys
      <4> QED
        BY <1>2, <1>6, <4>2, <4>3, <4>6 DEF LaidAt
    <3>5. CASE q # m + 1
      <4>1. q - m \in 2..t
        <5>1. q - m \in Nat /\ 1 <= q - m /\ q - m <= t /\ q - m # 1
          BY <1>2, <3>1, <3>2, <3>5
        <5> QED
          BY <1>2, <5>1
      <4>2. evs2[q].kind = "value"
        BY <3>2, <3>3, <4>1
      <4>3. BlockEnd(evs2, q) = q
        BY <4>2 DEF BlockEnd
      <4> QED
        BY <1>2, <1>6, <3>1, <4>2, <4>3 DEF LaidAt
    <3> QED
      BY <3>4, <3>5
  <2> QED
    BY <1>11, <2>1, <2>2
<1>12. \A o \in open2 : o \in 1..m => o \in OpenSet
  OBVIOUS
<1>13. Laid(evs2, open2)
  <2> HIDE DEF open2, OpenSet
  <2> QED
    BY <1>2, <1>6, <1>10, <1>11, <1>12, LaidExtended, OpenAreCollections
<1>14. \A p \in (m + 1)..(i + skip) : evs2[p].kind # "collection"
  BY <1>8, <1>9
<1> QED
  <2>1. WellClosed(evs2, i, m, skip)
    BY <1>3, <1>6, <1>7, <1>13, <1>14 DEF n, WellClosed
  <2> QED
    BY <2>1 DEF evs2, evs

(* k of the keys that wait are taken.                                       *)
KeysTaken(k) ==
  Len(dictionary_key_events) - k \in Nat =>
    /\ dictionary_key_events' \in Seq(1..Len(values))
    /\ Len(dictionary_key_events') = Len(dictionary_key_events) - k

(* The innermost collection i is closed, and the events of tail follow.     *)
IsClosed(i, len, skip, tail) == events' = Closed(i, len, skip) \o tail

(* What is buffered, and what waits, after the innermost collection i has   *)
(* been closed.                                                             *)
LEMMA ClosedKeeps ==
  ASSUME WInv, pc = "idle", collection_stack # <<>>,
         UNCHANGED <<output, values, num_objects>>, call' \in Calls,
         NEW i \in Nat, i = Last(collection_stack),
         NEW m \in Nat, m = Len(events),
         NEW len \in Nat, NEW skip \in Nat, NEW t \in Nat, i + skip = m + t,
         NEW tail, KeysAfter(events[i], len, tail, t),
         IsClosed(i, len, skip, tail),
         NEW k \in Nat, k = KeysOf(events[i]), KeysTaken(k),
         Accept(call', Front(collection_stack))
  PROVE  WInv'
<1> DEFINE s == collection_stack
           f == Front(collection_stack)
           n == Len(values)
<1>1. /\ TypeOK /\ BufferTypes /\ RefsAssigned /\ num_objects \in Nat
      /\ Laid(events, OpenSet) /\ OpenCollections /\ KeysWait
      /\ \A p \in 1..m : events[p].kind = "collection" => events[p].object_ref = NoRef
  BY IdleFacts
<1>a. \A d \in 1..Len(s) : s[d] \in 1..m
  <2>1. s \in Seq(1..m)
    BY <1>1 DEF BufferTypes
  <2> QED
    BY <2>1, SeqElements
<1>2. /\ i \in 1..m /\ i \in OpenSet /\ events[i].kind = "collection" /\ i = s[Len(s)]
      /\ Len(s) \in Nat \ {0} /\ m \in Nat
      /\ \A d \in 1..(Len(s) - 1) : s[d] # i
      /\ f \in Seq(1..m) /\ Len(f) = Len(s) - 1
      /\ \A d \in 1..(Len(s) - 1) : f[d] = s[d]
  BY <1>1, InnermostFacts DEF BufferTypes
<1>3. /\ events' \in Seq(EventsFor(n)) /\ Len(events') = i + skip /\ m <= Len(events')
      /\ \A p \in 1..m :
           /\ p # i => events'[p] = events[p]
           /\ events'[p].kind = events[p].kind
           /\ events[p].kind = "collection" => events'[p].object_ref = events[p].object_ref
      /\ events'[i].skip = skip
      /\ \A p \in (m + 1)..(i + skip) : events'[p].kind # "collection"
      /\ Laid(events', OpenSet \ {i})
  <2>1. WellClosed(events', i, m, skip)
    BY <1>1, ClosingLayout DEF IsClosed
  <2>2. m <= i + skip
    BY <1>2
  <2> QED
    BY <2>1, <2>2 DEF WellClosed
<1>4. OpenSet \ {i} = {f[d] : d \in 1..Len(f)}
  <2>1. ASSUME NEW d \in 1..Len(f)
        PROVE  f[d] \in OpenSet \ {i}
    <3>1. d \in 1..(Len(s) - 1) /\ d \in 1..Len(s)
      BY <1>2
    <3> QED
      BY <1>2, <3>1 DEF OpenSet
  <2>2. ASSUME NEW o \in OpenSet, o # i
        PROVE  \E d \in 1..Len(f) : o = f[d]
    <3>1. PICK d \in 1..Len(s) : o = s[d]
      BY DEF OpenSet
    <3>2. d \in 1..(Len(s) - 1)
      BY <1>2, <2>2, <3>1
    <3> QED
      BY <1>2, <3>1, <3>2
  <2> QED
    BY <2>1, <2>2
<1>5. /\ f = <<>> => i = 1
      /\ f # <<>> => f[1] = 1
  <2>1. s[1] = 1 /\ (f = <<>> <=> Len(f) = 0)
    BY <1>1, <1>2, EmptyIffZero DEF OpenCollections
  <2>2. f = <<>> => Len(s) = 1
    BY <1>2, <2>1
  <2>3. f # <<>> => 1 \in 1..(Len(s) - 1)
    BY <1>2, <2>1, EmptyIffZero
  <2> QED
    BY <1>2, <2>1, <2>2, <2>3
<1>6. /\ collection_stack' = f /\ call' \in Calls
      /\ Phases' /\ ~Writing' /\ pc' \in {"idle", "header"} /\ verdict' = "ok"
  <2>1. f = <<>> => events' # <<>> /\ BlockEnd(events', 1) = Len(events')
    <3> SUFFICES ASSUME f = <<>>
                 PROVE  events' # <<>> /\ BlockEnd(events', 1) = Len(events')
      OBVIOUS
    <3>1. i = 1 /\ events'[1].kind = "collection" /\ events'[1].skip = skip
      BY <1>2, <1>3, <1>5
    <3>2. BlockEnd(events', 1) = 1 + skip
      BY <3>1 DEF BlockEnd
    <3> QED
      BY <1>2, <1>3, <3>1, <3>2
  <2> QED
    BY <2>1, AcceptedPhases
<1>7. k <= Len(dictionary_key_events) /\ Len(dictionary_key_events) - k \in Nat
      /\ Waits(events', f, Len(dictionary_key_events) - k)
  <2>1. /\ s \in Seq(Nat) /\ Len(dictionary_key_events) \in Nat
        /\ Waits(events, s, Len(dictionary_key_events))
    BY <1>1 DEF BufferTypes, KeysWait
  <2>2. \A d \in 1..(Len(s) - 1) : KeysOf(events'[s[d]]) = KeysOf(events[s[d]])
    <3>1. \A d \in 1..(Len(s) - 1) : s[d] \in 1..m
      BY <1>2, <1>a
    <3> QED
      BY <1>2, <1>3, <3>1
  <2>3. k = KeysOf(events[Last(s)])
    OBVIOUS
  <2>4. Len(dictionary_key_events) - k \in Nat
        /\ Waits(events', f, Len(dictionary_key_events) - k)
    <3> HIDE DEF s
    <3>1. s # <<>> /\ f = Front(s)
      BY DEF s
    <3> QED
      BY <2>1, <2>2, <2>3, <3>1, WaitsPopped
  <2> QED
    BY <2>1, <2>4
<1>8. /\ dictionary_key_events' \in Seq(1..n)
      /\ Len(dictionary_key_events') = Len(dictionary_key_events) - k
  BY <1>7 DEF KeysTaken
<1> HIDE DEF f, n
<1>9. TypeOK'
  <2>1. /\ values' = values /\ num_objects' = num_objects /\ UNCHANGED output
        /\ n \in Nat /\ n <= n
    BY <1>1 DEF BufferTypes, n
  <2>2. collection_stack' \in Seq(1..Len(events'))
    <3>1. 1..m \subseteq 1..Len(events')
      BY <1>2, <1>3
    <3> QED
      BY <1>2, <1>6, <3>1, SeqOfMore
  <2>3. pc' \in {"idle", "header", "stopped"}
        /\ verdict' \in {"none", "ok", "illegal", "failed", "panic"}
    BY <1>6
  <2> QED
    BY <1>1, <1>3, <1>8, <2>1, <2>2, <2>3, CallTypes DEF BufferTypes, n
<1>10. RefsAssigned'
  BY <1>1 DEF RefsAssigned
<1>11. Buffering'
  <2>1. OpenSet' = OpenSet \ {i}
    BY <1>4, <1>6 DEF OpenSet
  <2>2. OpenCollections'
    <3>1. \A d \in 1..Len(f) : d \in 1..Len(s) /\ f[d] = s[d] /\ s[d] \in 1..m
      <4>1. \A d \in 1..Len(f) : d \in 1..(Len(s) - 1) /\ d \in 1..Len(s)
        BY <1>2
      <4> QED
        BY <1>2, <1>a, <4>1
    <3>2. ASSUME NEW d \in 1..Len(f)
          PROVE  events'[f[d]].kind = "collection"
      <4>1. events[s[d]].kind = "collection"
        BY <1>1, <3>1 DEF OpenCollections
      <4> QED
        BY <1>3, <3>1, <4>1
    <3>3. \A d \in 1..Len(f), b \in 1..Len(f) : b < d => f[b] < f[d]
      BY <1>1, <3>1 DEF OpenCollections
    <3> QED
      BY <1>5, <1>6, <3>2, <3>3 DEF OpenCollections
  <2>3. KeysWait'
    BY <1>6, <1>7, <1>8 DEF KeysWait
  <2>4. \A p \in 1..Len(events') :
          events'[p].kind = "collection" => events'[p].object_ref = NoRef
    <3> TAKE p \in 1..Len(events')
    <3>1. p \in 1..m \/ p \in (m + 1)..(i + skip)
      BY <1>2, <1>3
    <3> QED
      BY <1>1, <1>3, <3>1
  <2> QED
    BY <1>3, <2>1, <2>2, <2>3, <2>4 DEF Buffering
<1> QED
  BY <1>6, <1>9, <1>10, <1>11 DEF WInv

(* The events of the keys that wait from the one after start on.            *)
WaitingKeys(start, pairs) ==
  [k \in 1..pairs |-> ValueAt(dictionary_key_events[start + k])]

(* Three sequences in a row are two, the second and third together.         *)
LEMMA KeyEvents ==
  ASSUME BufferTypes, NEW evs \in Seq(EventsFor(Len(values))), NEW pairs \in Nat,
         NEW start \in Nat, start + pairs = Len(dictionary_key_events),
         NEW c, c.ty = "dict"
  PROVE  \E tail :
           /\ KeysAfter(c, pairs, tail, pairs + 1)
           /\ evs \o <<DictionaryKeys(pairs)>> \o WaitingKeys(start, pairs) = evs \o tail
<1> DEFINE E == EventsFor(Len(values))
           one == <<DictionaryKeys(pairs)>>
           more == WaitingKeys(start, pairs)
           tail == one \o more
<1>1. DictionaryKeys(pairs) \in E /\ \A i \in 1..Len(values) : ValueAt(i) \in E
  BY EventsMade DEF BufferTypes
<1>2. ASSUME NEW k \in 1..pairs
      PROVE  /\ ValueAt(dictionary_key_events[start + k]) \in E
             /\ ValueAt(dictionary_key_events[start + k]).kind = "value"
  <2>1. start + k \in 1..Len(dictionary_key_events)
    OBVIOUS
  <2>2. dictionary_key_events[start + k] \in 1..Len(values)
    <3>1. dictionary_key_events \in Seq(1..Len(values))
      BY DEF BufferTypes
    <3> QED
      BY <2>1, <3>1, SeqElements
  <2> QED
    BY <1>1, <2>2 DEF ValueAt
<1> HIDE DEF E
<1>3. /\ one \in Seq(E) /\ Len(one) = 1 /\ one[1] = DictionaryKeys(pairs)
  BY <1>1
<1>4. /\ more \in Seq(E) /\ Len(more) = pairs
      /\ \A k \in 1..pairs : more[k].kind = "value"
  <2>1. \A k \in 1..pairs : more[k] \in E /\ more[k].kind = "value"
    BY <1>2 DEF WaitingKeys
  <2>2. more \in [1..pairs -> E]
    BY <2>1 DEF WaitingKeys
  <2>3. more \in Seq(E) /\ Len(more) = pairs
    BY <2>2
  <2> QED
    BY <2>1, <2>3
<1> HIDE DEF one, more
<1>5. /\ tail \in Seq(E) /\ Len(tail) = pairs + 1 /\ tail[1] = DictionaryKeys(pairs)
      /\ \A i \in 1..pairs : tail[1 + i] = more[i]
  <2>1. /\ tail \in Seq(E) /\ Len(tail) = Len(more) + 1 /\ tail[1] = DictionaryKeys(pairs)
        /\ \A i \in 1..Len(more) : tail[1 + i] = more[i]
    BY <1>1, <1>4, FirstAndRest DEF one
  <2> HIDE DEF tail
  <2> QED
    BY <1>4, <2>1
<1>7. (evs \o one) \o more = evs \o tail
  BY <1>3, <1>4, ConcatAssociative, SMTT(40) DEF E
<1>8. KeysAfter(c, pairs, tail, pairs + 1)
  <2>1. tail[1] = DictionaryKeys(pairs)
    BY <1>5
  <2>2. ASSUME NEW k \in 2..(pairs + 1)
        PROVE  tail[k].kind = "value"
    <3>1. k - 1 \in 1..pairs /\ 1 + (k - 1) = k
      OBVIOUS
    <3>2. tail[1 + (k - 1)] = more[k - 1]
      BY <1>5, <3>1
    <3> HIDE DEF tail
    <3> QED
      BY <1>4, <3>1, <3>2
  <2> HIDE DEF tail
  <2> QED
    BY <1>5, <2>1, <2>2 DEF KeysAfter, E
<1> QED
  BY <1>7, <1>8 DEF one, more

(* A collection that is closed remains an event.                            *)
LEMMA ClosedType ==
  ASSUME BufferTypes, NEW i \in 1..Len(events), events[i].kind = "collection",
         NEW len \in Nat, NEW skip \in Nat
  PROVE  /\ Closed(i, len, skip) \in Seq(EventsFor(Len(values)))
         /\ Len(Closed(i, len, skip)) = Len(events)
<1> DEFINE c == [[events[i] EXCEPT !.len = len] EXCEPT !.skip = skip]
<1>1. /\ Len(values) \in Nat /\ events \in Seq(EventsFor(Len(values)))
      /\ events[i] \in EventsFor(Len(values))
  BY DEF BufferTypes
<1>2. c \in EventsFor(Len(values))
  BY <1>1, EventChanged
<1>3. Closed(i, len, skip) = [events EXCEPT ![i] = c]
  BY <1>1 DEF Closed
<1> HIDE DEF c
<1> QED
  BY <1>1, <1>2, <1>3

(* The end of a collection, buffered or refused.                            *)
LEMMA WriteEndCollectionKeeps ==
  ASSUME WInv, WriteEndCollection
  PROVE  WInv'
<1> DEFINE n == Len(values)
           dke == dictionary_key_events
<1>1. /\ pc = "idle" /\ UNCHANGED <<output, values, num_objects>>
      /\ call' = [kind |-> "end", arg |-> 0]
  BY DEF WriteEndCollection, Call
<1>2. call' \in Calls
  BY <1>1 DEF Calls
<1>3. TypeOK /\ BufferTypes /\ RefsAssigned /\ num_objects \in Nat /\ OpenCollections /\ KeysWait
  BY <1>1, IdleFacts
<1>4. CASE collection_stack = <<>>
  BY <1>1, <1>2, <1>4, RefusedKeeps DEF WriteEndCollection
<1>5. CASE collection_stack # <<>>
  <2> DEFINE i == Last(collection_stack)
             c == events[i]
             skip == Len(events) - i
             pairs == c.len \div 2
             start == Len(dke) - pairs
  <2>1. \/ /\ c.ty = "array"
           /\ events' = Closed(i, c.len, skip)
           /\ Accept(call', Front(collection_stack))
           /\ UNCHANGED dictionary_key_events
        \/ /\ c.ty = "dict" /\ c.len % 2 # 0
           /\ events' = Closed(i, c.len, skip)
           /\ collection_stack' = Front(collection_stack)
           /\ Refuse
           /\ UNCHANGED dictionary_key_events
        \/ /\ c.ty = "dict" /\ c.len % 2 = 0
           /\ events' = Closed(i, pairs, DictSkip(skip, pairs))
                          \o <<DictionaryKeys(pairs)>>
                          \o [k \in 1..pairs |-> ValueAt(dke[start + k])]
           /\ dictionary_key_events' = SubSeq(dke, 1, start)
           /\ Accept(call', Front(collection_stack))
    BY <1>5 DEF WriteEndCollection
  <2>2. /\ i \in 1..Len(events) /\ c.kind = "collection" /\ c \in EventsFor(n)
        /\ Front(collection_stack) \in Seq(1..Len(events))
    BY <1>3, <1>5, InnermostFacts
  <2>3. /\ n \in Nat /\ c.len \in Nat /\ c.ty \in {"array", "dict"} /\ Len(events) \in Nat /\ i \in Nat
        /\ skip \in Nat /\ i + skip = Len(events) + 0 /\ pairs \in Nat
        /\ Len(dke) \in Nat
    <3>1. n \in Nat /\ Len(events) \in Nat /\ Len(dke) \in Nat
      BY <1>3 DEF BufferTypes
    <3>2. c.len \in Nat /\ c.ty \in {"array", "dict"}
      BY <2>2, <3>1, EventFacts
    <3>3. pairs \in Nat
      BY <3>2
    <3>4. i \in Nat
      BY <2>2, <3>1
    <3> HIDE DEF i, c, pairs
    <3>5. skip \in Nat /\ i + skip = Len(events) + 0
      BY <2>2, <3>1, <3>4
    <3> QED
      BY <3>1, <3>2, <3>3, <3>4, <3>5
  <2>4. KeysOf(c) = IF c.ty = "dict" THEN (c.len + 1) \div 2 ELSE 0
    BY DEF KeysOf
  <2> HIDE DEF c, i
  <2>5. CASE c.ty = "array"
    <3>1. /\ events' = Closed(i, c.len, skip)
          /\ Accept(call', Front(collection_stack))
          /\ dictionary_key_events' = dke
      BY <2>1, <2>5
    <3>2. Closed(i, c.len, skip) \in Seq(EventsFor(n))
      BY <1>3, <2>2, <2>3, ClosedType DEF c
    <3>3. IsClosed(i, c.len, skip, <<>>)
      BY <3>1, <3>2, ConcatEmptySeq DEF IsClosed
    <3>4. KeysAfter(c, c.len, <<>>, 0)
      BY <2>5, EmptySeq DEF KeysAfter
    <3>5. KeysOf(c) = 0 /\ KeysTaken(0)
      <4>1. dke \in Seq(1..n)
        BY <1>3 DEF BufferTypes
      <4> QED
        BY <2>3, <2>4, <2>5, <3>1, <4>1 DEF KeysTaken
    <3> HIDE DEF skip, pairs
    <3>6. KeysAfter(events[i], c.len, <<>>, 0) /\ 0 = KeysOf(events[i]) /\ KeysTaken(0)
      BY <3>4, <3>5 DEF c
    <3>7. i = Last(collection_stack)
      BY DEF i
    <3> QED
      BY <1>1, <1>2, <1>5, <2>3, <3>1, <3>3, <3>6, <3>7, ClosedKeeps
  <2>6. CASE c.ty = "dict" /\ c.len % 2 # 0
    <3>1. /\ events' = Closed(i, c.len, skip)
          /\ collection_stack' = Front(collection_stack)
          /\ dictionary_key_events' = dke
          /\ pc' = "stopped" /\ verdict' = "illegal"
      BY <2>1, <2>6 DEF Refuse
    <3>2. events' \in Seq(EventsFor(n)) /\ Len(events') = Len(events)
      BY <1>3, <2>2, <2>3, <3>1, ClosedType DEF c
    <3>3. TypeOK'
      <4>1. values' = values /\ num_objects' = num_objects /\ n <= n
        BY <1>1, <2>3
      <4>2. collection_stack' \in Seq(1..Len(events'))
        BY <2>2, <3>1, <3>2
      <4>3. pc' \in {"idle", "header", "stopped"}
            /\ verdict' \in {"none", "ok", "illegal", "failed", "panic"}
        BY <3>1
      <4> QED
        BY <1>1, <1>3, <2>3, <3>1, <3>2, <4>1, <4>2, <4>3, CallTypes DEF BufferTypes
    <3>4. RefsAssigned'
      BY <1>1, <1>3 DEF RefsAssigned
    <3> QED
      BY <1>2, <3>1, <3>3, <3>4, StoppedKeeps
  <2>7. CASE c.ty = "dict" /\ c.len % 2 = 0
    <3> DEFINE s2 == DictSkip(skip, pairs)
    <3>1. /\ events' = Closed(i, pairs, s2)
                         \o <<DictionaryKeys(pairs)>>
                         \o [k \in 1..pairs |-> ValueAt(dke[start + k])]
          /\ dictionary_key_events' = SubSeq(dke, 1, start)
          /\ Accept(call', Front(collection_stack))
      BY <2>1, <2>7
    <3>2. KeysOf(c) = pairs
      <4>1. c.len + 1 = 2 * pairs + 1
        BY <2>3, <2>7
      <4>2. (c.len + 1) \div 2 = pairs
        BY <2>3, <4>1, SMTT(40)
      <4> QED
        BY <2>4, <2>7, <4>2
    <3>3. s2 \in Nat /\ i + s2 = Len(events) + (pairs + 1) /\ pairs + 1 \in Nat
      <4>1. s2 = skip + 1 + pairs
        BY DEF DictSkip
      <4> HIDE DEF pairs, skip, s2
      <4> QED
        BY <2>3, <4>1
    <3>4. start \in Nat
      <4>1. /\ collection_stack \in Seq(Nat) /\ Waits(events, collection_stack, Len(dke))
        BY <1>3 DEF BufferTypes, KeysWait
      <4>2. KeysOf(events[Last(collection_stack)]) = pairs
        BY <3>2 DEF c, i
      <4> HIDE DEF pairs
      <4>3. Len(dke) - pairs \in Nat
        BY <1>5, <2>3, <4>1, <4>2, WaitsPopped
      <4> QED
        BY <4>3
    <3> HIDE DEF s2, pairs, skip, start
    <3> DEFINE evs == Closed(i, pairs, s2)
    <3>5. evs \in Seq(EventsFor(n))
      BY <1>3, <2>2, <2>3, <3>3, ClosedType DEF c
    <3>6. start + pairs = Len(dke)
      BY <2>3 DEF start
    <3>7. PICK tail :
             /\ KeysAfter(c, pairs, tail, pairs + 1)
             /\ evs \o <<DictionaryKeys(pairs)>> \o WaitingKeys(start, pairs) = evs \o tail
      <4> HIDE DEF evs
      <4>1. BufferTypes /\ evs \in Seq(EventsFor(Len(values)))
        BY <1>3, <3>5
      <4>2. pairs \in Nat /\ start \in Nat /\ start + pairs = Len(dictionary_key_events)
        BY <2>3, <3>4, <3>6
      <4>3. c.ty = "dict"
        BY <2>7
      <4> QED
        BY <4>1, <4>2, <4>3, KeyEvents, Zenon
    <3>8. IsClosed(i, pairs, s2, tail)
      BY <3>1, <3>7 DEF IsClosed, WaitingKeys
    <3>a. /\ KeysAfter(events[i], pairs, tail, pairs + 1) /\ pairs = KeysOf(events[i])
          /\ i = Last(collection_stack)
      BY <3>2, <3>7 DEF c, i
    <3>9. KeysTaken(pairs)
      <4>1. dke \in Seq(1..n) /\ start <= Len(dke)
        BY <1>3, <2>3, <3>4, <3>6 DEF BufferTypes
      <4>2. SubSeq(dke, 1, start) \in Seq(1..n) /\ Len(SubSeq(dke, 1, start)) = start
        BY <2>3, <3>4, <4>1
      <4> QED
        BY <3>1, <4>2 DEF KeysTaken, start
    <3> QED
      BY <1>1, <1>2, <1>5, <2>3, <3>1, <3>3, <3>8, <3>9, <3>a, ClosedKeeps
  <2> QED
    BY <2>3, <2>5, <2>6, <2>7
<1> QED
  BY <1>4, <1>5

(***************************************************************************)
(* The steps of write_plist.                                               *)
(***************************************************************************)
ValueRecords ==
  [value : Values, state : {"unassigned", "unwritten", "written"}, ref : Nat \cup {NoRef}]

(* No value of vals has lost what it has in values, and who has a reference *)
(* has a number.                                                            *)
ValuesGrow(vals) ==
  /\ vals \in Seq(ValueRecords) /\ Len(vals) = Len(values)
  /\ \A i \in 1..Len(values) :
       values[i].state # "unassigned" => vals[i].state # "unassigned"
  /\ \A i \in 1..Len(values) : vals[i].state # "unassigned" => vals[i].ref \in Nat

(* Values that stay the same lose nothing.                                  *)
LEMMA SameValuesGrow ==
  ASSUME TypeOK, RefsAssigned
  PROVE  ValuesGrow(values)
  BY DEF TypeOK, RefsAssigned, ValuesGrow, ValueRecords

(* A value gets a reference.                                                *)
LEMMA AssignedGrows ==
  ASSUME TypeOK, RefsAssigned, NEW i \in 1..Len(values), NEW r \in Nat
  PROVE  ValuesGrow(Assigned(i, r)) /\ Assigned(i, r)[i].state # "unassigned"
<1> DEFINE e == [[values[i] EXCEPT !.state = "unwritten"] EXCEPT !.ref = r]
<1>1. values \in Seq(ValueRecords) /\ Len(values) \in Nat /\ values[i] \in ValueRecords
  <2>1. values \in Seq(ValueRecords)
    BY DEF TypeOK, ValueRecords
  <2> QED
    BY <2>1, SeqElements
<1>2. e \in ValueRecords /\ e.state = "unwritten" /\ e.ref = r
  BY <1>1 DEF ValueRecords
<1>3. Assigned(i, r) = [values EXCEPT ![i] = e]
  BY <1>1 DEF Assigned
<1> HIDE DEF e
<1>4. /\ [values EXCEPT ![i] = e] \in Seq(ValueRecords)
      /\ Len([values EXCEPT ![i] = e]) = Len(values)
      /\ [values EXCEPT ![i] = e][i] = e
      /\ \A j \in 1..Len(values) : j # i => [values EXCEPT ![i] = e][j] = values[j]
  BY <1>1, <1>2
<1> QED
  BY <1>2, <1>3, <1>4 DEF ValuesGrow, RefsAssigned

(* A value that has a reference is written.                                 *)
LEMMA WrittenGrows ==
  ASSUME TypeOK, RefsAssigned, NEW i \in 1..Len(values), values[i].state # "unassigned"
  PROVE  ValuesGrow(Written(i))
<1> DEFINE e == [values[i] EXCEPT !.state = "written"]
<1>1. values \in Seq(ValueRecords) /\ Len(values) \in Nat /\ values[i] \in ValueRecords
  <2>1. values \in Seq(ValueRecords)
    BY DEF TypeOK, ValueRecords
  <2> QED
    BY <2>1, SeqElements
<1>2. e \in ValueRecords /\ e.state = "written" /\ e.ref = values[i].ref
  BY <1>1 DEF ValueRecords
<1>3. Written(i) = [values EXCEPT ![i] = e]
  BY <1>1 DEF Written
<1> HIDE DEF e
<1>4. /\ [values EXCEPT ![i] = e] \in Seq(ValueRecords)
      /\ Len([values EXCEPT ![i] = e]) = Len(values)
      /\ [values EXCEPT ![i] = e][i] = e
      /\ \A j \in 1..Len(values) : j # i => [values EXCEPT ![i] = e][j] = values[j]
  BY <1>1, <1>2
<1> QED
  BY <1>2, <1>3, <1>4 DEF ValuesGrow, RefsAssigned

(* The types of what write_plist changes.                                   *)
LEMMA WrittenTypes ==
  ASSUME TypeOK, ValuesGrow(values'), num_objects' = num_objects,
         dictionary_key_events' = dictionary_key_events, collection_stack' \in Seq(1..Len(events')),
         events' \in Seq(EventsFor(Len(values))),
         pos' \in Nat, todo' \in Seq(EventsFor(Len(values))), cursor' \in Nat \ {0},
         pending' \in Seq(1..Len(todo')), next_object_ref' \in Nat, file' \in Seq(Objects),
         pc' \in {"idle", "stopped", "panic", "header", "objects", "refs", "keys"},
         verdict' \in {"none", "ok", "illegal", "failed", "panic"}
  PROVE  TypeOK'
<1>1. Len(values') = Len(values) /\ values' \in Seq(ValueRecords)
  BY DEF ValuesGrow
<1>2. Events' = EventsFor(Len(values)) /\ Objects' = Objects
  BY <1>1 DEF Events, EventsFor, Objects
<1>3. dictionary_key_events' \in Seq(1..Len(values')) /\ num_objects' \in Nat
  BY <1>1 DEF TypeOK
<1> QED
  BY <1>1, <1>2, <1>3 DEF TypeOK, ValueRecords

(* Whatever has been done to the values, when the output fails the writer   *)
(* stops.                                                                   *)
LEMMA IOErrorKeeps ==
  ASSUME WInv, IOError, ValuesGrow(values')
  PROVE  WInv'
<1>1. TypeOK /\ call \in Calls
  BY DEF WInv, Phases
<1>2. /\ pc' = "stopped" /\ verdict' = "failed" /\ num_objects' = num_objects
      /\ events' = events /\ dictionary_key_events' = dictionary_key_events
      /\ collection_stack' = collection_stack /\ call' = call
      /\ pos' = pos /\ todo' = todo /\ cursor' = cursor /\ pending' = pending
      /\ next_object_ref' = next_object_ref /\ file' = file
  BY DEF IOError, buffer, output, history
<1>3. TypeOK'
  <2>1. /\ events \in Seq(EventsFor(Len(values))) /\ collection_stack \in Seq(1..Len(events))
        /\ pos \in Nat /\ todo \in Seq(EventsFor(Len(values))) /\ cursor \in Nat \ {0}
        /\ pending \in Seq(1..Len(todo)) /\ next_object_ref \in Nat /\ file \in Seq(Objects)
    BY <1>1, EventsAreFor DEF TypeOK
  <2> QED
    BY <1>1, <1>2, <2>1, WrittenTypes
<1>4. RefsAssigned'
  BY DEF ValuesGrow, RefsAssigned
<1> QED
  BY <1>1, <1>2, <1>3, <1>4, StoppedKeeps

(* What is known while the plist is written.                                *)
LEMMA WritingFacts ==
  ASSUME WInv, Writing
  PROVE  /\ TypeOK /\ RefsAssigned /\ Numbering /\ verdict = "ok" /\ call \in Calls
         /\ todo \in Seq(EventsFor(Len(values))) /\ Len(todo) \in Nat /\ Len(values) \in Nat
         /\ cursor \in Nat \ {0}
         /\ pending \in Seq(1..Len(todo)) /\ Len(pending) \in Nat
         /\ next_object_ref \in Nat /\ file \in Seq(Objects) /\ pos \in Nat
         /\ events = <<>> /\ dictionary_key_events = <<>> /\ collection_stack = <<>>
         /\ Laid(todo, {}) /\ BlockEnd(todo, 1) = Len(todo) /\ todo # <<>>
         /\ NotAmongKeys(todo, cursor)
         /\ \A q \in 1..Len(todo) : Assignment(q)
<1>1. /\ TypeOK /\ RefsAssigned /\ Numbering /\ verdict = "ok" /\ call \in Calls
      /\ events = <<>> /\ dictionary_key_events = <<>> /\ collection_stack = <<>>
  BY DEF WInv, Phases
<1>2. Len(values) \in Nat
  BY <1>1, TypesOfBuffer DEF BufferTypes
<1>3. /\ todo \in Seq(EventsFor(Len(values))) /\ cursor \in Nat \ {0}
      /\ pending \in Seq(1..Len(todo)) /\ next_object_ref \in Nat /\ file \in Seq(Objects)
      /\ pos \in Nat
  BY <1>1, EventsAreFor DEF TypeOK
<1>4. Len(todo) \in Nat /\ Len(pending) \in Nat
  BY <1>3
<1>5. /\ Laid(todo, {}) /\ BlockEnd(todo, 1) = Len(todo) /\ todo # <<>>
      /\ NotAmongKeys(todo, cursor)
      /\ \A q \in 1..Len(todo) : Assignment(q)
  BY <1>1 DEF Numbering
<1> QED
  BY <1>1, <1>2, <1>3, <1>4, <1>5

(* A step of write_plist that succeeds.                                     *)
LEMMA ContinueKeeps ==
  ASSUME WInv, Writing, ValuesGrow(values'), NEW where \in {"objects", "refs", "keys"},
         Continue(where), pos' \in Nat, todo' \in Seq(EventsFor(Len(values))),
         cursor' \in Nat \ {0}, pending' \in Seq(1..Len(todo')), next_object_ref' \in Nat,
         file' \in Seq(Objects), Numbering'
  PROVE  WInv'
<1>1. /\ TypeOK /\ RefsAssigned /\ verdict = "ok" /\ call \in Calls
      /\ events = <<>> /\ dictionary_key_events = <<>> /\ collection_stack = <<>>
  BY WritingFacts
<1>2. /\ pc' = where /\ verdict' = verdict /\ num_objects' = num_objects /\ call' = call
      /\ events' = events /\ dictionary_key_events' = dictionary_key_events
      /\ collection_stack' = collection_stack
  BY DEF Continue, buffer, history
<1>3. TypeOK'
  <2>1. events \in Seq(EventsFor(Len(values))) /\ collection_stack \in Seq(1..Len(events))
    BY <1>1, EventsAreFor DEF TypeOK
  <2> QED
    BY <1>1, <1>2, <2>1, WrittenTypes
<1>4. RefsAssigned'
  BY DEF ValuesGrow, RefsAssigned
<1>5. Phases' /\ Writing' /\ pc' \notin {"idle", "header"}
  BY <1>1, <1>2 DEF Phases, Writing
<1> QED
  BY <1>3, <1>4, <1>5 DEF WInv

(* The references are assigned as they have to be, while the events stay    *)
(* and no element gets or loses its reference.                              *)
LEMMA SameAssignment ==
  ASSUME \A q \in 1..Len(todo) : Assignment(q), todo' = todo, ValuesGrow(values'),
         todo \in Seq(EventsFor(Len(values))), Len(values) \in Nat,
         \A q \in 1..Len(todo) : Referred(q)' <=> Referred(q)
  PROVE  \A q \in 1..Len(todo') : Assignment(q)'
<1> TAKE q \in 1..Len(todo')
<1>1. q \in 1..Len(todo) /\ Assignment(q) /\ (Referred(q)' <=> Referred(q))
  OBVIOUS
<1>2. todo[q].kind = "value" => todo[q].index \in 1..Len(values)
  <2>1. todo[q] \in EventsFor(Len(values))
    BY <1>1, SeqElements
  <2> QED
    BY <2>1, EventFacts
<1> QED
  BY <1>1, <1>2 DEF Assignment, ValuesGrow

(* The magic number and the reference of the root.                          *)
LEMMA WriteHeaderKeeps ==
  ASSUME WInv, WriteHeader
  PROVE  WInv'
<1> DEFINE root == events[1]
           n == Len(values)
<1>1. /\ pc = "header" /\ TypeOK /\ RefsAssigned /\ BufferTypes /\ verdict = "ok"
      /\ call \in Calls /\ collection_stack = <<>> /\ events # <<>>
      /\ BlockEnd(events, 1) = Len(events)
      /\ Laid(events, OpenSet) /\ KeysWait
      /\ \A i \in 1..Len(events) : events[i].kind = "collection" => events[i].object_ref = NoRef
  BY TypesOfBuffer DEF WInv, Phases, Buffering, WriteHeader
<1>2. CASE IOError /\ UNCHANGED values
  BY <1>1, <1>2, SameValuesGrow, IOErrorKeeps
<1>3. CASE /\ pos' = pos + 1 /\ events' = <<>> /\ file' = <<>> /\ cursor' = 1
           /\ pending' = <<>> /\ next_object_ref' = 1
           /\ values' = IF root.kind = "value" THEN Assigned(root.index, 0) ELSE values
           /\ todo' = IF root.kind = "collection" THEN [events EXCEPT ![1].object_ref = 0]
                                                  ELSE events
           /\ pc' = "objects"
           /\ UNCHANGED <<dictionary_key_events, collection_stack, num_objects, verdict,
                          history>>
  <2>1. /\ events \in Seq(EventsFor(n)) /\ n \in Nat /\ Len(events) \in Nat /\ 1 \in 1..Len(events)
        /\ root \in EventsFor(n)
    <3>1. events \in Seq(EventsFor(n)) /\ n \in Nat /\ Len(events) \in Nat
      BY <1>1 DEF BufferTypes
    <3>2. Len(events) # 0
      BY <1>1, <3>1, EmptyIffZero
    <3>3. 1 \in 1..Len(events)
      BY <3>1, <3>2
    <3> QED
      BY <3>1, <3>3, SeqElements
  <2>2. dictionary_key_events = <<>>
    <3>1. Len(collection_stack) = 0
      BY <1>1
    <3>2. Len(dictionary_key_events) = 0 /\ dictionary_key_events \in Seq(1..n)
      BY <1>1, <3>1 DEF KeysWait, Waits, BufferTypes
    <3> QED
      BY <3>2, EmptyIffZero
  <2>3. Laid(events, {})
    <3>1. OpenSet = {}
      BY <1>1 DEF OpenSet
    <3> QED
      BY <1>1, <3>1
  <2>4. /\ ValuesGrow(values')
        /\ root.kind = "value" => values'[root.index].state # "unassigned"
    <3>1. root.kind = "value" => root.index \in 1..n
      BY <2>1, EventFacts
    <3> QED
      BY <1>1, <1>3, <3>1, AssignedGrows, SameValuesGrow
  <2>5. /\ todo' \in Seq(EventsFor(n)) /\ SameShape(events, todo') /\ Len(todo') = Len(events)
        /\ root.kind = "collection" => todo'[1].object_ref = 0
        /\ \A i \in 1..Len(events) : i # 1 => todo'[i] = events[i]
    <3>1. CASE root.kind # "collection"
      BY <1>3, <2>1, <3>1 DEF SameShape
    <3>2. CASE root.kind = "collection"
      <4> DEFINE e == [root EXCEPT !.object_ref = 0]
      <4>1. /\ e \in EventsFor(n)
        BY <2>1, <3>2, EventChanged
      <4>2. e.kind = root.kind /\ e.ty = root.ty /\ e.len = root.len /\ e.skip = root.skip
            /\ e.object_ref = 0
        <5>1. root = [kind |-> "collection", ty |-> root.ty, len |-> root.len,
                      skip |-> root.skip, object_ref |-> root.object_ref]
          BY <2>1, <3>2, EventFacts
        <5> QED
          BY <3>2, <5>1
      <4>3. todo' = [events EXCEPT ![1] = e]
        BY <1>3, <2>1, <3>2
      <4> HIDE DEF e
      <4>4. /\ [events EXCEPT ![1] = e] \in Seq(EventsFor(n))
            /\ Len([events EXCEPT ![1] = e]) = Len(events)
            /\ [events EXCEPT ![1] = e][1] = e
            /\ \A i \in 1..Len(events) : i # 1 => [events EXCEPT ![1] = e][i] = events[i]
        BY <2>1, <4>1
      <4>5. /\ todo' \in Seq(EventsFor(n)) /\ Len(todo') = Len(events) /\ todo'[1] = e
            /\ \A i \in 1..Len(events) : i # 1 => todo'[i] = events[i]
        BY <4>3, <4>4, Zenon
      <4>6. events[1] = root
        OBVIOUS
      <4> HIDE DEF root, n
      <4>7. SameShape(events, todo')
        BY <3>2, <4>2, <4>5, <4>6 DEF SameShape
      <4> QED
        BY <4>2, <4>5, <4>7
    <3> QED
      BY <3>1, <3>2
  <2>6. Numbering'
    <3>1. Laid(todo', {})
      BY <2>1, <2>3, <2>5, ShapeKeepsLayout
    <3>2. BlockEnd(todo', 1) = Len(todo') /\ todo' # <<>>
      <4>1. BlockEnd(todo', 1) = Len(todo')
        BY <1>1, <2>1, <2>5, ShapeFacts
      <4> QED
        BY <2>1, <2>5, <4>1
    <3>3. NotAmongKeys(todo', cursor')
      BY <1>3 DEF NotAmongKeys
    <3>4. ASSUME NEW q \in 1..Len(todo')
          PROVE  Assignment(q)'
      <4>1. Referred(q)' <=> q = 1
        <5>1. cursor' = 1 /\ pc' = "objects"
          BY <1>3
        <5>2. \A i \in 1..Len(todo') : ~Reffed(i, q)'
          BY <5>1 DEF Reffed
        <5> QED
          BY <5>2 DEF Referred
      <4>2. q \in 1..Len(events) /\ todo'[q].kind = events[q].kind
        BY <2>5 DEF SameShape
      <4>3. CASE q = 1
        <5>1. todo'[1].kind = "value" => todo'[1] = root
          BY <4>2, <4>3, <2>5 DEF SameShape
        <5> QED
          BY <2>4, <2>5, <4>1, <4>2, <4>3, <5>1 DEF Assignment, NoRef
      <4>4. CASE q # 1
        BY <1>1, <2>5, <4>1, <4>2, <4>4 DEF Assignment
      <4> QED
        BY <4>3, <4>4
    <3> QED
      BY <1>3, <3>1, <3>2, <3>3, <3>4 DEF Numbering
  <2>7. TypeOK'
    <3>1. /\ pos' \in Nat /\ file' \in Seq(Objects) /\ pending' \in Seq(1..Len(todo'))
          /\ cursor' \in Nat \ {0} /\ next_object_ref' \in Nat
          /\ events' \in Seq(EventsFor(n)) /\ collection_stack' \in Seq(1..Len(events'))
      BY <1>1, <1>3 DEF TypeOK
    <3>2. /\ pc' = "objects" /\ verdict' = "ok" /\ num_objects' = num_objects
          /\ dictionary_key_events' = dictionary_key_events
      BY <1>1, <1>3
    <3> HIDE DEF n
    <3> QED
      BY <1>1, <2>4, <2>5, <3>1, <3>2, WrittenTypes DEF n
  <2>8. RefsAssigned'
    BY <2>4 DEF ValuesGrow, RefsAssigned
  <2>9. Phases' /\ Writing'
    BY <1>1, <1>3, <2>2 DEF Phases, Writing, history
  <2> QED
    BY <1>3, <2>6, <2>7, <2>8, <2>9 DEF WInv
<1> QED
  BY <1>2, <1>3 DEF WriteHeader

(* A value that has its reference is written unless it has been.            *)
LEMMA ValueIsWritten ==
  ASSUME WInv, Writing, NEW i \in 1..Len(values), values[i].state # "unassigned",
         WritePlistValue(i)
  PROVE  /\ ValuesGrow(values')
         /\ IOError \/ (Continue(pc) /\ pos' \in Nat /\ file' \in Seq(Objects))
<1> DEFINE v == values[i]
           o == [kind |-> "value", value |-> v.value, refs |-> <<>>]
<1>1. TypeOK /\ RefsAssigned /\ pos \in Nat /\ file \in Seq(Objects)
  BY WritingFacts
<1>2. v \in ValueRecords
  <2>1. values \in Seq(ValueRecords)
    BY <1>1 DEF TypeOK, ValueRecords
  <2> QED
    BY <2>1, SeqElements
<1>3. v.state \in {"written", "unwritten"} /\ v.value \in Values
  BY <1>2 DEF ValueRecords
<1>4. o \in Objects
  <2>1. <<>> \in Seq(Nat)
    OBVIOUS
  <2> QED
    BY <1>3, <2>1 DEF Objects
<1> HIDE DEF o
<1>5. Append(file, o) \in Seq(Objects) /\ pos + 1 \in Nat
  BY <1>1, <1>4
<1>6. CASE v.state = "written"
  <2>1. Continue(pc) /\ UNCHANGED <<values, pos, file, offset_table>>
    BY <1>6 DEF WritePlistValue
  <2> QED
    BY <1>1, <2>1, SameValuesGrow
<1>7. CASE v.state = "unwritten"
  <2>1. /\ values' = Written(i)
        /\ IOError \/ (file' = Append(file, o) /\ pos' = pos + 1 /\ Continue(pc))
    BY <1>7 DEF WritePlistValue, o
  <2>2. ValuesGrow(Written(i))
    BY <1>1, WrittenGrows
  <2> QED
    BY <1>5, <2>1, <2>2
<1> QED
  BY <1>3, <1>6, <1>7

(* What is an element of a collection at hand or before has its reference   *)
(* once the objects are gone through, and p is one.                         *)
LEMMA AtHandReferred ==
  ASSUME WInv, pc = "objects", cursor <= Len(todo), todo[cursor].kind # "keys"
  PROVE  cursor \in 1..Len(todo) /\ Referred(cursor)
<1>1. /\ todo \in Seq(EventsFor(Len(values))) /\ Len(todo) \in Nat /\ Len(values) \in Nat
      /\ cursor \in Nat \ {0} /\ Laid(todo, {}) /\ BlockEnd(todo, 1) = Len(todo)
      /\ NotAmongKeys(todo, cursor)
  BY WritingFacts DEF Writing
<1>2. cursor \in 1..Len(todo)
  BY <1>1
<1>3. CASE cursor = 1
  BY <1>2, <1>3 DEF Referred
<1>4. CASE cursor # 1
  <2>1. cursor \in 2..Len(todo)
    BY <1>2, <1>4
  <2>2. PICK i \in 1..(cursor - 1) : Child(todo, i, cursor)
    BY <1>1, <2>1, ParentExists
  <2>3. i < cursor /\ i \in 1..Len(todo)
    BY <1>2, <2>2
  <2> QED
    BY <1>2, <2>2, <2>3 DEF Referred, Reffed
<1> QED
  BY <1>3, <1>4

(* No element gets its reference when the cursor passes what is not a       *)
(* collection, or a collection whose references are written.                *)
LEMMA SameReferred ==
  ASSUME todo' = todo, pc' = "objects", pc \in {"objects", "keys"},
         NEW q, cursor \in Nat, cursor' \in Nat, cursor < cursor', Len(todo) \in Nat,
         pc = "keys" => cursor' = cursor + 1,
         pc = "objects" =>
           \A i \in 1..Len(todo) : cursor <= i /\ i < cursor' => todo[i].kind # "collection"
  PROVE  Referred(q)' <=> Referred(q)
<1>1. ASSUME NEW i \in 1..Len(todo), Child(todo, i, q)
      PROVE  Reffed(i, q)' <=> Reffed(i, q)
  <2>1. todo[i].kind = "collection"
    BY <1>1 DEF Child, Collecting
  <2>2. Reffed(i, q)' <=> i < cursor'
    BY DEF Reffed
  <2>3. Reffed(i, q) <=> i < cursor \/ (pc = "keys" /\ i = cursor)
    BY DEF Reffed
  <2> QED
    BY <2>1, <2>2, <2>3
<1>2. (\E i \in 1..Len(todo) : Child(todo, i, q) /\ Reffed(i, q))'
        <=> \E i \in 1..Len(todo) : Child(todo, i, q) /\ Reffed(i, q)'
  BY DEF Child, Collecting, ElementsEnd, BlockEnd
<1> QED
  BY <1>1, <1>2 DEF Referred

(* The cursor passes the events from its place to the one before r.         *)
LEMMA CursorPasses ==
  ASSUME WInv, pc \in {"objects", "keys"}, ValuesGrow(values'), Continue("objects"),
         pos' \in Nat, file' \in Seq(Objects),
         UNCHANGED <<todo, next_object_ref>>, pending' = <<>>,
         NEW r \in Nat, cursor' = r, cursor < r,
         pc = "keys" => r = cursor + 1,
         pc = "objects" =>
           \A i \in 1..Len(todo) : cursor <= i /\ i < r => todo[i].kind # "collection",
         NotAmongKeys(todo, r)
  PROVE  WInv'
<1>1. /\ todo \in Seq(EventsFor(Len(values))) /\ Len(todo) \in Nat /\ Len(values) \in Nat
      /\ cursor \in Nat \ {0} /\ Laid(todo, {}) /\ BlockEnd(todo, 1) = Len(todo) /\ todo # <<>>
      /\ next_object_ref \in Nat /\ \A q \in 1..Len(todo) : Assignment(q)
      /\ Writing
  BY WritingFacts DEF Writing
<1>2. pc' = "objects"
  BY DEF Continue
<1>3. \A q \in 1..Len(todo) : Referred(q)' <=> Referred(q)
  BY <1>1, <1>2, SameReferred
<1>4. \A q \in 1..Len(todo') : Assignment(q)'
  BY <1>1, <1>3, SameAssignment
<1>5. Numbering'
  <2>1. todo' = todo
    OBVIOUS
  <2>2. Laid(todo', {}) /\ BlockEnd(todo', 1) = Len(todo') /\ todo' # <<>>
        /\ NotAmongKeys(todo', cursor')
    BY <1>1, <2>1
  <2> QED
    BY <1>2, <1>4, <2>2 DEF Numbering
<1>6. /\ todo' \in Seq(EventsFor(Len(values))) /\ cursor' \in Nat \ {0}
      /\ pending' \in Seq(1..Len(todo')) /\ next_object_ref' \in Nat
  BY <1>1
<1> QED
  BY <1>1, <1>5, <1>6, ContinueKeeps

(* The keys that follow a DictionaryKeys event are passed with it.          *)
LEMMA KeysArePassed ==
  ASSUME NEW n \in Nat, NEW evs \in Seq(EventsFor(n)), Laid(evs, {}), NEW p \in 1..Len(evs),
         NotAmongKeys(evs, p), evs[p].kind = "keys", NEW r, r = p + 1 + evs[p].len
  PROVE  /\ r \in Nat /\ p < r /\ NotAmongKeys(evs, r)
         /\ \A i \in 1..Len(evs) : p <= i /\ i < r => evs[i].kind # "collection"
<1>1. p \in Nat /\ Len(evs) \in Nat /\ evs[p].len \in Nat
  BY BlockFacts
<1>2. r \in Nat /\ p < r
  BY <1>1
<1>3. \A k \in (p + 1)..(p + evs[p].len) : evs[k].kind = "value"
  BY DEF Laid, LaidAt, LaidKeys
<1>4. \A i \in 1..Len(evs) : p <= i /\ i < r => i = p \/ evs[i].kind = "value"
  BY <1>1, <1>3
<1>5. ASSUME NEW k \in 1..(r - 1), k <= Len(evs), evs[k].kind = "keys"
      PROVE  k + evs[k].len < r
  <2>0. k \in 1..Len(evs)
    BY <1>1, <1>2, <1>5
  <2>1. CASE k < p
    <3>1. k \in 1..(p - 1)
      BY <1>1, <2>0, <2>1
    <3>2. k + evs[k].len < p
      BY <1>5, <3>1 DEF NotAmongKeys
    <3>3. evs[k].len \in Nat
      BY <1>5, <2>0, BlockFacts
    <3> QED
      BY <1>1, <1>2, <3>2, <3>3
  <2>2. CASE p <= k
    <3>1. k = p
      BY <1>2, <1>4, <1>5, <2>0, <2>2
    <3> QED
      BY <1>1, <3>1
  <2> QED
    BY <1>1, <2>0, <2>1, <2>2
<1>6. NotAmongKeys(evs, r)
  BY <1>5 DEF NotAmongKeys
<1> QED
  BY <1>2, <1>4, <1>6

(* The event at p, which is not one of keys, is passed.                     *)
LEMMA OneIsPassed ==
  ASSUME NEW n \in Nat, NEW evs \in Seq(EventsFor(n)), NEW p \in 1..Len(evs),
         NotAmongKeys(evs, p), evs[p].kind # "keys"
  PROVE  NotAmongKeys(evs, p + 1)
<1>1. p \in Nat /\ Len(evs) \in Nat
  OBVIOUS
<1>2. ASSUME NEW k \in 1..((p + 1) - 1), k <= Len(evs), evs[k].kind = "keys"
      PROVE  k + evs[k].len < p + 1
  <2>1. k # p /\ k \in 1..(p - 1) /\ k \in 1..Len(evs)
    BY <1>1, <1>2
  <2>2. k + evs[k].len < p
    BY <1>2, <2>1 DEF NotAmongKeys
  <2>3. evs[k].len \in Nat
    BY <1>2, <2>1, BlockFacts
  <2> QED
    BY <1>1, <2>1, <2>2, <2>3
<1> QED
  BY <1>2 DEF NotAmongKeys

(* The collection at hand has its reference, and its elements come next.    *)
LEMMA CollectionOpens ==
  ASSUME WInv, pc = "objects", NEW c \in 1..Len(todo), cursor = c,
         todo[c].kind = "collection",
         ValuesGrow(values'), Continue("refs"), pos' \in Nat, file' \in Seq(Objects),
         UNCHANGED <<todo, cursor, next_object_ref>>, pending' = Positions(cursor, todo[cursor])
  PROVE  WInv'
<1> DEFINE k == KeysStart(todo[c])
           all == Positions(c, todo[c])
           len == IF todo[c].ty = "dict" THEN todo[c].len ELSE 0
<1>1. /\ todo \in Seq(EventsFor(Len(values))) /\ Len(todo) \in Nat /\ Len(values) \in Nat
      /\ c \in Nat \ {0} /\ Laid(todo, {}) /\ BlockEnd(todo, 1) = Len(todo) /\ todo # <<>>
      /\ next_object_ref \in Nat /\ NotAmongKeys(todo, c)
      /\ \A q \in 1..Len(todo) : Assignment(q)
      /\ Writing
  BY WritingFacts DEF Writing
<1>2. /\ k \in Nat /\ len \in Nat /\ ElementsEnd(todo, c) = c + k
      /\ c + k <= Len(todo)
      /\ todo[c].ty = "dict" => c + k + 1 + len <= Len(todo)
      /\ len # 0 => todo[c].ty = "dict"
      /\ todo[c].skip \in Nat /\ c + todo[c].skip <= Len(todo)
  <2>1. /\ ElementsEnd(todo, c) \in Int /\ c <= ElementsEnd(todo, c)
        /\ BlockEnd(todo, c) <= Len(todo) /\ ElementsEnd(todo, c) <= BlockEnd(todo, c)
        /\ todo[c].ty = "dict" => ElementsEnd(todo, c) + 1 + todo[c].len = BlockEnd(todo, c)
    BY <1>1, WholeFacts
  <2>2. /\ todo[c].skip \in Nat /\ todo[c].len \in Nat /\ todo[c].ty \in {"array", "dict"}
        /\ BlockEnd(todo, c) = c + todo[c].skip
    BY <1>1, BlockFacts
  <2>3. ElementsEnd(todo, c) = c + k /\ k \in Int
    BY <2>2 DEF ElementsEnd, KeysStart
  <2> HIDE DEF k
  <2> QED
    BY <1>1, <2>1, <2>2, <2>3
<1>3. /\ all \in Seq(1..Len(todo)) /\ Len(all) = len + k
  <2>1. /\ KeyPositions(c, todo[c]) \in Seq(1..Len(todo))
        /\ Len(KeyPositions(c, todo[c])) = len
    <3>1. CASE todo[c].ty = "dict"
      <4>1. KeyPositions(c, todo[c]) = [j \in 1..len |-> c + k + 1 + j]
        BY <3>1 DEF KeyPositions
      <4> HIDE DEF len, k
      <4>2. \A j \in 1..len : c + k + 1 + j \in 1..Len(todo)
        BY <1>1, <1>2, <3>1
      <4> QED
        BY <1>2, <4>1, <4>2
    <3>2. CASE todo[c].ty # "dict"
      BY <3>2 DEF KeyPositions
    <3> QED
      BY <3>1, <3>2
  <2> HIDE DEF k, len
  <2> DEFINE rest == [j \in 1..k |-> c + j]
  <2>2. rest \in Seq(1..Len(todo)) /\ Len(rest) = k
    <3>1. \A j \in 1..k : c + j \in 1..Len(todo)
      BY <1>1, <1>2
    <3> QED
      BY <1>2, <3>1
  <2>3. all = KeyPositions(c, todo[c]) \o rest
    BY DEF Positions, k
  <2> HIDE DEF rest, all
  <2>4. /\ KeyPositions(c, todo[c]) \o rest \in Seq(1..Len(todo))
        /\ Len(KeyPositions(c, todo[c]) \o rest) = Len(KeyPositions(c, todo[c])) + Len(rest)
    BY <2>1, <2>2, ConcatProperties
  <2> QED
    BY <2>1, <2>2, <2>3, <2>4
<1>4. pc' = "refs" /\ pending' = all /\ todo' = todo /\ cursor' = c
  BY DEF Continue
<1> HIDE DEF all
<1>5. Remaining'
  <2>1. Len(all) <= Len(all) /\ \A j \in 1..Len(all) : all[j] = all[Len(all) - Len(all) + j]
    <3>1. Len(all) \in Nat
      BY <1>3
    <3>2. Len(all) <= Len(all) /\ \A j \in 1..Len(all) : Len(all) - Len(all) + j = j
      BY <3>1
    <3> QED
      BY <3>2
  <2>2. Positions(cursor', todo'[cursor']) = all
    BY <1>4 DEF all
  <2>3. Remaining' <=> Len(pending') <= Len(Positions(cursor', todo'[cursor']))
          /\ \A j \in 1..Len(pending') :
               pending'[j] = Positions(cursor', todo'[cursor'])
                               [Len(Positions(cursor', todo'[cursor'])) - Len(pending') + j]
    BY DEF Remaining
  <2> QED
    BY <1>4, <2>1, <2>2, <2>3
<1> HIDE DEF k, len
<1>6. NextElement' = c + 1
  <2>1. NextElement' = IF len + k > k THEN c + 1 ELSE c + k + 1 - (len + k)
    BY <1>2, <1>3, <1>4 DEF NextElement, k
  <2> QED
    BY <1>1, <1>2, <2>1
<1>7. AtHand'
  <2>1. Collecting(todo', cursor')
    BY <1>4 DEF Collecting
  <2>2. NextElement' = (ElementsEnd(todo, cursor) + 1)' \/ Child(todo', cursor', NextElement')
    <3>1. CASE k = 0
      BY <1>1, <1>2, <1>4, <1>6, <3>1
    <3>2. CASE k # 0
      <4>1. c + 1 <= ElementsEnd(todo, c)
        BY <1>1, <1>2, <3>2
      <4>2. Collecting(todo, c)
        BY DEF Collecting
      <4>3. Child(todo, c, c + 1)
        BY <1>1, <4>1, <4>2, FirstChild
      <4> QED
        BY <1>4, <1>6, <4>3
    <3> QED
      BY <3>1, <3>2
  <2>3. ASSUME NEW q \in KeysAt', q + Len(pending') <= cursor' + todo'[cursor'].skip
                                                       + KeysStart(todo'[cursor'])
        PROVE  Keyed(q)'
    <3>1. q \in (c + k + 2)..(c + todo[c].skip)
      BY <1>2, <1>4 DEF KeysAt
    <3>2. q + (len + k) <= c + todo[c].skip + k
      BY <1>3, <1>4, <2>3 DEF k
    <3>3. len = todo[c].skip - k - 1 \/ (len = 0 /\ k = todo[c].skip)
      <4>1. todo[c].ty = "dict" => todo[c].len \in Nat
        BY <1>1, BlockFacts
      <4>2. CASE todo[c].ty = "dict"
        <5>1. k = todo[c].skip - todo[c].len - 1 /\ len = todo[c].len
          BY <4>2 DEF k, len, KeysStart
        <5>2. k \in Nat /\ todo[c].skip \in Nat /\ todo[c].len \in Nat
          BY <1>2, <4>1, <4>2
        <5>3. todo[c].len = todo[c].skip - k - 1
          BY <5>1, <5>2
        <5> QED
          BY <5>1, <5>3
      <4>3. CASE todo[c].ty # "dict"
        BY <4>3 DEF k, len, KeysStart
      <4> QED
        BY <4>2, <4>3
    <3> QED
      BY <1>1, <1>2, <3>1, <3>2, <3>3, SMTT(40)
  <2> QED
    BY <1>4, <1>5, <2>1, <2>2, <2>3 DEF AtHand
<1>8. ASSUME NEW q \in 1..Len(todo)
      PROVE  Referred(q)' <=> Referred(q)
  <2>1. ASSUME NEW i \in 1..Len(todo), Child(todo, i, q)
        PROVE  Reffed(i, q)' <=> Reffed(i, q)
    <3>1. i = c => c + 1 <= q
      BY <1>1, <2>1, ChildKind
    <3>2. Reffed(i, q)' <=> i < c \/ (i = c /\ q < c + 1)
      BY <1>4, <1>6 DEF Reffed
    <3>3. Reffed(i, q) <=> i < c
      BY DEF Reffed
    <3> QED
      BY <1>1, <3>1, <3>2, <3>3
  <2>2. (\E i \in 1..Len(todo) : Child(todo, i, q) /\ Reffed(i, q))'
          <=> \E i \in 1..Len(todo) : Child(todo, i, q) /\ Reffed(i, q)'
    BY <1>4 DEF Child, Collecting, ElementsEnd, BlockEnd
  <2> QED
    BY <2>1, <2>2 DEF Referred
<1>9. \A q \in 1..Len(todo') : Assignment(q)'
  BY <1>1, <1>8, <1>4, SameAssignment
<1>10. Numbering'
  <2>1. /\ Laid(todo', {}) /\ BlockEnd(todo', 1) = Len(todo') /\ todo' # <<>>
        /\ NotAmongKeys(todo', cursor')
    BY <1>1, <1>4
  <2> QED
    BY <1>4, <1>7, <1>9, <2>1 DEF Numbering
<1>11. /\ todo' \in Seq(EventsFor(Len(values))) /\ cursor' \in Nat \ {0}
       /\ pending' \in Seq(1..Len(todo')) /\ next_object_ref' \in Nat
  BY <1>1, <1>3, <1>4
<1> QED
  BY <1>1, <1>10, <1>11, ContinueKeeps

(* The event at hand is passed, written as a value or opened.               *)
LEMMA WriteObjectKeeps ==
  ASSUME WInv, WriteObject
  PROVE  WInv'
<1> DEFINE c == cursor
           e == todo[c]
<1>1. /\ pc = "objects" /\ cursor <= Len(todo) /\ Writing
  BY DEF WriteObject, Writing
<1>2. /\ TypeOK /\ RefsAssigned
      /\ todo \in Seq(EventsFor(Len(values))) /\ Len(todo) \in Nat /\ Len(values) \in Nat
      /\ c \in Nat \ {0} /\ Laid(todo, {}) /\ NotAmongKeys(todo, c)
      /\ next_object_ref \in Nat /\ pos \in Nat /\ file \in Seq(Objects)
      /\ pending \in Seq(1..Len(todo)) /\ pending = <<>>
      /\ \A q \in 1..Len(todo) : Assignment(q)
  BY <1>1, WritingFacts DEF Numbering
<1>3. c \in 1..Len(todo) /\ e \in EventsFor(Len(values))
  <2>1. c \in 1..Len(todo)
    BY <1>1, <1>2
  <2> QED
    BY <1>2, <2>1, SeqElements
<1>4. CASE /\ e.kind = "keys" /\ cursor' = PastKeys(e) /\ Continue("objects")
           /\ UNCHANGED <<values, pos, todo, pending, next_object_ref, offset_table, file>>
  <2> DEFINE r == c + 1 + e.len
  <2>1. r \in Nat /\ c < r /\ NotAmongKeys(todo, r)
        /\ \A i \in 1..Len(todo) : c <= i /\ i < r => todo[i].kind # "collection"
    <3> HIDE DEF c
    <3> QED
      BY <1>2, <1>3, <1>4, KeysArePassed
  <2>2. cursor' = r
    BY <1>4 DEF PastKeys
  <2> HIDE DEF r
  <2> QED
    BY <1>1, <1>2, <1>4, <2>1, <2>2, SameValuesGrow, CursorPasses
<1>5. CASE /\ e.kind = "value" /\ WritePlistValue(e.index)
           /\ cursor' = IF pc' = "objects" THEN cursor + 1 ELSE cursor
           /\ UNCHANGED <<todo, pending, next_object_ref>>
  <2>1. e.index \in 1..Len(values) /\ values[e.index].state # "unassigned"
    <3>1. Referred(c) /\ Assignment(c)
      BY <1>1, <1>2, <1>3, <1>5, AtHandReferred
    <3> QED
      BY <1>2, <1>3, <1>5, <3>1, EventFacts DEF Assignment
  <2>2. /\ ValuesGrow(values')
        /\ IOError \/ (Continue(pc) /\ pos' \in Nat /\ file' \in Seq(Objects))
    <3> DEFINE j == e.index
    <3>1. j \in 1..Len(values) /\ values[j].state # "unassigned" /\ WritePlistValue(j)
      BY <1>5, <2>1
    <3> HIDE DEF j
    <3> QED
      BY <1>1, <3>1, ValueIsWritten
  <2>3. CASE IOError
    BY <2>2, <2>3, IOErrorKeeps
  <2>4. CASE Continue(pc) /\ pos' \in Nat /\ file' \in Seq(Objects)
    <3>1. Continue("objects") /\ cursor' = c + 1
      BY <1>1, <1>5, <2>4 DEF Continue
    <3>2. NotAmongKeys(todo, c + 1)
      BY <1>2, <1>3, <1>5, OneIsPassed
    <3>3. \A i \in 1..Len(todo) : c <= i /\ i < c + 1 => todo[i].kind # "collection"
      <4>1. \A i \in 1..Len(todo) : c <= i /\ i < c + 1 => i = c
        BY <1>2
      <4> QED
        BY <1>5, <4>1
    <3>4. c + 1 \in Nat /\ c < c + 1
      BY <1>2
    <3> QED
      BY <1>1, <1>2, <1>5, <2>2, <2>4, <3>1, <3>2, <3>3, <3>4, CursorPasses
  <2> QED
    BY <2>2, <2>3, <2>4
<1>6. CASE /\ e.kind = "collection" /\ UNCHANGED values
           /\ IF e.object_ref = NoRef \/ KeysStart(e) < 0
              THEN Panic
              ELSE \/ IOError
                   \/ /\ offset_table' = [offset_table EXCEPT ![e.object_ref] = pos]
                      /\ file' = Append(file, [kind |-> e.ty, value |-> NoRef, refs |-> <<>>])
                      /\ pos' = pos + 1
                      /\ pending' = Positions(cursor, e)
                      /\ Continue("refs")
                      /\ UNCHANGED <<todo, cursor, next_object_ref>>
  <2>1. e.object_ref # NoRef
    <3>1. Referred(c) /\ Assignment(c)
      BY <1>1, <1>2, <1>3, <1>6, AtHandReferred
    <3> QED
      BY <1>6, <3>1 DEF Assignment
  <2>2. ~(KeysStart(e) < 0)
    <3>1. c <= ElementsEnd(todo, c) /\ ElementsEnd(todo, c) \in Int
      BY <1>2, <1>3, <1>6, WholeFacts
    <3>2. ElementsEnd(todo, c) = c + KeysStart(e)
      BY DEF ElementsEnd
    <3>3. KeysStart(e) \in Int
      <4>1. e.skip \in Nat /\ e.len \in Nat
        BY <1>2, <1>3, <1>6, EventFacts
      <4> QED
        BY <4>1 DEF KeysStart
    <3> QED
      BY <1>2, <3>1, <3>2, <3>3
  <2>3. CASE IOError
    BY <1>2, <1>6, <2>3, SameValuesGrow, IOErrorKeeps
  <2>4. CASE /\ file' = Append(file, [kind |-> e.ty, value |-> NoRef, refs |-> <<>>])
             /\ pos' = pos + 1 /\ pending' = Positions(cursor, e) /\ Continue("refs")
             /\ UNCHANGED <<todo, cursor, next_object_ref>>
    <3>1. ValuesGrow(values')
      BY <1>2, <1>6, SameValuesGrow
    <3>2. pos' \in Nat /\ file' \in Seq(Objects)
      <4> DEFINE o == [kind |-> e.ty, value |-> NoRef, refs |-> <<>>]
      <4>1. e.ty \in {"array", "dict"}
        BY <1>2, <1>3, <1>6, EventFacts
      <4>2. <<>> \in Seq(Nat)
        OBVIOUS
      <4>3. o \in Objects
        BY <4>1, <4>2 DEF Objects
      <4>4. file' = Append(file, o)
        BY <2>4
      <4> HIDE DEF o
      <4> QED
        BY <1>2, <2>4, <4>3, <4>4
    <3> QED
      BY <1>1, <1>3, <1>6, <2>4, <3>1, <3>2, CollectionOpens
  <2> QED
    BY <1>6, <2>1, <2>2, <2>3, <2>4
<1> QED
  BY <1>4, <1>5, <1>6 DEF WriteObject

(* The keys of a collection are next after its references.                  *)
LEMMA KeysWrittenKeeps ==
  ASSUME WInv, KeysWritten
  PROVE  WInv'
<1>1. /\ pc = "keys" /\ pending = <<>> /\ cursor' = cursor + 1 /\ Continue("objects")
      /\ UNCHANGED <<values, pos, todo, pending, next_object_ref, offset_table, file>>
      /\ Writing
  BY DEF KeysWritten, Writing
<1>2. /\ TypeOK /\ RefsAssigned
      /\ todo \in Seq(EventsFor(Len(values))) /\ Len(todo) \in Nat /\ Len(values) \in Nat
      /\ cursor \in Nat \ {0} /\ NotAmongKeys(todo, cursor)
      /\ next_object_ref \in Nat /\ pos \in Nat /\ file \in Seq(Objects)
      /\ Collecting(todo, cursor)
  BY <1>1, WritingFacts DEF Numbering, AtHand
<1>3. cursor \in 1..Len(todo) /\ todo[cursor].kind = "collection"
  BY <1>2 DEF Collecting
<1>4. NotAmongKeys(todo, cursor + 1)
  BY <1>2, <1>3, OneIsPassed
<1>5. cursor + 1 \in Nat /\ cursor < cursor + 1
  BY <1>2
<1> QED
  BY <1>1, <1>2, <1>4, <1>5, SameValuesGrow, CursorPasses

(* The last of the plist; the writer is ready for another.                  *)
LEMMA WriteTrailerKeeps ==
  ASSUME WInv, WriteTrailer
  PROVE  WInv'
<1>1. pc = "objects" /\ Writing
  BY DEF WriteTrailer, Writing
<1>2. /\ TypeOK /\ RefsAssigned /\ verdict = "ok" /\ call \in Calls /\ pending = <<>>
      /\ cursor \in Nat \ {0} /\ next_object_ref \in Nat /\ file \in Seq(Objects)
      /\ events = <<>> /\ dictionary_key_events = <<>> /\ collection_stack = <<>>
  BY <1>1, WritingFacts DEF Numbering
<1>3. CASE IOError /\ UNCHANGED values
  BY <1>2, <1>3, SameValuesGrow, IOErrorKeeps
<1>4. CASE /\ Reset /\ todo' = <<>> /\ pc' = "idle"
           /\ UNCHANGED <<buffer, cursor, pending, next_object_ref, offset_table, file,
                          verdict, call, calls>>
  <2>1. /\ pos' = 0 /\ num_objects' = 0 /\ values' = <<>> /\ todo' = <<>> /\ pc' = "idle"
        /\ events' = <<>> /\ dictionary_key_events' = <<>> /\ collection_stack' = <<>>
        /\ cursor' = cursor /\ pending' = <<>> /\ next_object_ref' = next_object_ref
        /\ file' = file /\ verdict' = "ok" /\ call' = call
    BY <1>2, <1>4 DEF Reset, buffer
  <2>2. TypeOK'
    <3>1. Objects' = Objects
      BY DEF Objects
    <3> QED
      BY <1>2, <2>1, <3>1 DEF TypeOK
  <2>3. Phases' /\ ~Writing' /\ RefsAssigned'
    BY <1>2, <2>1 DEF Phases, Writing, RefsAssigned
  <2>4. Buffering'
    <3>1. Laid(events', OpenSet')
      BY <2>1 DEF Laid
    <3>2. OpenCollections'
      BY <2>1 DEF OpenCollections
    <3>3. KeysWait'
      <4> DEFINE waiting == [d \in 0..0 |-> 0]
      <4>1. Len(collection_stack') = 0 /\ Len(dictionary_key_events') = 0
        BY <2>1
      <4>2. waiting \in [0..0 -> Nat] /\ waiting[0] = 0
        OBVIOUS
      <4> HIDE DEF waiting
      <4> QED
        BY <4>1, <4>2 DEF KeysWait, Waits
    <3> QED
      BY <2>1, <3>1, <3>2, <3>3 DEF Buffering
  <2> QED
    BY <2>1, <2>2, <2>3, <2>4 DEF WInv
<1> QED
  BY <1>3, <1>4 DEF WriteTrailer

(* The number of keys of a closed collection.                               *)
KeyCount(c) == IF c.ty = "dict" THEN c.len ELSE 0

(* Where the positions of the elements of a collection are, and of its keys.*)
LEMMA PositionFacts ==
  ASSUME NEW n \in Nat, NEW evs \in Seq(EventsFor(n)), Laid(evs, {}), NEW c \in 1..Len(evs),
         evs[c].kind = "collection",
         NEW k, k = KeysStart(evs[c]), NEW len, len = KeyCount(evs[c]), NEW skip, skip = evs[c].skip
  PROVE  /\ c \in Nat /\ k \in Nat /\ len \in Nat /\ skip \in Nat
         /\ c + skip <= Len(evs) /\ Len(evs) \in Nat
         /\ ElementsEnd(evs, c) = c + k
         /\ \/ evs[c].ty = "dict" /\ skip = k + 1 + len
            \/ evs[c].ty = "array" /\ skip = k /\ len = 0
         /\ \A q \in (c + k + 2)..(c + skip) : evs[q].kind = "value"
<1>1. /\ c \in Nat /\ Len(evs) \in Nat /\ skip \in Nat /\ evs[c].len \in Nat
      /\ evs[c].ty \in {"array", "dict"} /\ BlockEnd(evs, c) = c + skip
  BY BlockFacts
<1>2. /\ c <= ElementsEnd(evs, c) /\ BlockEnd(evs, c) <= Len(evs)
      /\ evs[c].ty = "dict" => evs[ElementsEnd(evs, c) + 1] = DictionaryKeys(evs[c].len)
  BY WholeFacts
<1>3. ElementsEnd(evs, c) = c + k
  BY DEF ElementsEnd
<1>4. CASE evs[c].ty = "dict"
  <2>1. k = skip - len - 1 /\ len = evs[c].len
    BY <1>4 DEF KeysStart, KeyCount
  <2>2. k \in Nat /\ skip = k + 1 + len /\ len \in Nat
    BY <1>1, <1>2, <1>3, <2>1, SMTT(40)
  <2> DEFINE p == c + k + 1
  <2>3. p \in 1..Len(evs) /\ evs[p] = DictionaryKeys(len)
    <3>1. p = ElementsEnd(evs, c) + 1
      BY <1>3
    <3>2. p + len <= Len(evs) /\ p \in Nat /\ 1 <= p
      BY <1>1, <1>2, <2>2
    <3>3. p \in 1..Len(evs)
      <4> HIDE DEF p
      <4>1. len \in Nat /\ Len(evs) \in Nat
        BY <1>1, <2>2
      <4>2. p <= Len(evs)
        BY <3>2, <4>1
      <4> QED
        BY <3>2, <4>1, <4>2
    <3> QED
      BY <1>2, <1>4, <2>1, <3>1, <3>3
  <2>4. evs[p].kind = "keys" /\ evs[p].len = len
    BY <2>3 DEF DictionaryKeys
  <2>5. \A q \in (p + 1)..(p + len) : evs[q].kind = "value"
    BY <2>3, <2>4 DEF Laid, LaidAt, LaidKeys
  <2>6. p + 1 = c + k + 2 /\ p + len = c + skip
    BY <1>1, <2>2, SMTT(40)
  <2> HIDE DEF p
  <2>7. \A q \in (c + k + 2)..(c + skip) : evs[q].kind = "value"
    BY <2>5, <2>6
  <2> QED
    BY <1>1, <1>2, <1>3, <1>4, <2>2, <2>7
<1>5. CASE evs[c].ty = "array"
  <2>1. k = skip /\ len = 0
    BY <1>5 DEF KeysStart, KeyCount
  <2> QED
    BY <1>1, <1>2, <1>3, <1>5, <2>1
<1> QED
  BY <1>1, <1>4, <1>5

(* The keys of a dictionary are at the positions given for them.            *)
LEMMA KeysArePositions ==
  ASSUME NEW n \in Nat, NEW evs \in Seq(EventsFor(n)), Laid(evs, {}), NEW c \in 1..Len(evs),
         evs[c].kind = "collection",
         NEW k \in Nat, k = KeysStart(evs[c]), NEW len \in Nat, len = KeyCount(evs[c])
  PROVE  /\ KeyPositions(c, evs[c]) \in Seq(1..Len(evs))
         /\ Len(KeyPositions(c, evs[c])) = len
         /\ \A j \in 1..len : KeyPositions(c, evs[c])[j] = c + k + 1 + j
<1> DEFINE skip == evs[c].skip
<1>1. /\ c \in Nat /\ k \in Nat /\ len \in Nat /\ skip \in Nat
      /\ c + skip <= Len(evs) /\ Len(evs) \in Nat
      /\ \/ evs[c].ty = "dict" /\ skip = k + 1 + len
         \/ evs[c].ty = "array" /\ skip = k /\ len = 0
  BY PositionFacts
<1> HIDE DEF skip
<1>a. \A j \in 1..len : c + k + 1 + j \in 1..Len(evs)
  BY <1>1, SMTT(40)
<1>2. CASE evs[c].ty = "dict"
  <2>1. KeyPositions(c, evs[c]) = [j \in 1..len |-> c + k + 1 + j]
    BY <1>2 DEF KeyPositions, KeyCount
  <2> DEFINE f == [j \in 1..len |-> c + k + 1 + j]
  <2>2. f \in Seq(1..Len(evs)) /\ Len(f) = len /\ \A j \in 1..len : f[j] = c + k + 1 + j
    <3>1. f \in [1..len -> 1..Len(evs)]
      BY <1>a
    <3>2. f \in Seq(1..Len(evs)) /\ Len(f) = len
      <4> HIDE DEF f
      <4> QED
        BY <1>1, <3>1, SMTT(40)
    <3> QED
      BY <3>2
  <2> HIDE DEF f
  <2>3. KeyPositions(c, evs[c]) = f
    BY <2>1 DEF f
  <2> QED
    BY <2>2, <2>3
<1>3. CASE evs[c].ty = "array"
  <2>1. len = 0 /\ KeyPositions(c, evs[c]) = <<>>
    BY <1>3 DEF KeyPositions, KeyCount
  <2> QED
    BY <1>1, <2>1
<1> QED
  BY <1>1, <1>2, <1>3

(* all are the positions of the len keys and then the k elements of the     *)
(* collection at c.                                                         *)
Placed(all, c, k, len) ==
  /\ Len(all) = len + k
  /\ \A j \in 1..len : all[j] = c + k + 1 + j
  /\ \A j \in 1..k : all[len + j] = c + j

(* The positions of a collection: the keys, then what its elements take up. *)
LEMMA AllPositions ==
  ASSUME NEW n \in Nat, NEW evs \in Seq(EventsFor(n)), Laid(evs, {}), NEW c \in 1..Len(evs),
         evs[c].kind = "collection",
         NEW k \in Nat, k = KeysStart(evs[c]), NEW len \in Nat, len = KeyCount(evs[c])
  PROVE  /\ Positions(c, evs[c]) \in Seq(1..Len(evs))
         /\ Placed(Positions(c, evs[c]), c, k, len)
<1> DEFINE skip == evs[c].skip
           keys == KeyPositions(c, evs[c])
           rest == [j \in 1..k |-> c + j]
<1>1. /\ c \in Nat /\ k \in Nat /\ len \in Nat /\ skip \in Nat
      /\ c + skip <= Len(evs) /\ Len(evs) \in Nat /\ k <= skip
  <2>1. /\ c \in Nat /\ k \in Nat /\ len \in Nat /\ skip \in Nat
        /\ c + skip <= Len(evs) /\ Len(evs) \in Nat
        /\ \/ evs[c].ty = "dict" /\ skip = k + 1 + len
           \/ evs[c].ty = "array" /\ skip = k /\ len = 0
    BY PositionFacts
  <2> HIDE DEF skip
  <2> QED
    BY <2>1
<1>2. /\ keys \in Seq(1..Len(evs)) /\ Len(keys) = len
      /\ \A j \in 1..len : keys[j] = c + k + 1 + j
  BY KeysArePositions
<1> HIDE DEF skip, keys
<1>3. rest \in Seq(1..Len(evs)) /\ Len(rest) = k /\ \A j \in 1..k : rest[j] = c + j
  <2>1. \A j \in 1..k : c + j \in 1..Len(evs)
    BY <1>1
  <2> QED
    BY <1>1, <2>1
<1>4. Positions(c, evs[c]) = keys \o rest
  BY DEF Positions, keys
<1> HIDE DEF rest
<1>5. /\ keys \o rest \in Seq(1..Len(evs)) /\ Len(keys \o rest) = len + k
      /\ \A j \in 1..len : (keys \o rest)[j] = keys[j]
      /\ \A j \in 1..k : (keys \o rest)[len + j] = rest[j]
  <2>1. /\ keys \o rest \in Seq(1..Len(evs)) /\ Len(keys \o rest) = Len(keys) + Len(rest)
        /\ \A j \in 1..Len(keys) : (keys \o rest)[j] = keys[j]
        /\ \A j \in 1..Len(rest) : (keys \o rest)[Len(keys) + j] = rest[j]
    <3> DEFINE S == 1..Len(evs)
    <3>1. keys \in Seq(S) /\ rest \in Seq(S)
      BY <1>2, <1>3
    <3> HIDE DEF S
    <3>2. /\ keys \o rest \in Seq(S) /\ Len(keys \o rest) = Len(keys) + Len(rest)
          /\ \A j \in 1..Len(keys) : (keys \o rest)[j] = keys[j]
          /\ \A j \in 1..Len(rest) : (keys \o rest)[Len(keys) + j] = rest[j]
      BY <3>1, ConcatFacts
    <3> QED
      BY <3>2 DEF S
  <2> QED
    BY <1>2, <1>3, <2>1
<1> QED
  BY <1>2, <1>3, <1>4, <1>5 DEF Placed

(* The collection at hand.                                                  *)
LEMMA AtHandFacts ==
  ASSUME WInv, pc \in {"refs", "keys"}, NEW c, c = cursor
  PROVE  /\ Writing /\ AtHand /\ c \in 1..Len(todo) /\ todo[c].kind = "collection"
         /\ c \in Nat \ {0}
         /\ KeysStart(todo[c]) \in Nat /\ KeyCount(todo[c]) \in Nat /\ todo[c].skip \in Nat
         /\ c + todo[c].skip <= Len(todo)
         /\ ElementsEnd(todo, c) = c + KeysStart(todo[c])
         /\ KeysAt = (c + KeysStart(todo[c]) + 2)..(c + todo[c].skip)
         /\ \/ KeyCount(todo[c]) = 0 /\ todo[c].skip = KeysStart(todo[c])
            \/ todo[c].skip = KeysStart(todo[c]) + 1 + KeyCount(todo[c])
         /\ \A q \in KeysAt :
              /\ q \in 1..Len(todo) /\ todo[q].kind = "value"
              /\ todo[q].index \in 1..Len(values)
<1> DEFINE k == KeysStart(todo[c])
           len == KeyCount(todo[c])
           skip == todo[c].skip
<1>1. /\ Writing /\ Numbering /\ todo \in Seq(EventsFor(Len(values))) /\ Len(values) \in Nat
      /\ c \in Nat \ {0} /\ Laid(todo, {}) /\ Len(todo) \in Nat
  BY WritingFacts DEF Writing
<1>2. AtHand /\ c \in 1..Len(todo) /\ todo[c].kind = "collection"
  BY <1>1 DEF Numbering, AtHand, Collecting
<1>3. /\ c \in Nat /\ k \in Nat /\ len \in Nat /\ skip \in Nat /\ c + skip <= Len(todo)
      /\ ElementsEnd(todo, c) = c + k
      /\ \/ todo[c].ty = "dict" /\ skip = k + 1 + len
         \/ todo[c].ty = "array" /\ skip = k /\ len = 0
      /\ \A q \in (c + k + 2)..(c + skip) : todo[q].kind = "value"
  BY <1>1, <1>2, PositionFacts
<1> HIDE DEF k, len
<1>4. KeysAt = (c + k + 2)..(c + skip)
  <2>1. ElementsEnd(todo, cursor) + 2 = c + k + 2
    BY <1>3
  <2> QED
    BY <2>1 DEF KeysAt
<1> HIDE DEF skip
<1>5. ASSUME NEW q \in KeysAt
      PROVE  /\ q \in 1..Len(todo) /\ todo[q].kind = "value"
             /\ todo[q].index \in 1..Len(values)
  <2>1. q \in 1..Len(todo)
    BY <1>1, <1>3, <1>4
  <2>2. todo[q].kind = "value"
    BY <1>3, <1>4
  <2>3. todo[q] \in EventsFor(Len(values))
    BY <1>1, <2>1, SeqElements
  <2> QED
    BY <1>1, <2>1, <2>2, <2>3, EventFacts
<1> QED
  BY <1>1, <1>2, <1>3, <1>4, <1>5 DEF k, len, skip

(* All the references of the collection at hand are written.                *)
LEMMA RefsWrittenKeeps ==
  ASSUME WInv, RefsWritten
  PROVE  WInv'
<1> DEFINE c == cursor
           k == KeysStart(todo[c])
           len == KeyCount(todo[c])
           skip == todo[c].skip
<1>1. /\ pc = "refs" /\ pending = <<>> /\ pending' = KeyPositions(cursor, todo[cursor])
      /\ Continue("keys") /\ pc' = "keys"
      /\ UNCHANGED <<values, pos, todo, cursor, next_object_ref, offset_table, file>>
  BY DEF RefsWritten, Continue
<1>2. /\ Writing /\ AtHand /\ c \in 1..Len(todo) /\ todo[c].kind = "collection"
      /\ c \in Nat \ {0} /\ k \in Nat /\ len \in Nat /\ skip \in Nat
      /\ ElementsEnd(todo, c) = c + k
      /\ KeysAt = (c + k + 2)..(c + skip)
      /\ (len = 0 /\ skip = k) \/ skip = k + 1 + len
  BY <1>1, AtHandFacts
<1>3. /\ TypeOK /\ RefsAssigned
      /\ todo \in Seq(EventsFor(Len(values))) /\ Len(todo) \in Nat /\ Len(values) \in Nat
      /\ Laid(todo, {}) /\ BlockEnd(todo, 1) = Len(todo) /\ todo # <<>>
      /\ NotAmongKeys(todo, c)
      /\ next_object_ref \in Nat /\ pos \in Nat /\ file \in Seq(Objects)
      /\ \A q \in 1..Len(todo) : Assignment(q)
  BY <1>2, WritingFacts
<1>4. Len(pending) = 0 /\ NextElement = c + k + 1
  <2>1. Len(pending) = 0
    BY <1>1
  <2> HIDE DEF k, c
  <2>2. ~(Len(pending) > k)
    BY <1>2, <2>1
  <2>3. NextElement = ElementsEnd(todo, c) + 1 - Len(pending)
    BY <2>2 DEF NextElement, k, c
  <2> QED
    BY <1>2, <2>1, <2>3
<1>5. /\ pending' \in Seq(1..Len(todo)) /\ Len(pending') = len
      /\ \A j \in 1..len : pending'[j] = c + k + 1 + j
  <2> DEFINE keys == KeyPositions(c, todo[c])
  <2>1. /\ keys \in Seq(1..Len(todo)) /\ Len(keys) = len
        /\ \A j \in 1..len : keys[j] = c + k + 1 + j
    <3>1. k = KeysStart(todo[c]) /\ len = KeyCount(todo[c])
      OBVIOUS
    <3> HIDE DEF k, len, c
    <3>2. /\ Len(values) \in Nat /\ todo \in Seq(EventsFor(Len(values))) /\ Laid(todo, {})
          /\ c \in 1..Len(todo) /\ todo[c].kind = "collection" /\ k \in Nat /\ len \in Nat
      BY <1>2, <1>3
    <3>3. KeyPositions(c, todo[c]) \in Seq(1..Len(todo))
      BY <3>1, <3>2, KeysArePositions
    <3>4. Len(KeyPositions(c, todo[c])) = len
      BY <3>1, <3>2, KeysArePositions
    <3>5. \A j \in 1..len : KeyPositions(c, todo[c])[j] = c + k + 1 + j
      BY <3>1, <3>2, KeysArePositions
    <3> QED
      BY <3>3, <3>4, <3>5
  <2>2. pending' = keys
    BY <1>1
  <2> HIDE DEF keys
  <2> QED
    BY <2>1, <2>2
<1> HIDE DEF k, len
<1>6. \A q \in KeysAt : Keyed(q)
  <2>1. ASSUME NEW q \in KeysAt
        PROVE  q + Len(pending) <= cursor + todo[cursor].skip + KeysStart(todo[cursor])
    <3>1. q + 0 <= c + skip + k
      <4> HIDE DEF skip, c
      <4> QED
        BY <1>2
    <3> QED
      BY <1>4, <3>1 DEF k
  <2> QED
    BY <1>1, <1>2, <2>1 DEF AtHand
<1>7. AtHand'
  <2>1. Collecting(todo', cursor')
    BY <1>1, <1>2 DEF Collecting
  <2>2. KeysAt' = KeysAt /\ \A q : Keyed(q)' <=> Keyed(q)
    BY <1>1 DEF KeysAt, ElementsEnd, Keyed
  <2>3. ASSUME NEW j \in 1..Len(pending')
        PROVE  pending'[j] \in KeysAt'
    <3>1. j \in 1..len /\ len # 0 /\ skip = k + 1 + len
      BY <1>2, <1>5
    <3>2. pending'[j] = c + k + 1 + j
      BY <1>5, <3>1
    <3>3. c + k + 1 + j \in (c + k + 2)..(c + skip)
      <4> HIDE DEF c, skip
      <4> QED
        BY <1>2, <3>1
    <3> QED
      BY <1>2, <2>2, <3>2, <3>3
  <2> QED
    BY <1>1, <1>6, <2>1, <2>2, <2>3 DEF AtHand
<1>8. ASSUME NEW q \in 1..Len(todo)
      PROVE  Referred(q)' <=> Referred(q)
  <2>1. ASSUME NEW i \in 1..Len(todo), Child(todo, i, q)
        PROVE  Reffed(i, q)' <=> Reffed(i, q)
    <3>1. i = c => q <= c + k
      BY <1>2, <1>3, <2>1, ChildKind
    <3>2. Reffed(i, q)' <=> i < c \/ i = c
      BY <1>1 DEF Reffed
    <3>3. Reffed(i, q) <=> i < c \/ (i = c /\ q < c + k + 1)
      BY <1>1, <1>4 DEF Reffed
    <3> QED
      BY <1>2, <3>1, <3>2, <3>3
  <2>2. (\E i \in 1..Len(todo) : Child(todo, i, q) /\ Reffed(i, q))'
          <=> \E i \in 1..Len(todo) : Child(todo, i, q) /\ Reffed(i, q)'
    BY <1>1 DEF Child, Collecting, ElementsEnd, BlockEnd
  <2> QED
    BY <2>1, <2>2 DEF Referred
<1>9. ValuesGrow(values')
  BY <1>1, <1>3, SameValuesGrow
<1>10. \A q \in 1..Len(todo') : Assignment(q)'
  BY <1>1, <1>3, <1>8, <1>9, SameAssignment
<1>11. Numbering'
  <2>1. /\ Laid(todo', {}) /\ BlockEnd(todo', 1) = Len(todo') /\ todo' # <<>>
        /\ NotAmongKeys(todo', cursor')
    BY <1>1, <1>3
  <2> QED
    BY <1>1, <1>7, <1>10, <2>1 DEF Numbering
<1>12. /\ todo' \in Seq(EventsFor(Len(values))) /\ cursor' \in Nat \ {0}
       /\ pending' \in Seq(1..Len(todo')) /\ next_object_ref' \in Nat
       /\ pos' \in Nat /\ file' \in Seq(Objects)
  BY <1>1, <1>2, <1>3, <1>5
<1> QED
  BY <1>1, <1>2, <1>9, <1>11, <1>12, ContinueKeeps

(* A key has its reference, and is written.                                 *)
LEMMA WriteKeyKeeps ==
  ASSUME WInv, WriteKey
  PROVE  WInv'
<1> DEFINE h == Head(pending)
           i == todo[h].index
<1>1. /\ pc = "keys" /\ pending # <<>> /\ WritePlistValue(i)
      /\ pending' = IF pc' = "keys" THEN Tail(pending) ELSE pending
      /\ UNCHANGED <<todo, cursor, next_object_ref>>
  BY DEF WriteKey
<1>2. /\ Writing /\ AtHand /\ Collecting(todo, cursor)
      /\ \A j \in 1..Len(pending) : pending[j] \in KeysAt
      /\ \A q \in KeysAt : Keyed(q)
      /\ \A q \in KeysAt : q \in 1..Len(todo) /\ todo[q].index \in 1..Len(values)
  BY <1>1, AtHandFacts DEF AtHand
<1>3. /\ TypeOK /\ RefsAssigned
      /\ todo \in Seq(EventsFor(Len(values))) /\ Len(todo) \in Nat /\ Len(values) \in Nat
      /\ cursor \in Nat \ {0} /\ pending \in Seq(1..Len(todo))
      /\ Laid(todo, {}) /\ BlockEnd(todo, 1) = Len(todo) /\ todo # <<>>
      /\ NotAmongKeys(todo, cursor)
      /\ next_object_ref \in Nat /\ pos \in Nat /\ file \in Seq(Objects)
      /\ \A q \in 1..Len(todo) : Assignment(q)
  BY <1>2, WritingFacts
<1>4. /\ h \in KeysAt /\ Tail(pending) \in Seq(1..Len(todo))
      /\ Len(Tail(pending)) = Len(pending) - 1 /\ Len(pending) \in Nat
      /\ \A j \in 1..Len(Tail(pending)) : Tail(pending)[j] = pending[j + 1]
  <2>1. Len(pending) \in Nat /\ Len(pending) # 0
    BY <1>1, <1>3, EmptyIffZero
  <2>2. 1 \in 1..Len(pending) /\ h = pending[1]
    BY <2>1
  <2> QED
    BY <1>1, <1>2, <1>3, <2>1, <2>2
<1>5. i \in 1..Len(values) /\ values[i].state # "unassigned"
  BY <1>2, <1>4 DEF Keyed
<1> HIDE DEF h, i
<1>6. /\ ValuesGrow(values')
      /\ IOError \/ (Continue(pc) /\ pos' \in Nat /\ file' \in Seq(Objects))
  BY <1>1, <1>2, <1>5, ValueIsWritten
<1>7. CASE IOError
  BY <1>6, <1>7, IOErrorKeeps
<1>8. CASE Continue(pc) /\ pos' \in Nat /\ file' \in Seq(Objects)
  <2>1. Continue("keys") /\ pc' = "keys" /\ pending' = Tail(pending)
    BY <1>1, <1>8 DEF Continue
  <2>2. AtHand'
    <3>1. Collecting(todo', cursor') /\ KeysAt' = KeysAt
      BY <1>1, <1>2 DEF Collecting, KeysAt, ElementsEnd
    <3>2. ASSUME NEW q \in KeysAt
          PROVE  Keyed(q)'
      BY <1>1, <1>2, <1>6 DEF Keyed, ValuesGrow
    <3>3. ASSUME NEW j \in 1..Len(pending')
          PROVE  pending'[j] \in KeysAt
      <4>1. j + 1 \in 1..Len(pending) /\ pending'[j] = pending[j + 1]
        BY <1>4, <2>1
      <4> QED
        BY <1>2, <4>1
    <3> QED
      BY <2>1, <3>1, <3>2, <3>3 DEF AtHand
  <2>3. \A q \in 1..Len(todo) : Referred(q)' <=> Referred(q)
    BY <1>1, <2>1 DEF Referred, Reffed, Child, Collecting, ElementsEnd, BlockEnd
  <2>4. \A q \in 1..Len(todo') : Assignment(q)'
    BY <1>1, <1>3, <1>6, <2>3, SameAssignment
  <2>5. Numbering'
    <3>1. /\ Laid(todo', {}) /\ BlockEnd(todo', 1) = Len(todo') /\ todo' # <<>>
          /\ NotAmongKeys(todo', cursor')
      BY <1>1, <1>3
    <3> QED
      BY <2>1, <2>2, <2>4, <3>1 DEF Numbering
  <2>6. /\ todo' \in Seq(EventsFor(Len(values))) /\ cursor' \in Nat \ {0}
        /\ pending' \in Seq(1..Len(todo')) /\ next_object_ref' \in Nat
    BY <1>1, <1>3, <1>4, <2>1
  <2> QED
    BY <1>2, <1>6, <1>8, <2>1, <2>5, <2>6, ContinueKeeps
<1> QED
  BY <1>6, <1>7, <1>8

(* The object at the end of the file gets one more reference.               *)
LEMMA RefAppended ==
  ASSUME NEW f \in Seq(Objects), NEW ref \in Nat
  PROVE  [f EXCEPT ![Len(f)].refs = Append(@, ref)] \in Seq(Objects)
<1>1. Len(f) \in Nat
  OBVIOUS
<1>2. CASE Len(f) = 0
  <2> DEFINE g == [f EXCEPT ![Len(f)].refs = Append(@, ref)]
  <2>1. DOMAIN g = DOMAIN f /\ DOMAIN f = 1..Len(f)
    OBVIOUS
  <2>2. g = [i \in DOMAIN f |-> g[i]]
    OBVIOUS
  <2> HIDE DEF g
  <2>3. DOMAIN f = 1..0
    BY <1>2, <2>1
  <2>4. g \in [1..0 -> Objects]
    BY <2>1, <2>2, <2>3
  <2>5. g \in Seq(Objects)
    BY <2>4
  <2> QED
    BY <2>5 DEF g
<1>3. CASE Len(f) # 0
  <2> DEFINE n == Len(f)
             o == [f[n] EXCEPT !.refs = Append(@, ref)]
  <2>1. n \in 1..Len(f)
    BY <1>1, <1>3
  <2>2. f[n] \in Objects
    BY <2>1, SeqElements
  <2>3. f[n].refs \in Seq(Nat)
    BY <2>2 DEF Objects
  <2>4. Append(f[n].refs, ref) \in Seq(Nat)
    BY <2>3
  <2>5. o \in Objects
    BY <2>2, <2>4 DEF Objects
  <2>6. [f EXCEPT ![Len(f)].refs = Append(@, ref)] = [f EXCEPT ![n] = o]
    OBVIOUS
  <2> HIDE DEF o
  <2>7. [f EXCEPT ![n] = o] \in Seq(Objects)
    BY <2>1, <2>5
  <2> QED
    BY <2>6, <2>7
<1> QED
  BY <1>2, <1>3

(* The arithmetic of the places: k elements and len keys, L of them left.   *)
LEMMA Places ==
  ASSUME NEW c \in Nat, NEW k \in Nat, NEW len \in Nat, NEW skip \in Nat, NEW L \in Nat, L # 0,
         L <= len + k, (len = 0 /\ skip = k) \/ skip = k + 1 + len
  PROVE  /\ L > k => /\ len + k - L + 1 \in 1..len
                     /\ c + k + 1 + (len + k - L + 1) = c + skip + k - L + 1
                     /\ c + skip + k - L + 1 \in (c + k + 2)..(c + skip)
                     /\ c < c + skip + k - L + 1
         /\ L <= k => /\ k - L + 1 \in 1..k
                      /\ len + (k - L + 1) = len + k - L + 1
                      /\ c + (k - L + 1) = c + k + 1 - L
                      /\ c < c + k + 1 - L /\ c + k + 1 - L # c + k + 1
  OBVIOUS

(* The place p of the first of the last L positions, when there are skip    *)
(* events in the block.                                                     *)
Skipped(skip, k, len) == (len = 0 /\ skip = k) \/ skip = k + 1 + len
HeadAt(p, c, k, skip, L) ==
  /\ L > k => /\ p = c + skip + k - L + 1
              /\ p \in (c + k + 2)..(c + skip)
              /\ c < p
  /\ L <= k => p = c + k + 1 - L /\ c < p /\ p # c + k + 1

(* The first of the last L positions.                                       *)
LEMMA HeadPlace ==
  ASSUME NEW all, NEW c \in Nat, NEW k \in Nat, NEW len \in Nat, Placed(all, c, k, len),
         NEW skip \in Nat, Skipped(skip, k, len),
         NEW L \in Nat, L # 0, L <= len + k
  PROVE  HeadAt(all[len + k - L + 1], c, k, skip, L)
<1>1. CASE L > k
  <2>1. /\ len + k - L + 1 \in 1..len
        /\ c + k + 1 + (len + k - L + 1) = c + skip + k - L + 1
        /\ c + skip + k - L + 1 \in (c + k + 2)..(c + skip)
        /\ c < c + skip + k - L + 1
    BY <1>1, Places DEF Skipped
  <2>2. all[len + k - L + 1] = c + k + 1 + (len + k - L + 1)
    BY <2>1 DEF Placed
  <2> QED
    BY <1>1, <2>1, <2>2 DEF HeadAt
<1>2. CASE L <= k
  <2>1. /\ k - L + 1 \in 1..k /\ len + (k - L + 1) = len + k - L + 1
        /\ c + (k - L + 1) = c + k + 1 - L
        /\ c < c + k + 1 - L /\ c + k + 1 - L # c + k + 1
    BY <1>2, Places DEF Skipped
  <2>2. all[len + (k - L + 1)] = c + (k - L + 1)
    BY <2>1 DEF Placed
  <2> QED
    BY <1>2, <2>1, <2>2 DEF HeadAt
<1> QED
  BY <1>1, <1>2

(* What is first of the positions that remain.                              *)
LEMMA RemainingHead ==
  ASSUME Remaining, NEW L \in Nat \ {0}, L = Len(pending),
         NEW m \in Nat, m = Len(Positions(cursor, todo[cursor]))
  PROVE  L <= m /\ pending[1] = Positions(cursor, todo[cursor])[m - L + 1]
<1>1. 1 \in 1..Len(pending)
  OBVIOUS
<1> QED
  BY <1>1 DEF Remaining

(* The first of the L positions that wait, h, and the collection they are   *)
(* of, c, which has k elements and len keys.                                *)
AtHead(c, h, k, len, skip, L) ==
  /\ c = cursor /\ h = Head(pending) /\ k = KeysStart(todo[c]) /\ len = KeyCount(todo[c])
  /\ skip = todo[c].skip /\ L = Len(pending)

(* h is a key whose reference is to be written, or the next element.        *)
KeyOrElement(c, h, k, len, skip, L) ==
  /\ L # 0 /\ L <= len + k /\ h \in 1..Len(todo) /\ c < h
  /\ L > k => h \in KeysAt /\ NextElement = c + 1 /\ h = c + skip + k - L + 1
  /\ L <= k => Child(todo, c, h) /\ NextElement = h /\ h = c + k + 1 - L

(* The position at hand is a key, or the element that is next.              *)
LEMMA PendingFacts ==
  ASSUME WInv, pc = "refs", pending # <<>>,
         NEW c \in Nat, NEW h, NEW k \in Nat, NEW len \in Nat, NEW skip \in Nat, NEW L \in Nat,
         AtHead(c, h, k, len, skip, L)
  PROVE  KeyOrElement(c, h, k, len, skip, L)
<1> DEFINE all == Positions(c, todo[c])
<1>0. /\ c = cursor /\ h = Head(pending) /\ k = KeysStart(todo[c]) /\ len = KeyCount(todo[c])
      /\ skip = todo[c].skip /\ L = Len(pending)
  BY DEF AtHead
<1>1. /\ Writing /\ AtHand /\ c \in 1..Len(todo) /\ todo[c].kind = "collection"
      /\ ElementsEnd(todo, c) = c + k
      /\ KeysAt = (c + k + 2)..(c + skip)
      /\ (len = 0 /\ skip = k) \/ skip = k + 1 + len
  BY <1>0, AtHandFacts
<1>2. /\ todo \in Seq(EventsFor(Len(values))) /\ Len(todo) \in Nat /\ Len(values) \in Nat
      /\ Laid(todo, {}) /\ pending \in Seq(1..Len(todo))
  BY <1>1, WritingFacts
<1>3. Placed(all, c, k, len)
  BY <1>0, <1>1, <1>2, AllPositions
<1>5. Len(all) = len + k /\ all = Positions(cursor, todo[cursor])
  BY <1>0, <1>3 DEF Placed
<1>6. L # 0 /\ h = pending[1] /\ 1 \in 1..L /\ h \in 1..Len(todo)
  <2>1. L # 0
    BY <1>0, <1>2, EmptyIffZero
  <2>2. 1 \in 1..L /\ h = pending[1]
    BY <1>0, <2>1
  <2> QED
    BY <1>0, <1>2, <2>1, <2>2
<1>7. L <= len + k /\ h = all[len + k - L + 1]
  <2> DEFINE m == len + k
  <2>1. m \in Nat /\ m = Len(Positions(cursor, todo[cursor])) /\ L \in Nat \ {0} /\ Remaining
    BY <1>0, <1>1, <1>5, <1>6 DEF AtHand
  <2> HIDE DEF m
  <2>2. L <= m /\ pending[1] = Positions(cursor, todo[cursor])[m - L + 1]
    BY <1>0, <2>1, RemainingHead
  <2> HIDE DEF all
  <2>3. h = all[m - L + 1]
    BY <1>5, <1>6, <2>2
  <2> QED
    BY <2>2, <2>3 DEF m
<1> HIDE DEF all
<1>8. HeadAt(h, c, k, skip, L)
  <2>1. Skipped(skip, k, len)
    BY <1>1 DEF Skipped
  <2>2. HeadAt(all[len + k - L + 1], c, k, skip, L)
    BY <1>3, <1>6, <1>7, <2>1, HeadPlace
  <2> QED
    BY <1>7, <2>2
<1>9. CASE L > k
  <2>1. h = c + skip + k - L + 1 /\ h \in (c + k + 2)..(c + skip) /\ c < h
    BY <1>8, <1>9 DEF HeadAt
  <2>2. NextElement = c + 1
    BY <1>0, <1>9 DEF NextElement
  <2> QED
    BY <1>1, <1>6, <1>7, <1>9, <2>1, <2>2 DEF KeyOrElement
<1>10. CASE L <= k
  <2>1. h = c + k + 1 - L /\ c < h /\ h # c + k + 1
    BY <1>8, <1>10 DEF HeadAt
  <2>2. NextElement = h
    <3>1. ~(L > k)
      BY <1>10
    <3>2. NextElement = ElementsEnd(todo, c) + 1 - L
      BY <1>0, <3>1 DEF NextElement
    <3> QED
      BY <1>1, <2>1, <3>2
  <2>3. Child(todo, c, h)
    <3>1. h # ElementsEnd(todo, c) + 1
      BY <1>1, <2>1
    <3> QED
      BY <1>0, <1>1, <2>2, <3>1 DEF AtHand
  <2> QED
    BY <1>6, <1>7, <1>10, <2>1, <2>2, <2>3 DEF KeyOrElement
<1> QED
  BY <1>9, <1>10

(* What is left after the first taken are the end still.                    *)
LEMMA RemainingKept ==
  ASSUME Remaining, NEW S, pending \in Seq(S), NEW L \in Nat, L = Len(pending),
         NEW taken \in 1..L, pending' = SubSeq(pending, 1 + taken, Len(pending)),
         Positions(cursor', todo'[cursor']) = Positions(cursor, todo[cursor]),
         NEW m \in Nat, m = Len(Positions(cursor, todo[cursor]))
  PROVE  Remaining' /\ Len(pending') = L - taken /\ pending' \in Seq(S)
<1> DEFINE all == Positions(cursor, todo[cursor])
           rest == SubSeq(pending, 1 + taken, L)
<1>1. L <= m /\ \A j \in 1..L : pending[j] = all[m - L + j]
  BY DEF Remaining
<1>2. /\ rest \in Seq(S) /\ Len(rest) = L - taken
      /\ \A j \in 1..(L - taken) : rest[j] = pending[taken + j]
  <2>1. 1 + taken \in 1..(Len(pending) + 1)
    OBVIOUS
  <2> QED
    BY <2>1
<1>3. pending' = rest /\ Positions(cursor', todo'[cursor']) = all
  OBVIOUS
<1> HIDE DEF all, rest
<1>4. L - taken <= m
  BY <1>1
<1>5. ASSUME NEW j \in 1..(L - taken)
      PROVE  rest[j] = all[m - (L - taken) + j]
  <2>1. taken + j \in 1..L /\ m - (L - taken) + j = m - L + (taken + j)
    OBVIOUS
  <2> QED
    BY <1>1, <1>2, <2>1
<1>6. Remaining' <=> Len(pending') <= Len(Positions(cursor', todo'[cursor']))
        /\ \A j \in 1..Len(pending') :
             pending'[j] = Positions(cursor', todo'[cursor'])
                             [Len(Positions(cursor', todo'[cursor'])) - Len(pending') + j]
  BY DEF Remaining
<1>7. Len(all) = m
  BY DEF all
<1> QED
  BY <1>2, <1>3, <1>4, <1>5, <1>6, <1>7

(* The element that gets the next reference when L positions are left, and  *)
(* what the first of them takes up when it is h.                            *)
PlaceAfter(c, k, L) == IF L > k THEN c + 1 ELSE c + k + 1 - L
TakenOne(c, k, L, h, taken) ==
  /\ taken \in 1..L
  /\ L > k => taken = 1
  /\ L <= k => h = c + k + 1 - L

(* An element, whose block ends at b, takes up no more than there is left.  *)
LEMMA ElementFits ==
  ASSUME NEW c \in Nat, NEW k \in Nat, NEW L \in Nat, NEW h \in Nat, h = c + k + 1 - L,
         NEW b \in Nat, h <= b, b <= c + k
  PROVE  b + 1 - h \in 1..L
  OBVIOUS

IsHead(h, taken) == h = Head(pending) /\ taken = BlockEnd(todo, h) + 1 - h

Dropped(taken) == pending' = SubSeq(pending, 1 + taken, Len(pending))

(* The first that waits has its reference now; taken is what it takes up.   *)
LEMMA ReferenceGiven ==
  ASSUME WInv, pc = "refs", pending # <<>>, NEW h, NEW taken, IsHead(h, taken),
         ValuesGrow(values'), todo' \in Seq(EventsFor(Len(values))), SameShape(todo, todo'),
         \A q \in 1..Len(todo) : q # h => todo'[q] = todo[q],
         todo[h].kind = "value" => values'[todo[h].index].state # "unassigned",
         todo[h].kind = "collection" => todo'[h].object_ref # NoRef,
         cursor' = cursor, pc' = "refs", Dropped(taken)
  PROVE  Numbering' /\ pending' \in Seq(1..Len(todo'))
<1> DEFINE c == cursor
           k == KeysStart(todo[c])
           len == KeyCount(todo[c])
           skip == todo[c].skip
           L == Len(pending)
<1>1. /\ Writing /\ AtHand /\ c \in 1..Len(todo) /\ todo[c].kind = "collection"
      /\ c \in Nat \ {0} /\ k \in Nat /\ len \in Nat /\ skip \in Nat
      /\ c + skip <= Len(todo)
      /\ ElementsEnd(todo, c) = c + k
      /\ KeysAt = (c + k + 2)..(c + skip)
      /\ (len = 0 /\ skip = k) \/ skip = k + 1 + len
      /\ \A q \in KeysAt : q \in 1..Len(todo) /\ todo[q].kind = "value"
                           /\ todo[q].index \in 1..Len(values)
  BY AtHandFacts
<1>2. /\ todo \in Seq(EventsFor(Len(values))) /\ Len(todo) \in Nat /\ Len(values) \in Nat
      /\ Laid(todo, {}) /\ BlockEnd(todo, 1) = Len(todo) /\ todo # <<>>
      /\ NotAmongKeys(todo, c) /\ pending \in Seq(1..Len(todo)) /\ L \in Nat
      /\ \A q \in 1..Len(todo) : Assignment(q)
  BY <1>1, WritingFacts
<1>3. /\ L # 0 /\ L <= len + k /\ h \in 1..Len(todo) /\ c < h
      /\ L > k => h \in KeysAt /\ NextElement = c + 1 /\ h = c + skip + k - L + 1
      /\ L <= k => Child(todo, c, h) /\ NextElement = h /\ h = c + k + 1 - L
  <2>1. /\ AtHead(c, h, k, len, skip, L)
        /\ c \in Nat /\ k \in Nat /\ len \in Nat /\ skip \in Nat /\ L \in Nat
    BY <1>1, <1>2 DEF AtHead, IsHead
  <2> HIDE DEF c, k, len, skip, L
  <2>2. KeyOrElement(c, h, k, len, skip, L)
    BY <2>1, PendingFacts, Zenon
  <2> QED
    BY <2>2, Zenon DEF KeyOrElement
<1>4. /\ todo'[c] = todo[c] /\ Len(todo') = Len(todo) /\ c # h
  <2>1. Len(todo') = Len(todo)
    BY DEF SameShape
  <2>2. c # h
    BY <1>1, <1>3
  <2> QED
    BY <1>1, <2>1, <2>2
<1> HIDE DEF k, len, skip, L
<1>5. taken \in 1..L /\ (L > k => taken = 1)
  <2>1. CASE L > k
    <3>1. BlockEnd(todo, h) = h
      BY <1>1, <1>3, <2>1 DEF BlockEnd
    <3>2. taken = 1
      BY <1>3, <3>1 DEF IsHead
    <3> QED
      BY <1>2, <1>3, <3>2
  <2>2. CASE L <= k
    <3>1. BlockEnd(todo, h) <= c + k /\ BlockEnd(todo, h) \in Nat /\ h <= BlockEnd(todo, h)
      BY <1>1, <1>2, <1>3, <2>2, ChildKind, BlockFacts
    <3>2. h = c + k + 1 - L /\ h \in Nat
      BY <1>3, <2>2
    <3> DEFINE b == BlockEnd(todo, h)
    <3>3. c \in Nat /\ k \in Nat /\ L \in Nat
      BY <1>1, <1>2
    <3>4. taken = b + 1 - h
      BY DEF IsHead
    <3>5. b \in Nat /\ h <= b /\ b <= c + k
      BY <3>1
    <3> HIDE DEF b, c
    <3>6. b + 1 - h \in 1..L
      BY <3>2, <3>3, <3>5, ElementFits
    <3>7. ~(L > k)
      BY <2>2, <3>3
    <3> QED
      BY <3>4, <3>6, <3>7
  <2> QED
    BY <1>1, <1>2, <2>1, <2>2
<1>6. /\ Remaining' /\ Len(pending') = L - taken /\ pending' \in Seq(1..Len(todo))
  <2> DEFINE all == Positions(cursor, todo[cursor])
             m == len + k
  <2>1. Remaining
    BY <1>1 DEF AtHand
  <2>2. Positions(cursor', todo'[cursor']) = all
    BY <1>4
  <2>3. m = Len(all) /\ m \in Nat
    <3>1. c \in 1..Len(todo) /\ todo[c].kind = "collection" /\ k \in Nat /\ len \in Nat
      BY <1>1
    <3>2. k = KeysStart(todo[c]) /\ len = KeyCount(todo[c]) /\ all = Positions(c, todo[c])
      BY DEF k, len
    <3> HIDE DEF all, c
    <3>3. Placed(Positions(c, todo[c]), c, k, len)
      BY <1>2, <3>1, <3>2, AllPositions
    <3> QED
      BY <3>1, <3>2, <3>3 DEF Placed
  <2>4. L = Len(pending) /\ L \in Nat
    BY <1>2 DEF L
  <2>5. pending' = SubSeq(pending, 1 + taken, Len(pending))
    BY DEF Dropped
  <2> DEFINE S == 1..Len(todo)
  <2>6. pending \in Seq(S)
    BY <1>2
  <2> HIDE DEF m, S
  <2>7. Remaining' /\ Len(pending') = L - taken /\ pending' \in Seq(S)
    BY <1>5, <2>1, <2>2, <2>3, <2>4, <2>5, <2>6, RemainingKept
  <2> QED
    BY <2>7 DEF S
<1>7. NextElement' = IF L > k THEN c + 1 ELSE h + taken
  <2>1. ElementsEnd(todo, cursor)' = c + k
    BY <1>1, <1>4 DEF ElementsEnd
  <2>2. KeysStart(todo[cursor])' = k
    BY <1>4 DEF k
  <2>3. NextElement' = PlaceAfter(c, k, L - taken)
    <3>1. NextElement' = IF Len(pending') > KeysStart(todo[cursor])' THEN cursor' + 1
                         ELSE ElementsEnd(todo, cursor)' + 1 - Len(pending')
      BY DEF NextElement
    <3> QED
      BY <1>6, <2>1, <2>2, <3>1 DEF PlaceAfter
  <2>4. TakenOne(c, k, L, h, taken)
    BY <1>3, <1>5 DEF TakenOne
  <2>5. c \in Nat /\ k \in Nat /\ L \in Nat /\ L # 0 /\ h \in Nat
    BY <1>1, <1>2, <1>3
  <2> HIDE DEF c, k, L
  <2>6. PlaceAfter(c, k, L - taken) = IF L > k THEN c + 1 ELSE h + taken
    BY <2>4, <2>5, SMTT(40) DEF TakenOne, PlaceAfter
  <2> QED
    BY <2>3, <2>6, Zenon
<1>8. \A i, p : Child(todo', i, p) <=> Child(todo, i, p)
  BY <1>2, ShapeKeepsChildren
<1>9. ASSUME L <= k
      PROVE  /\ h + taken \in Nat /\ h < h + taken /\ h + taken <= c + k + 1
             /\ h + taken = c + k + 1 \/ Child(todo, c, h + taken)
             /\ \A q : Child(todo, c, q) => (q < h + taken <=> (q < h \/ q = h))
  <2>1. Child(todo, c, h)
    BY <1>3, <1>9
  <2>2. h \in Nat /\ BlockEnd(todo, h) \in Nat
    BY <1>2, <1>3, BlockFacts
  <2> DEFINE r == h + taken
  <2>3. r = BlockEnd(todo, h) + 1
    BY <2>2 DEF IsHead
  <2> HIDE DEF r, c
  <2>4. Follows(todo, c, h, r)
    <3>1. Len(values) \in Nat /\ todo \in Seq(EventsFor(Len(values))) /\ Laid(todo, {})
      BY <1>2
    <3> QED
      BY <2>1, <2>3, <3>1, NextChild
  <2> QED
    BY <1>1, <2>4 DEF r, Follows
<1>10. ASSUME NEW q \in 1..Len(todo)
       PROVE  Referred(q)' <=> Referred(q) \/ (L <= k /\ q = h)
  <2>1. ASSUME NEW i \in 1..Len(todo), Child(todo, i, q)
        PROVE  Reffed(i, q)' <=> Reffed(i, q) \/ (L <= k /\ q = h)
    <3>1. Reffed(i, q)' <=> i < c \/ (i = c /\ q < NextElement')
      BY DEF Reffed
    <3>2. Reffed(i, q) <=> i < c \/ (i = c /\ q < NextElement)
      BY DEF Reffed
    <3>3. CASE L > k
      BY <1>1, <1>2, <1>3, <1>7, <3>1, <3>2, <3>3
    <3>4. CASE L <= k
      <4>1. ~(L > k)
        BY <1>1, <1>2, <3>4
      <4>2. NextElement' = h + taken /\ NextElement = h /\ Child(todo, c, h)
        BY <1>3, <1>7, <3>4, <4>1
      <4>3. q = h => i = c
        BY <1>2, <2>1, <4>2, ParentUnique
      <4>4. i = c => (q < h + taken <=> (q < h \/ q = h))
        BY <1>9, <2>1, <3>4
      <4> QED
        BY <3>1, <3>2, <3>4, <4>2, <4>3, <4>4
    <3> QED
      BY <1>1, <1>2, <3>3, <3>4
  <2>2. Referred(q)' <=> q = 1 \/ \E i \in 1..Len(todo) : Child(todo, i, q) /\ Reffed(i, q)'
    <3>1. Referred(q)' <=> q = 1 \/ \E i \in 1..Len(todo') : Child(todo', i, q) /\ Reffed(i, q)'
      BY DEF Referred
    <3> QED
      BY <1>4, <1>8, <3>1
  <2>3. Referred(q) <=> q = 1 \/ \E i \in 1..Len(todo) : Child(todo, i, q) /\ Reffed(i, q)
    BY DEF Referred
  <2>4. L <= k /\ q = h => Child(todo, c, q) /\ c \in 1..Len(todo)
    BY <1>1, <1>3
  <2> QED
    BY <2>1, <2>2, <2>3, <2>4
<1>11. ASSUME NEW q \in 1..Len(todo')
       PROVE  Assignment(q)'
  <2>1. q \in 1..Len(todo) /\ Assignment(q) /\ todo'[q].kind = todo[q].kind
    BY <1>2, <1>4 DEF SameShape
  <2>2. todo[q].kind = "value" => todo'[q] = todo[q] /\ todo[q].index \in 1..Len(values)
    <3>1. todo[q] \in EventsFor(Len(values))
      BY <1>2, <2>1, SeqElements
    <3> QED
      BY <1>2, <2>1, <3>1, EventFacts DEF SameShape
  <2>3. CASE q = h /\ L <= k
    BY <1>10, <2>1, <2>2, <2>3 DEF Assignment
  <2>4. CASE q = h /\ L > k
    <3>1. todo[q].kind = "value" /\ (Referred(q)' <=> Referred(q))
      <4>1. h \in KeysAt
        BY <1>3, <2>4
      <4>2. todo[h].kind = "value"
        BY <1>1, <4>1
      <4>3. ~(L <= k)
        BY <1>1, <1>2, <2>4
      <4> QED
        BY <1>10, <2>1, <2>4, <4>2, <4>3
    <3> QED
      BY <2>1, <2>2, <2>4, <3>1 DEF Assignment
  <2>5. CASE q # h
    <3>1. todo'[q] = todo[q] /\ (Referred(q)' <=> Referred(q))
      BY <1>10, <2>1, <2>5
    <3> QED
      BY <2>1, <2>2, <3>1 DEF Assignment, ValuesGrow
  <2> QED
    BY <1>1, <1>2, <2>3, <2>4, <2>5
<1>12. AtHand'
  <2>1. Collecting(todo', cursor')
    BY <1>1, <1>4 DEF Collecting
  <2>2. ElementsEnd(todo, cursor)' = c + k /\ KeysAt' = KeysAt
    BY <1>1, <1>4 DEF ElementsEnd, KeysAt
  <2>3. NextElement' = ElementsEnd(todo, cursor)' + 1 \/ Child(todo', cursor', NextElement')
    <3>1. CASE L > k
      <4>1. NextElement' = NextElement
        BY <1>3, <1>7, <3>1
      <4>2. NextElement = ElementsEnd(todo, cursor) + 1 \/ Child(todo, cursor, NextElement)
        BY <1>1 DEF AtHand
      <4> QED
        BY <1>1, <1>8, <2>2, <4>1, <4>2
    <3>2. CASE L <= k
      <4>1. NextElement' = h + taken
        BY <1>1, <1>2, <1>7, <3>2
      <4> QED
        BY <1>8, <1>9, <2>2, <3>2, <4>1
    <3> QED
      BY <1>1, <1>2, <3>1, <3>2
  <2>4. ASSUME NEW q \in KeysAt, q + (L - taken) <= c + skip + k
        PROVE  Keyed(q)'
    <3>1. q \in 1..Len(todo) /\ todo'[q] = todo[q] /\ todo[q].index \in 1..Len(values)
      BY <1>1, <1>2 DEF SameShape
    <3>2. CASE q + L <= c + skip + k
      <4>1. Keyed(q)
        BY <1>1, <3>2 DEF AtHand, skip, k, L
      <4> QED
        BY <3>1, <4>1 DEF Keyed, ValuesGrow
    <3>3. CASE ~(q + L <= c + skip + k)
      <4>1. L > k
        <5>1. q <= c + skip /\ q \in Nat /\ c \in Nat
          BY <1>1, <3>1
        <5> HIDE DEF c
        <5> QED
          BY <1>1, <1>2, <3>3, <5>1
      <4>2. q = h
        <5>1. taken = 1 /\ h = c + skip + k - L + 1 /\ q \in Nat /\ c \in Nat
          BY <1>1, <1>3, <1>5, <3>1, <4>1
        <5> HIDE DEF c
        <5> QED
          BY <1>1, <1>2, <2>4, <3>3, <5>1
      <4> QED
        BY <1>1, <3>1, <4>2 DEF Keyed
    <3> QED
      BY <3>2, <3>3
  <2>5. /\ Len(pending') = L - taken /\ cursor' = c /\ todo'[cursor'].skip = skip
        /\ KeysStart(todo'[cursor']) = k
    BY <1>4, <1>6 DEF skip, k
  <2> QED
    BY <1>6, <2>1, <2>2, <2>3, <2>4, <2>5 DEF AtHand
<1>13. Laid(todo', {}) /\ BlockEnd(todo', 1) = Len(todo') /\ todo' # <<>>
       /\ NotAmongKeys(todo', cursor')
  <2>1. Laid(todo', {})
    BY <1>2, ShapeKeepsLayout
  <2>2. 1 \in 1..Len(todo)
    BY <1>1, <1>2
  <2>3. BlockEnd(todo', 1) = BlockEnd(todo, 1)
    BY <1>2, <2>2, ShapeFacts
  <2>4. NotAmongKeys(todo', cursor')
    <3>1. ASSUME NEW j \in 1..(c - 1), j <= Len(todo'), todo'[j].kind = "keys"
          PROVE  j + todo'[j].len < c
      <4>1. j \in 1..Len(todo) /\ j # h
        BY <1>1, <1>2, <1>3, <1>4, <3>1
      <4> QED
        BY <1>2, <1>4, <3>1, <4>1 DEF NotAmongKeys
    <3> QED
      BY <3>1 DEF NotAmongKeys
  <2> QED
    BY <1>2, <1>4, <2>1, <2>2, <2>3, <2>4
<1> QED
  BY <1>4, <1>6, <1>11, <1>12, <1>13 DEF Numbering

(* A collection gets a reference.                                           *)
GivenRef(evs, evs2, h, ref) == evs2 = [evs EXCEPT ![h].object_ref = ref]

(* Only the reference of the collection changes.                            *)
LEMMA CollectionReferred ==
  ASSUME NEW n \in Nat, NEW evs \in Seq(EventsFor(n)), NEW h \in 1..Len(evs),
         evs[h].kind = "collection", NEW ref \in Nat,
         NEW evs2, GivenRef(evs, evs2, h, ref)
  PROVE  /\ evs2 \in Seq(EventsFor(n)) /\ SameShape(evs, evs2)
         /\ \A q \in 1..Len(evs) : q # h => evs2[q] = evs[q]
         /\ evs2[h].object_ref = ref /\ evs2[h].object_ref # NoRef
<1> DEFINE root == evs[h]
           e == [root EXCEPT !.object_ref = ref]
<1>1. root \in EventsFor(n)
  BY SeqElements
<1>2. e \in EventsFor(n)
  BY <1>1, EventChanged
<1>3. e.kind = root.kind /\ e.ty = root.ty /\ e.len = root.len /\ e.skip = root.skip
      /\ e.object_ref = ref
  <2>1. root = [kind |-> "collection", ty |-> root.ty, len |-> root.len,
                skip |-> root.skip, object_ref |-> root.object_ref]
    BY <1>1, EventFacts
  <2> QED
    BY <2>1
<1>4. evs2 = [evs EXCEPT ![h] = e]
  BY DEF GivenRef
<1> HIDE DEF e
<1>5. /\ [evs EXCEPT ![h] = e] \in Seq(EventsFor(n))
      /\ Len([evs EXCEPT ![h] = e]) = Len(evs)
      /\ [evs EXCEPT ![h] = e][h] = e
      /\ \A i \in 1..Len(evs) : i # h => [evs EXCEPT ![h] = e][i] = evs[i]
  BY <1>2
<1>6. /\ evs2 \in Seq(EventsFor(n)) /\ Len(evs2) = Len(evs) /\ evs2[h] = e
      /\ \A i \in 1..Len(evs) : i # h => evs2[i] = evs[i]
  BY <1>4, <1>5, Zenon
<1>7. evs[h] = root
  OBVIOUS
<1> HIDE DEF root
<1>8. SameShape(evs, evs2)
  BY <1>3, <1>6, <1>7 DEF SameShape
<1>9. evs2[h].object_ref = ref /\ evs2[h].object_ref # NoRef
  BY <1>3, <1>6 DEF NoRef
<1> QED
  BY <1>6, <1>8, <1>9

(* Events have the shape they have.                                         *)
LEMMA SameShapeOfSame ==
  ASSUME NEW evs
  PROVE  SameShape(evs, evs)
  BY DEF SameShape

(* What is next to get a reference is after the collection at hand: a key,  *)
(* or an element, which if it is a collection has no reference yet since it *)
(* is an element of one collection only.                                    *)
LEMMA NextToRefer ==
  ASSUME WInv, pc = "refs", pending # <<>>, NEW h, h = Head(pending)
  PROVE  /\ h \in 1..Len(todo) /\ cursor < h
         /\ todo[h] \in EventsFor(Len(values))
         /\ todo[h].kind = "value" => todo[h].index \in 1..Len(values)
         /\ todo[h].kind \in {"value", "collection"}
         /\ todo[h].kind = "collection" => todo[h].object_ref = NoRef
<1> DEFINE e == todo[h]
           c == cursor
           k == KeysStart(todo[c])
           L == Len(pending)
<1>2. /\ Writing /\ AtHand /\ c \in 1..Len(todo) /\ todo[c].kind = "collection"
      /\ c \in Nat \ {0} /\ k \in Nat
      /\ \A q \in KeysAt : todo[q].kind = "value"
  BY AtHandFacts
<1>3. /\ todo \in Seq(EventsFor(Len(values))) /\ Len(todo) \in Nat /\ Len(values) \in Nat
      /\ Laid(todo, {}) /\ pending \in Seq(1..Len(todo)) /\ L \in Nat
      /\ \A q \in 1..Len(todo) : Assignment(q)
  BY <1>2, WritingFacts
<1>4. /\ h \in 1..Len(todo) /\ c < h
      /\ L > k => h \in KeysAt
      /\ L <= k => Child(todo, c, h) /\ NextElement = h
  <2> DEFINE len == KeyCount(todo[c])
             skip == todo[c].skip
  <2>1. AtHead(c, h, k, len, skip, L) /\ len \in Nat /\ skip \in Nat /\ c \in Nat
    BY AtHandFacts DEF AtHead
  <2> HIDE DEF c, k, len, skip, L
  <2>2. KeyOrElement(c, h, k, len, skip, L)
    BY <1>2, <1>3, <2>1, PendingFacts
  <2> QED
    BY <2>2 DEF KeyOrElement
<1> HIDE DEF c, k, L
<1>5. e \in EventsFor(Len(values)) /\ (e.kind = "value" => e.index \in 1..Len(values))
  <2>1. e \in EventsFor(Len(values))
    BY <1>3, <1>4, SeqElements
  <2> QED
    BY <1>3, <2>1, EventFacts
<1>6. e.kind \in {"value", "collection"} /\ (e.kind = "collection" => e.object_ref = NoRef)
  <2>1. CASE L > k
    BY <1>2, <1>4, <2>1
  <2>2. CASE L <= k
    <3>1. Child(todo, c, h) /\ NextElement = h
      BY <1>4, <2>2
    <3>2. e.kind \in {"value", "collection"}
      BY <1>3, <3>1, ChildKind
    <3>3. ~Referred(h)
      <4>1. h # 1
        BY <1>2, <1>4
      <4>2. ASSUME NEW i \in 1..Len(todo), Child(todo, i, h)
            PROVE  ~Reffed(i, h)
        <5>1. i = c
          BY <1>3, <3>1, <4>2, ParentUnique
        <5>2. Reffed(i, h) <=> i < c \/ (i = c /\ h < h)
          BY <3>1 DEF Reffed, c
        <5>3. ~(i < c) /\ ~(h < h)
          BY <1>3, <1>4, <5>1
        <5> QED
          BY <5>2, <5>3
      <4> QED
        BY <4>1, <4>2 DEF Referred
    <3>4. Assignment(h)
      BY <1>3, <1>4
    <3> QED
      BY <3>2, <3>3, <3>4 DEF Assignment
  <2> QED
    BY <1>2, <1>3, <2>1, <2>2
<1> QED
  BY <1>2, <1>3, <1>4, <1>5, <1>6 DEF c

(* An element gets its reference if it has none.                            *)
LEMMA WriteRefKeeps ==
  ASSUME WInv, WriteRef
  PROVE  WInv'
<1> DEFINE h == Head(pending)
           e == todo[h]
           fresh == e.kind = "collection" \/ values[e.index].state = "unassigned"
           ref == IF fresh THEN next_object_ref ELSE values[e.index].ref
           taken == IF e.kind = "collection" THEN 1 + e.skip ELSE 1
           c == cursor
<1>1. /\ pc = "refs" /\ pending # <<>>
      /\ IF e.kind = "keys" \/ (e.kind = "collection" /\ e.object_ref # NoRef)
         THEN Panic /\ UNCHANGED values
         ELSE /\ values' = IF e.kind = "value" /\ fresh THEN Assigned(e.index, ref) ELSE values
              /\ \/ IOError
                 \/ /\ file' = [file EXCEPT ![Len(file)].refs = Append(@, ref)]
                    /\ todo' = IF e.kind = "collection"
                               THEN [todo EXCEPT ![Head(pending)].object_ref = ref] ELSE todo
                    /\ next_object_ref' = IF fresh THEN ref + 1 ELSE next_object_ref
                    /\ pending' = SubSeq(pending, 1 + taken, Len(pending))
                    /\ Continue("refs")
                    /\ UNCHANGED <<pos, cursor, offset_table>>
  BY DEF WriteRef
<1>2. Writing /\ c \in Nat \ {0}
  BY <1>1, AtHandFacts
<1>3. /\ TypeOK /\ RefsAssigned
      /\ todo \in Seq(EventsFor(Len(values))) /\ Len(todo) \in Nat /\ Len(values) \in Nat
      /\ next_object_ref \in Nat /\ pos \in Nat /\ file \in Seq(Objects)
  BY <1>2, WritingFacts
<1>4. /\ h \in 1..Len(todo)
      /\ e \in EventsFor(Len(values)) /\ (e.kind = "value" => e.index \in 1..Len(values))
      /\ e.kind \in {"value", "collection"} /\ (e.kind = "collection" => e.object_ref = NoRef)
  BY <1>1, NextToRefer
<1> HIDE DEF h, c
<1>5. e \in EventsFor(Len(values)) /\ (e.kind = "value" => e.index \in 1..Len(values))
  BY <1>4
<1>6. e.kind \in {"value", "collection"} /\ (e.kind = "collection" => e.object_ref = NoRef)
  BY <1>4
<1>7. ref \in Nat
  <2>1. CASE fresh
    BY <1>3, <2>1
  <2>2. CASE ~fresh
    <3>1. e.kind = "value" /\ e.index \in 1..Len(values) /\ values[e.index].state # "unassigned"
      BY <1>5, <1>6, <2>2
    <3> QED
      BY <1>3, <2>2, <3>1 DEF RefsAssigned
  <2> QED
    BY <2>1, <2>2
<1>8. values' = IF e.kind = "value" /\ fresh THEN Assigned(e.index, ref) ELSE values
  BY <1>1, <1>6
<1>9. /\ ValuesGrow(values')
      /\ e.kind = "value" => values'[e.index].state # "unassigned"
  <2> HIDE DEF ref
  <2>1. CASE e.kind = "value" /\ fresh
    <3> DEFINE i == e.index
    <3>1. i \in 1..Len(values) /\ values' = Assigned(i, ref)
      BY <1>5, <1>8, <2>1
    <3> HIDE DEF i
    <3>2. ValuesGrow(Assigned(i, ref)) /\ Assigned(i, ref)[i].state # "unassigned"
      BY <1>3, <1>7, <3>1, AssignedGrows
    <3> QED
      BY <3>1, <3>2 DEF i
  <2>2. CASE ~(e.kind = "value" /\ fresh)
    <3>1. values' = values
      BY <1>8, <2>2
    <3> QED
      BY <1>3, <2>2, <3>1, SameValuesGrow
  <2> QED
    BY <2>1, <2>2
<1>10. CASE IOError
  BY <1>9, <1>10, IOErrorKeeps
<1>11. CASE /\ file' = [file EXCEPT ![Len(file)].refs = Append(@, ref)]
            /\ todo' = IF e.kind = "collection" THEN [todo EXCEPT ![h].object_ref = ref] ELSE todo
            /\ next_object_ref' = IF fresh THEN ref + 1 ELSE next_object_ref
            /\ pending' = SubSeq(pending, 1 + taken, Len(pending))
            /\ Continue("refs")
            /\ UNCHANGED <<pos, cursor, offset_table>>
  <2>1. /\ todo' \in Seq(EventsFor(Len(values))) /\ SameShape(todo, todo')
        /\ \A q \in 1..Len(todo) : q # h => todo'[q] = todo[q]
        /\ e.kind = "collection" => todo'[h].object_ref # NoRef
    <3> HIDE DEF ref
    <3>1. CASE e.kind = "collection"
      <4>1. GivenRef(todo, todo', h, ref)
        BY <1>11, <3>1 DEF GivenRef
      <4>2. todo[h].kind = "collection"
        BY <3>1
      <4>3. todo \in Seq(EventsFor(Len(values))) /\ Len(values) \in Nat /\ h \in 1..Len(todo)
        BY <1>3, <1>4
      <4> HIDE DEF e, fresh, taken
      <4>4. PICK n \in Nat : n = Len(values)
        BY <4>3
      <4>5. todo \in Seq(EventsFor(n))
        BY <4>3, <4>4
      <4>6. PICK evs2 : evs2 = todo'
        OBVIOUS
      <4>7. GivenRef(todo, evs2, h, ref)
        BY <4>1, <4>6
      <4>8. h \in 1..Len(todo)
        BY <4>3
      <4>9. /\ evs2 \in Seq(EventsFor(n)) /\ SameShape(todo, evs2)
            /\ \A q \in 1..Len(todo) : q # h => evs2[q] = todo[q]
            /\ evs2[h].object_ref # NoRef
        <5>1. evs2 \in Seq(EventsFor(n))
          BY <1>7, <4>2, <4>5, <4>7, <4>8, CollectionReferred
        <5>2. SameShape(todo, evs2)
          BY <1>7, <4>2, <4>5, <4>7, <4>8, CollectionReferred
        <5>3. \A q \in 1..Len(todo) : q # h => evs2[q] = todo[q]
          BY <1>7, <4>2, <4>5, <4>7, <4>8, CollectionReferred
        <5>4. evs2[h].object_ref # NoRef
          BY <1>7, <4>2, <4>5, <4>7, <4>8, CollectionReferred
        <5> QED
          BY <5>1, <5>2, <5>3, <5>4
      <4>10. n = Len(values) /\ evs2 = todo'
        BY <4>4, <4>6
      <4> HIDE DEF ref, h
      <4> QED
        BY <4>9, <4>10
    <3>2. CASE e.kind # "collection"
      <4>1. todo' = todo
        BY <1>11, <3>2
      <4> QED
        BY <1>3, <3>2, <4>1, SameShapeOfSame
    <3> QED
      BY <3>1, <3>2
  <2>2. IsHead(h, taken)
    <3>1. h \in Nat /\ BlockEnd(todo, h) = IF e.kind = "collection" THEN h + e.skip ELSE h
      BY <1>3, <1>4, <1>6 DEF BlockEnd
    <3>2. e.kind = "collection" => e.skip \in Nat
      BY <1>3, <1>5, EventFacts
    <3>3. taken = BlockEnd(todo, h) + 1 - h
      BY <3>1, <3>2
    <3> QED
      BY <3>3 DEF IsHead, h
  <2>3. cursor' = cursor /\ pc' = "refs" /\ Dropped(taken) /\ pos' = pos
    BY <1>11 DEF Continue, Dropped
  <2>4. file' \in Seq(Objects)
    <3> HIDE DEF ref
    <3> QED
      BY <1>3, <1>7, <1>11, RefAppended
  <2>5. next_object_ref' \in Nat
    BY <1>3, <1>7, <1>11
  <2> HIDE DEF taken
  <2>6. Numbering' /\ pending' \in Seq(1..Len(todo'))
    BY <1>1, <1>9, <2>1, <2>2, <2>3, ReferenceGiven
  <2>7. Continue("refs") /\ Writing /\ ValuesGrow(values')
    BY <1>2, <1>9, <1>11
  <2>8. /\ pos' \in Nat /\ cursor' \in Nat \ {0}
        /\ todo' \in Seq(EventsFor(Len(values)))
    <3>1. todo' \in Seq(EventsFor(Len(values)))
      BY <2>1
    <3>2. pos' \in Nat /\ cursor' \in Nat \ {0}
      BY <1>2, <1>3, <2>3 DEF c
    <3> QED
      BY <3>1, <3>2
  <2> HIDE DEF e, fresh, ref
  <2> QED
    BY <2>4, <2>5, <2>6, <2>7, <2>8, ContinueKeeps, Zenon
<1> QED
  <2>1. \/ IOError
        \/ /\ file' = [file EXCEPT ![Len(file)].refs = Append(@, ref)]
           /\ todo' = IF e.kind = "collection" THEN [todo EXCEPT ![h].object_ref = ref] ELSE todo
           /\ next_object_ref' = IF fresh THEN ref + 1 ELSE next_object_ref
           /\ pending' = SubSeq(pending, 1 + taken, Len(pending))
           /\ Continue("refs")
           /\ UNCHANGED <<pos, cursor, offset_table>>
    BY <1>1, <1>6 DEF h
  <2> QED
    BY <1>10, <1>11, <2>1

(* The client may rest.                                                     *)
LEMMA UnchangedKeeps ==
  ASSUME WInv, UNCHANGED vars
  PROVE  WInv'
<1>1. /\ events' = events /\ dictionary_key_events' = dictionary_key_events
      /\ values' = values /\ collection_stack' = collection_stack
      /\ num_objects' = num_objects /\ pos' = pos /\ pc' = pc /\ todo' = todo
      /\ cursor' = cursor /\ pending' = pending /\ next_object_ref' = next_object_ref
      /\ file' = file /\ call' = call /\ verdict' = verdict
  BY DEF vars, buffer, output, history
<1>2. TypeOK'
  BY <1>1 DEF WInv, TypeOK, Events
<1>3. Phases'
  BY <1>1 DEF WInv, Phases, Writing
<1>4. RefsAssigned'
  BY <1>1 DEF WInv, RefsAssigned
<1>5. (pc \in {"idle", "header"} => Buffering)'
  <2>1. Buffering => Buffering'
    BY <1>1 DEF Buffering, OpenSet, OpenCollections, KeysWait
  <2> QED
    BY <1>1, <2>1 DEF WInv
<1>6. (Writing => Numbering)'
  <2>1. ASSUME Numbering PROVE Numbering'
    <3>1. ASSUME NEW q \in 1..Len(todo) PROVE Assignment(q)'
      BY <1>1, <2>1 DEF Numbering, Assignment, Referred, Reffed, NextElement
    <3>2. AtHand => AtHand'
      BY <1>1 DEF AtHand, Remaining, NextElement, KeysAt, Keyed
    <3> QED
      BY <1>1, <2>1, <3>1, <3>2 DEF Numbering
  <2> QED
    BY <1>1, <2>1 DEF WInv, Writing
<1> QED
  BY <1>2, <1>3, <1>4, <1>5, <1>6 DEF WInv

(* Every step of the writer keeps the invariant.                            *)
LEMMA NextKeeps == WInv /\ [Next]_vars => WInv'
<1> SUFFICES ASSUME WInv, [Next]_vars PROVE WInv'
  OBVIOUS
<1>1. ASSUME NEW ty \in {"array", "dict"}, WriteStartCollection(ty) PROVE WInv'
  BY <1>1, WriteStartCollectionKeeps
<1>2. CASE WriteEndCollection
  BY <1>2, WriteEndCollectionKeeps
<1>3. ASSUME NEW v \in Values, WriteValue(v) PROVE WInv'
  BY <1>3, WriteValueKeeps
<1>4. CASE WritePlist
  BY <1>4, WriteHeaderKeeps, WriteObjectKeeps, WriteRefKeeps, RefsWrittenKeeps, WriteKeyKeeps,
     KeysWrittenKeeps, WriteTrailerKeeps DEF WritePlist
<1>5. CASE UNCHANGED vars
  BY <1>5, UnchangedKeeps
<1> QED
  BY <1>1, <1>2, <1>3, <1>4, <1>5 DEF Next, Rest

(* Nothing is buffered or written at first.                                 *)
LEMMA InitKeeps == Init => WInv
<1> SUFFICES ASSUME Init PROVE WInv
  OBVIOUS
<1>1. /\ events = <<>> /\ dictionary_key_events = <<>> /\ collection_stack = <<>>
      /\ values = <<>> /\ num_objects = 0 /\ pos = 0 /\ todo = <<>> /\ cursor = 1
      /\ pending = <<>> /\ next_object_ref = 0 /\ file = <<>> /\ pc = "idle"
      /\ verdict = "none" /\ call = [kind |-> "end", arg |-> 0]
  BY DEF Init
<1>2. TypeOK
  BY <1>1 DEF TypeOK
<1>3. Phases
  BY <1>1 DEF Phases, Writing, Calls
<1>4. RefsAssigned
  BY <1>1 DEF RefsAssigned
<1>5. Buffering
  <2>1. KeysWait
    <3> DEFINE w == [d \in 0..Len(collection_stack) |-> 0]
    <3>1. /\ w \in [0..Len(collection_stack) -> Nat] /\ w[0] = 0
          /\ w[Len(collection_stack)] = Len(dictionary_key_events)
      BY <1>1
    <3> HIDE DEF w
    <3> QED
      BY <1>1, <3>1 DEF KeysWait, Waits
  <2> QED
    BY <1>1, <2>1 DEF Buffering, Laid, OpenCollections
<1> QED
  BY <1>1, <1>2, <1>3, <1>4, <1>5 DEF WInv, Writing

(* Every variable of the binary writer has its type in every reachable      *)
(* state: the value indices of the events and of the keys that wait are     *)
(* those of known values, positions are positive, and nothing is pending    *)
(* but positions of the events being written.                               *)
THEOREM WriterTyped == Spec => []TypeOK
<1>1. WInv => TypeOK
  BY DEF WInv
<1> QED
  BY <1>1, InitKeeps, NextKeeps, PTL DEF Spec

(* No unreachable!, assert! or subtraction of the binary writer fails       *)
(* (stream/binary_writer.rs, write_plist, write_plist_collection and        *)
(* write_plist_value): no collection is given a second reference, no object *)
(* is written before it has one, no keys event is taken for an element, and *)
(* a dictionary is long enough for its keys.                                *)
THEOREM NeverPanics == Spec => []NoPanic
<1>1. WInv => NoPanic
  BY DEF WInv, Phases, NoPanic
<1> QED
  BY <1>1, InitKeeps, NextKeeps, PTL DEF Spec

(***************************************************************************)
(* The event sink.                                                         *)
(***************************************************************************)
FrameStates == {"array", "key", "value"}

(* What the collections of evs that are open in stack expect.               *)
Frames(evs, stack) == [d \in 1..Len(stack) |-> Frame(evs[stack[d]])]

Opens ==
  IF verdict \in {"none", "ok"} THEN Frames(events, collection_stack) ELSE <<>>

(* What a collection expects, and what another element makes of it.         *)
LEMMA FrameFacts ==
  ASSUME NEW n \in Nat, NEW e \in EventsFor(n), e.kind = "collection", NEW e2,
         e2.ty = e.ty, e2.len = e.len + 1
  PROVE  /\ Frame(e) \in FrameStates
         /\ Frame(e) = "array" <=> e.ty = "array"
         /\ Frame(e) = "key" <=> e.ty = "dict" /\ e.len % 2 = 0
         /\ Frame(e) = "array" => Frame(e2) = "array"
         /\ Frame(e) = "key" => Frame(e2) = "value"
         /\ Frame(e) = "value" => Frame(e2) = "key"
<1>1. e.ty \in {"array", "dict"} /\ e.len \in Nat
  BY EventFacts
<1>2. CASE e.ty = "array"
  BY <1>2 DEF Frame, FrameStates
<1>3. CASE e.ty = "dict" /\ e.len % 2 = 0
  <2>1. (e.len + 1) % 2 = 1
    BY <1>1, <1>3
  <2> QED
    BY <1>3, <2>1 DEF Frame, FrameStates
<1>4. CASE e.ty = "dict" /\ e.len % 2 # 0
  <2>1. e.len % 2 = 1 /\ (e.len + 1) % 2 = 0
    BY <1>1, <1>4
  <2> QED
    BY <1>4, <2>1 DEF Frame, FrameStates
<1> QED
  BY <1>1, <1>2, <1>3, <1>4

(* What the open collections expect between calls.                          *)
LEMMA OpensFacts ==
  ASSUME WInv, pc = "idle"
  PROVE  /\ Opens = Frames(events, collection_stack)
         /\ Opens \in Seq(FrameStates)
         /\ Len(Opens) = Len(collection_stack) /\ Len(Opens) \in Nat
         /\ (Opens = <<>>) <=> (collection_stack = <<>>)
         /\ collection_stack # <<>> =>
              /\ Sink!Innermost(Opens) = Frame(events[Last(collection_stack)])
         /\ ExpectingKey <=> (Opens # <<>> /\ Sink!Innermost(Opens) = "key")
<1>1. /\ BufferTypes /\ OpenCollections /\ verdict \in {"none", "ok"}
  BY IdleFacts
<1>2. Opens = Frames(events, collection_stack)
  BY <1>1 DEF Opens
<1>3. /\ Len(collection_stack) \in Nat /\ Len(values) \in Nat
      /\ (collection_stack = <<>>) <=> (Len(collection_stack) = 0)
  BY <1>1, EmptyIffZero DEF BufferTypes
<1>4. ASSUME NEW d \in 1..Len(collection_stack)
      PROVE  Frame(events[collection_stack[d]]) \in FrameStates
  <2>1. collection_stack[d] \in 1..Len(events)
    BY <1>1, SeqElements DEF BufferTypes
  <2>2. events[collection_stack[d]] \in EventsFor(Len(values))
    BY <1>1, <2>1, SeqElements DEF BufferTypes
  <2>3. events[collection_stack[d]].kind = "collection"
    BY <1>1 DEF OpenCollections
  <2> DEFINE e == events[collection_stack[d]]
  <2>4. PICK e2 : e2 = [ty |-> e.ty, len |-> e.len + 1]
    OBVIOUS
  <2>5. e2.ty = e.ty /\ e2.len = e.len + 1
    BY <2>4
  <2> HIDE DEF e
  <2> QED
    BY <1>3, <2>2, <2>3, <2>5, FrameFacts DEF e
<1>5. Opens \in Seq(FrameStates) /\ Len(Opens) = Len(collection_stack)
  BY <1>2, <1>3, <1>4 DEF Frames
<1>6. (Opens = <<>>) <=> (collection_stack = <<>>)
  BY <1>3, <1>5, EmptyIffZero
<1>7. ASSUME collection_stack # <<>>
      PROVE  Sink!Innermost(Opens) = Frame(events[Last(collection_stack)])
  <2>1. /\ Last(collection_stack) = collection_stack[Len(collection_stack)]
        /\ Len(collection_stack) \in Nat \ {0}
    BY <1>1, <1>7, InnermostFacts
  <2>2. Opens[Len(collection_stack)] = Frame(events[Last(collection_stack)])
    BY <1>2, <2>1 DEF Frames
  <2> QED
    BY <1>5, <2>2 DEF Sink!Innermost
<1>8. ExpectingKey <=> (Opens # <<>> /\ Sink!Innermost(Opens) = "key")
  <2>1. CASE collection_stack = <<>>
    BY <1>6, <2>1 DEF ExpectingKey
  <2>2. CASE collection_stack # <<>>
    <3> DEFINE e == events[Last(collection_stack)]
    <3>1. e \in EventsFor(Len(values)) /\ e.kind = "collection"
      BY <1>1, <2>2, InnermostFacts
    <3>2. ExpectingKey <=> e.ty = "dict" /\ e.len % 2 = 0
      BY <2>2 DEF ExpectingKey
    <3>3. PICK e2 : e2 = [ty |-> e.ty, len |-> e.len + 1]
      OBVIOUS
    <3>4. e2.ty = e.ty /\ e2.len = e.len + 1
      BY <3>3
    <3>5. Sink!Innermost(Opens) = Frame(e)
      BY <1>7, <2>2
    <3> HIDE DEF e
    <3>6. Frame(e) = "key" <=> e.ty = "dict" /\ e.len % 2 = 0
      BY <1>3, <3>1, <3>4, FrameFacts
    <3> QED
      BY <1>6, <2>2, <3>2, <3>5, <3>6
  <2> QED
    BY <2>1, <2>2
<1> QED
  BY <1>2, <1>3, <1>5, <1>6, <1>7, <1>8

(* Another element in the innermost collection.                             *)
LEMMA OpensTurned ==
  ASSUME WInv, pc = "idle"
  PROVE  Sink!Turned(Opens) = Frames(Incremented, collection_stack)
<1> DEFINE m == Len(collection_stack)
           st == Opens
           fr == Frames(Incremented, collection_stack)
<1>1. /\ BufferTypes /\ OpenCollections
  BY IdleFacts
<1>2. /\ st = Frames(events, collection_stack) /\ st \in Seq(FrameStates)
      /\ Len(st) = m /\ m \in Nat
      /\ (st = <<>>) <=> (collection_stack = <<>>)
  BY OpensFacts
<1>3. CASE collection_stack = <<>>
  <2>1. Incremented = events
    BY <1>3 DEF Incremented
  <2>2. Sink!Turned(st) = st
    BY <1>2, <1>3 DEF Sink!Turned
  <2> QED
    BY <1>2, <2>1, <2>2
<1>4. CASE collection_stack # <<>>
  <2> DEFINE l == Last(collection_stack)
             x == Frame(Incremented[l])
             y == Frame(events[l])
  <2>1. /\ l \in 1..Len(events) /\ l = collection_stack[m] /\ m \in Nat \ {0}
        /\ events[l] \in EventsFor(Len(values)) /\ events[l].kind = "collection"
        /\ \A d \in 1..(m - 1) : collection_stack[d] # l
    BY <1>1, <1>4, InnermostFacts
  <2>2. /\ Incremented[l].ty = events[l].ty /\ Incremented[l].len = events[l].len + 1
        /\ \A i \in 1..Len(events) : i # l => Incremented[i] = events[i]
    BY <1>1, <1>4, <2>1, IncrementedFacts
  <2>3. Sink!Innermost(st) = y
    BY <1>4, OpensFacts
  <2>4. Len(values) \in Nat
    BY <1>1 DEF BufferTypes
  <2>5. /\ y \in FrameStates
        /\ y = "array" => x = "array"
        /\ y = "key" => x = "value"
        /\ y = "value" => x = "key"
    BY <2>1, <2>2, <2>4, FrameFacts
  <2>6. ASSUME NEW d \in 1..(m - 1)
        PROVE  fr[d] = st[d]
    <3>1. collection_stack[d] \in 1..Len(events) /\ collection_stack[d] # l /\ d \in 1..m
      BY <1>1, <1>2, <2>1, SeqElements DEF BufferTypes
    <3>2. Incremented[collection_stack[d]] = events[collection_stack[d]]
      BY <2>2, <3>1
    <3> QED
      BY <1>2, <3>1, <3>2 DEF Frames
  <2>7. fr[m] = x /\ st[m] = y
    BY <1>2, <2>1 DEF Frames
  <2>8. DOMAIN fr = 1..m /\ fr = [d \in 1..m |-> fr[d]]
    BY DEF Frames
  <2> HIDE DEF st, fr, x, y, l
  <2>9. [st EXCEPT ![m] = x] = fr
    <3>1. st = [d \in 1..m |-> st[d]]
      BY <1>2
    <3>2. ASSUME NEW d \in 1..m
          PROVE  [st EXCEPT ![m] = x][d] = fr[d]
      <4>1. m \in 1..m
        BY <2>1
      <4>2. CASE d = m
        BY <2>7, <3>1, <4>1, <4>2
      <4>3. CASE d # m
        <5>1. d \in 1..(m - 1)
          BY <2>1, <4>3
        <5> QED
          BY <2>6, <3>1, <4>3, <5>1
      <4> QED
        BY <4>2, <4>3
    <3> QED
      BY <1>2, <2>8, <3>1, <3>2
  <2>10. Sink!Turned(st) = fr
    <3>1. st # <<>>
      BY <1>2, <1>4
    <3>2. CASE y = "array"
      <4>1. Sink!Turned(st) = st
        BY <2>3, <3>1, <3>2 DEF Sink!Turned
      <4>2. [st EXCEPT ![m] = x] = st
        BY <1>2, <2>1, <2>5, <2>7, <3>2
      <4> QED
        BY <2>9, <4>1, <4>2
    <3>3. CASE y = "key"
      <4>1. Sink!Turned(st) = [st EXCEPT ![m] = "value"]
        BY <1>2, <2>3, <3>1, <3>3 DEF Sink!Turned
      <4> QED
        BY <2>5, <2>9, <3>3, <4>1
    <3>4. CASE y = "value"
      <4>1. Sink!Turned(st) = [st EXCEPT ![m] = "key"]
        BY <1>2, <2>3, <3>1, <3>4 DEF Sink!Turned
      <4> QED
        BY <2>5, <2>9, <3>4, <4>1
    <3> QED
      BY <2>5, <3>2, <3>3, <3>4 DEF FrameStates
  <2> QED
    BY <2>10 DEF st, fr
<1> QED
  BY <1>3, <1>4

(* The steps of the sink.                                                   *)
LEMMA SinkAccepts ==
  ASSUME WInv, pc = "idle", NEW e \in Calls, call' = e, verdict' = "ok",
         Sink!LegalIn(Opens, e),
         Frames(events', collection_stack') = Sink!AfterIn(Opens, e)
  PROVE  Sink!SinkNext
<1>1. verdict \in {"none", "ok"}
  BY IdleFacts
<1>2. Sink!Usable
  BY <1>1 DEF Sink!Usable
<1>3. Opens' = Sink!AfterIn(Opens, e)
  BY DEF Opens, Frames
<1>4. Sink!Accept(e)
  BY <1>2, <1>3 DEF Sink!Accept, Sink!Legal, Sink!After, Opens, Frames
<1> QED
  BY <1>4 DEF Sink!SinkNext, Calls

(* A call that is refused.                                                  *)
LEMMA SinkRefuses ==
  ASSUME WInv, pc = "idle", NEW e \in Calls, call' = e, verdict' = "illegal",
         ~Sink!LegalIn(Opens, e)
  PROVE  Sink!SinkNext
<1>1. verdict \in {"none", "ok"}
  BY IdleFacts
<1>2. Sink!Usable
  BY <1>1 DEF Sink!Usable
<1>3. Opens' = <<>>
  BY DEF Opens
<1>4. Sink!Refuse(e)
  BY <1>2, <1>3 DEF Sink!Refuse, Sink!Legal, Opens, Frames
<1> QED
  BY <1>4 DEF Sink!SinkNext, Calls

(* The output fails on a plist that is complete.                            *)
LEMMA SinkBreaks ==
  ASSUME verdict = "ok", call' \in Calls, verdict' = "failed"
  PROVE  Sink!SinkNext
<1>1. Sink!Usable
  BY DEF Sink!Usable
<1>2. Sink!Break
  BY <1>1 DEF Sink!Break, Calls
<1> QED
  BY <1>2 DEF Sink!SinkNext

(* Where no collection is open before or after, nothing is expected.        *)
LEMMA SinkStutters ==
  ASSUME collection_stack = <<>>, collection_stack' = <<>>, verdict' = verdict, call' = call
  PROVE  UNCHANGED Sink!sinkVars
<1>1. Frames(events, collection_stack) = <<>>
  BY DEF Frames
<1>2. Frames(events', collection_stack') = <<>>
  BY DEF Frames
<1>3. Opens' = Opens
  BY <1>1, <1>2 DEF Opens, Frames
<1> QED
  BY <1>3 DEF Sink!sinkVars, Opens, Frames

(* What follows in the buffer is not open.                                  *)
LEMMA FramesOfAppend ==
  ASSUME WInv, pc = "idle", NEW e
  PROVE  Frames(Append(Incremented, e), collection_stack) = Frames(Incremented, collection_stack)
<1>1. BufferTypes /\ OpenCollections
  BY IdleFacts
<1>2. /\ Incremented \in Seq(EventsFor(Len(values))) /\ Len(Incremented) = Len(events)
      /\ Len(events) \in Nat
  BY <1>1, IncrementedFacts DEF BufferTypes
<1>3. ASSUME NEW d \in 1..Len(collection_stack)
      PROVE  Append(Incremented, e)[collection_stack[d]] = Incremented[collection_stack[d]]
  <2>1. collection_stack[d] \in 1..Len(events)
    BY <1>1, SeqElements DEF BufferTypes
  <2> QED
    BY <1>2, <2>1
<1> QED
  BY <1>3 DEF Frames

(* The calls.                                                               *)
LEMMA WriteValueIsSinkStep ==
  ASSUME WInv, NEW v \in Values, WriteValue(v)
  PROVE  Sink!SinkNext
<1> DEFINE e == [kind |-> "value", arg |-> v]
           st == Opens
<1>1. /\ pc = "idle" /\ call' = e
  BY DEF WriteValue, Call
<1>2. e \in Calls /\ e.kind = "value" /\ e.arg = v
  BY DEF Calls
<1>3. ExpectingKey <=> (st # <<>> /\ Sink!Innermost(st) = "key")
  BY <1>1, OpensFacts
<1>4. CASE ExpectingKey /\ v \notin Strings
  <2>1. verdict' = "illegal"
    BY <1>4 DEF WriteValue, Refuse
  <2>2. ~Sink!LegalIn(st, e)
    <3> HIDE DEF e, st
    <3> QED
      BY <1>2, <1>3, <1>4 DEF Sink!LegalIn
  <2> HIDE DEF e
  <2> QED
    BY <1>1, <1>2, <2>1, <2>2, SinkRefuses
<1>5. CASE ~(ExpectingKey /\ v \notin Strings)
  <2>1. PICK index : events' = IF ExpectingKey THEN Incremented
                               ELSE Append(Incremented, ValueAt(index))
    <3> DEFINE i == IF Indices(v) # {} THEN CHOOSE j \in Indices(v) : TRUE ELSE Len(values) + 1
    <3>1. events' = IF ExpectingKey THEN Incremented ELSE Append(Incremented, ValueAt(i))
      BY <1>5 DEF WriteValue
    <3> HIDE DEF i
    <3> QED
      BY <3>1
  <2>2. collection_stack' = collection_stack /\ verdict' = "ok"
    BY <1>5 DEF WriteValue, Accept
  <2>3. Sink!LegalIn(st, e)
    <3> HIDE DEF e, st
    <3> QED
      BY <1>2, <1>3, <1>5 DEF Sink!LegalIn
  <2>4. Sink!AfterIn(st, e) = Frames(Incremented, collection_stack)
    <3>1. Sink!Turned(st) = Frames(Incremented, collection_stack)
      BY <1>1, OpensTurned
    <3> HIDE DEF e, st
    <3> QED
      BY <1>2, <3>1 DEF Sink!AfterIn
  <2>5. Frames(events', collection_stack') = Frames(Incremented, collection_stack)
    <3>1. CASE ExpectingKey
      BY <2>1, <2>2, <3>1
    <3>2. CASE ~ExpectingKey
      <4> DEFINE i == ValueAt(index)
      <4>1. events' = Append(Incremented, i)
        BY <2>1, <3>2
      <4> HIDE DEF i
      <4> QED
        BY <1>1, <2>2, <4>1, FramesOfAppend
    <3> QED
      BY <3>1, <3>2
  <2> HIDE DEF e, st
  <2> QED
    BY <1>1, <1>2, <2>2, <2>3, <2>4, <2>5, SinkAccepts DEF st
<1> QED
  BY <1>4, <1>5

(* A sequence with one element more.                                        *)
IsRow(a, m) == a = [d \in 1..m |-> a[d]]

(* Such a row is what Append makes of the shorter one.                      *)
LEMMA AppendIs ==
  ASSUME NEW m \in Nat, NEW a, NEW b, NEW x, IsRow(a, m), IsRow(b, m + 1),
         \A d \in 1..m : b[d] = a[d], b[m + 1] = x
  PROVE  b = Append(a, x)
<1>1. Len(a) = m /\ Append(a, x) = [d \in 1..(m + 1) |-> IF d = m + 1 THEN x ELSE a[d]]
  BY DEF IsRow
<1>2. ASSUME NEW d \in 1..(m + 1)
      PROVE  b[d] = IF d = m + 1 THEN x ELSE a[d]
  <2>1. d # m + 1 => d \in 1..m
    OBVIOUS
  <2> QED
    BY <2>1
<1> QED
  BY <1>1, <1>2 DEF IsRow

(* The start of a collection.                                               *)
LEMMA WriteStartCollectionIsSinkStep ==
  ASSUME WInv, NEW ty \in {"array", "dict"}, WriteStartCollection(ty)
  PROVE  Sink!SinkNext
<1> DEFINE e == [kind |-> ty, arg |-> 0]
           st == Opens
           fr == IF ty = "array" THEN "array" ELSE "key"
           m == Len(collection_stack)
<1>1. /\ pc = "idle" /\ call' = e
  BY DEF WriteStartCollection, Call
<1>2. e \in Calls /\ e.kind = ty
  BY DEF Calls
<1>3. ExpectingKey <=> (st # <<>> /\ Sink!Innermost(st) = "key")
  BY <1>1, OpensFacts
<1>4. CASE ExpectingKey
  <2>1. verdict' = "illegal"
    BY <1>4 DEF WriteStartCollection, Refuse
  <2>2. ~Sink!LegalIn(st, e)
    <3> HIDE DEF e, st
    <3> QED
      BY <1>2, <1>3, <1>4 DEF Sink!LegalIn
  <2> HIDE DEF e
  <2> QED
    BY <1>1, <1>2, <2>1, <2>2, SinkRefuses
<1>5. CASE ~ExpectingKey
  <2>1. /\ events' = Append(Incremented, Collection(ty))
        /\ collection_stack' = Append(collection_stack, Len(events) + 1) /\ verdict' = "ok"
    BY <1>5 DEF WriteStartCollection, Accept
  <2>2. Sink!LegalIn(st, e)
    <3> HIDE DEF e, st
    <3> QED
      BY <1>2, <1>3, <1>5 DEF Sink!LegalIn
  <2>3. Sink!AfterIn(st, e) = Append(Frames(Incremented, collection_stack), fr)
    <3>1. Sink!Turned(st) = Frames(Incremented, collection_stack)
      BY <1>1, OpensTurned
    <3> HIDE DEF e, st
    <3>2. CASE ty = "array"
      BY <1>2, <3>1, <3>2 DEF Sink!AfterIn
    <3>3. CASE ty = "dict"
      BY <1>2, <3>1, <3>3 DEF Sink!AfterIn
    <3> QED
      BY <3>2, <3>3
  <2>4. /\ BufferTypes /\ OpenCollections
    BY <1>1, IdleFacts
  <2>5. /\ Incremented \in Seq(EventsFor(Len(values))) /\ Len(Incremented) = Len(events)
        /\ Len(events) \in Nat /\ m \in Nat /\ collection_stack \in Seq(Nat)
    BY <2>4, IncrementedFacts DEF BufferTypes
  <2> DEFINE c == Collection(ty)
             n == Len(events) + 1
             evs == Append(Incremented, c)
             stack == Append(collection_stack, n)
  <2>6. n \in Nat /\ evs[n] = c
    <3> HIDE DEF c
    <3> QED
      BY <2>5
  <2>7. Frame(c) = fr
    <3>1. c.ty = ty /\ c.len = 0 /\ 0 % 2 = 0
      BY DEF Collection
    <3> HIDE DEF c
    <3> QED
      BY <3>1 DEF Frame
  <2> HIDE DEF c, n, fr
  <2>8. Len(stack) = m + 1 /\ stack[m + 1] = n /\ \A d \in 1..m : stack[d] = collection_stack[d]
    BY <2>5, <2>6, AppendFacts
  <2>9. Frames(evs, collection_stack) = Frames(Incremented, collection_stack)
    BY <1>1, FramesOfAppend
  <2> DEFINE a == Frames(evs, collection_stack)
             b == Frames(evs, stack)
  <2>10. /\ DOMAIN a = 1..m /\ \A d \in 1..m : a[d] = Frame(evs[collection_stack[d]])
         /\ a = [d \in 1..m |-> a[d]]
    BY DEF Frames
  <2>11. /\ DOMAIN b = 1..(m + 1) /\ \A d \in 1..(m + 1) : b[d] = Frame(evs[stack[d]])
         /\ b = [d \in 1..(m + 1) |-> b[d]]
    BY <2>8 DEF Frames
  <2> HIDE DEF a, b, evs, stack, m
  <2>12. \A d \in 1..m : b[d] = a[d]
    <3>1. \A d \in 1..m : d \in 1..(m + 1)
      BY <2>5
    <3> QED
      BY <2>8, <2>10, <2>11, <3>1
  <2>13. b[m + 1] = fr
    <3>1. m + 1 \in 1..(m + 1)
      BY <2>5
    <3> QED
      BY <2>6, <2>7, <2>8, <2>11, <3>1
  <2>14. b = Append(a, fr)
    <3>1. m \in Nat /\ IsRow(a, m) /\ IsRow(b, m + 1)
      BY <2>5, <2>10, <2>11 DEF IsRow
    <3> QED
      BY <2>12, <2>13, <3>1, AppendIs, Zenon
  <2>15. Frames(events', collection_stack') = b
    BY <2>1 DEF b, evs, stack, c, n
  <2>16. Frames(events', collection_stack') = Sink!AfterIn(st, e)
    BY <2>3, <2>9, <2>14, <2>15 DEF a
  <2> HIDE DEF e, st
  <2> QED
    BY <1>1, <1>2, <2>1, <2>2, <2>16, SinkAccepts DEF st
<1> QED
  BY <1>4, <1>5

(* An end leaves the events as they are, up to the collection it closes.    *)
LEMMA EndedEvents ==
  ASSUME WInv, pc = "idle", WriteEndCollection, collection_stack # <<>>
  PROVE  \A p \in 1..Len(events) : p # Last(collection_stack) => events'[p] = events[p]
<1> DEFINE i == Last(collection_stack)
           c == events[i]
           skip == Len(events) - i
           pairs == c.len \div 2
           start == Len(dictionary_key_events) - pairs
           E == EventsFor(Len(values))
<1>1. BufferTypes /\ OpenCollections
  BY IdleFacts
<1>2. /\ i \in 1..Len(events) /\ c.kind = "collection" /\ c \in E
  BY <1>1, InnermostFacts
<1>3. Len(values) \in Nat /\ Len(events) \in Nat /\ events \in Seq(E)
  BY <1>1 DEF BufferTypes
<1>4. c.len \in Nat /\ pairs \in Nat
  BY <1>2, <1>3, EventFacts
<1> HIDE DEF c, pairs
<1>5. skip \in Nat /\ DictSkip(skip, pairs) \in Nat
  BY <1>2, <1>3, <1>4 DEF DictSkip
<1>6. ASSUME NEW len, NEW end, NEW p \in 1..Len(events), p # i
      PROVE  Closed(i, len, end)[p] = events[p]
  BY <1>3, <1>6 DEF Closed
<1>7. CASE events' = Closed(i, c.len, skip)
  BY <1>6, <1>7
<1>8. CASE events' = Closed(i, pairs, DictSkip(skip, pairs))
                       \o <<DictionaryKeys(pairs)>>
                       \o [k \in 1..pairs |-> ValueAt(dictionary_key_events[start + k])]
  <2> DEFINE evs == Closed(i, pairs, DictSkip(skip, pairs))
             one == <<DictionaryKeys(pairs)>>
             more == [k \in 1..pairs |-> ValueAt(dictionary_key_events[start + k])]
             M == {ValueAt(dictionary_key_events[start + k]) : k \in 1..pairs}
             A == E \cup M
  <2>1. evs \in Seq(E) /\ Len(evs) = Len(events)
    BY <1>1, <1>2, <1>4, <1>5, ClosedType DEF c
  <2>2. DictionaryKeys(pairs) \in E
    BY <1>3, <1>4, EventsMade
  <2>3. more \in [1..pairs -> M]
    OBVIOUS
  <2>4. \A p \in 1..Len(events) : p # i => evs[p] = events[p]
    BY <1>6
  <2>5. events' = evs \o one \o more
    BY <1>8
  <2> HIDE DEF evs, E, M, more, i, skip
  <2>6. evs \in Seq(A) /\ one \in Seq(A) /\ more \in Seq(A)
    <3>1. E \subseteq A /\ M \subseteq A
      OBVIOUS
    <3>2. more \in Seq(M)
      BY <1>4, <2>3
    <3>3. one \in Seq(A)
      BY <2>2, <3>1
    <3> HIDE DEF A
    <3> QED
      BY <2>1, <3>1, <3>2, <3>3, SeqOfMore
  <2> HIDE DEF one, A
  <2> DEFINE two == evs \o one
  <2>7. /\ two \in Seq(A) /\ Len(two) = Len(evs) + Len(one)
        /\ \A p \in 1..Len(evs) : two[p] = evs[p]
    BY <2>6, ConcatFacts
  <2> HIDE DEF two
  <2>8. \A p \in 1..Len(two) : (two \o more)[p] = two[p]
    BY <2>6, <2>7, ConcatFacts
  <2>9. ASSUME NEW p \in 1..Len(events), p # i
        PROVE  events'[p] = events[p]
    <3>1. p \in 1..Len(evs) /\ p \in 1..Len(two)
      BY <1>3, <2>1, <2>6, <2>7
    <3> QED
      BY <2>4, <2>5, <2>7, <2>8, <2>9, <3>1 DEF two
  <2> QED
    BY <2>9 DEF i
<1> QED
  BY <1>7, <1>8 DEF WriteEndCollection, c, pairs

(* The end of a collection.                                                 *)
LEMMA WriteEndCollectionIsSinkStep ==
  ASSUME WInv, WriteEndCollection
  PROVE  Sink!SinkNext
<1> DEFINE e == [kind |-> "end", arg |-> 0]
           st == Opens
           m == Len(collection_stack)
<1>1. /\ pc = "idle" /\ call' = e
  BY DEF WriteEndCollection, Call
<1>2. e \in Calls /\ e.kind = "end"
  BY DEF Calls
<1>3. /\ st \in Seq(FrameStates) /\ Len(st) = m /\ m \in Nat
      /\ (st = <<>>) <=> (collection_stack = <<>>)
      /\ st = Frames(events, collection_stack)
      /\ BufferTypes /\ OpenCollections
  BY <1>1, OpensFacts, IdleFacts
<1>4. CASE collection_stack = <<>>
  <2>1. verdict' = "illegal"
    BY <1>4 DEF WriteEndCollection, Refuse
  <2>2. ~Sink!LegalIn(st, e)
    <3> HIDE DEF e, st
    <3> QED
      BY <1>2, <1>3, <1>4 DEF Sink!LegalIn
  <2> HIDE DEF e
  <2> QED
    BY <1>1, <1>2, <2>1, <2>2, SinkRefuses
<1>5. CASE collection_stack # <<>>
  <2> DEFINE i == Last(collection_stack)
             c == events[i]
  <2>1. /\ i \in 1..Len(events) /\ c.kind = "collection" /\ c \in EventsFor(Len(values))
        /\ m \in Nat \ {0}
        /\ \A d \in 1..(m - 1) : collection_stack[d] # i
        /\ Len(Front(collection_stack)) = m - 1
        /\ \A d \in 1..(m - 1) : Front(collection_stack)[d] = collection_stack[d]
        /\ Len(values) \in Nat
    BY <1>3, <1>5, InnermostFacts DEF BufferTypes
  <2>2. Sink!Innermost(st) = Frame(c)
    BY <1>1, <1>5, OpensFacts
  <2>3. c.ty \in {"array", "dict"} /\ c.len \in Nat
    BY <2>1, EventFacts
  <2>4. CASE c.ty = "dict" /\ c.len % 2 # 0
    <3>1. verdict' = "illegal"
      BY <1>5, <2>4 DEF WriteEndCollection, Refuse
    <3>2. Frame(c) = "value"
      BY <2>3, <2>4 DEF Frame
    <3>3. ~Sink!LegalIn(st, e)
      <4> HIDE DEF e, st, c
      <4> QED
        BY <1>2, <2>2, <3>2 DEF Sink!LegalIn
    <3> HIDE DEF e
    <3> QED
      BY <1>1, <1>2, <3>1, <3>3, SinkRefuses
  <2>5. CASE ~(c.ty = "dict" /\ c.len % 2 # 0)
    <3>1. \A p \in 1..Len(events) : p # i => events'[p] = events[p]
      BY <1>1, <1>5, <2>5, EndedEvents
    <3>2. collection_stack' = Front(collection_stack) /\ verdict' = "ok"
      BY <1>5, <2>5 DEF WriteEndCollection, Accept
    <3>3. Frame(c) # "value"
      BY <2>3, <2>5 DEF Frame
    <3>4. Sink!LegalIn(st, e)
      <4> HIDE DEF e, st, c
      <4> QED
        BY <1>2, <1>3, <1>5, <2>2, <3>3 DEF Sink!LegalIn
    <3>5. Sink!AfterIn(st, e) = SubSeq(st, 1, m - 1)
      <4> HIDE DEF e, st, c
      <4> QED
        BY <1>2, <1>3 DEF Sink!AfterIn
    <3> DEFINE a == Frames(events, collection_stack)
               b == Frames(events', collection_stack')
    <3>6. /\ DOMAIN a = 1..m /\ \A d \in 1..m : a[d] = Frame(events[collection_stack[d]])
          /\ a = st
      BY <1>3 DEF Frames
    <3>7. /\ b = [d \in 1..(m - 1) |-> b[d]]
          /\ \A d \in 1..(m - 1) : b[d] = Frame(events'[Front(collection_stack)[d]])
      BY <2>1, <3>2 DEF Frames
    <3>8. ASSUME NEW d \in 1..(m - 1)
          PROVE  b[d] = st[d]
      <4>1. d \in 1..m
        BY <1>3
      <4>2. collection_stack[d] \in 1..Len(events)
        BY <1>3, <4>1, SeqElements DEF BufferTypes
      <4>3. events'[collection_stack[d]] = events[collection_stack[d]]
        BY <2>1, <3>1, <4>2
      <4>4. b[d] = Frame(events'[collection_stack[d]])
        BY <2>1, <3>7
      <4> HIDE DEF a, b, st, m
      <4> QED
        BY <3>6, <4>1, <4>3, <4>4
    <3> HIDE DEF a, b
    <3>9. SubSeq(st, 1, m - 1) = [d \in 1..(m - 1) |-> st[d]]
      <4> HIDE DEF st, m
      <4> QED
        BY <1>3, <2>1
    <3>10. b = SubSeq(st, 1, m - 1)
      <4> HIDE DEF st, m
      <4> QED
        BY <3>7, <3>8, <3>9
    <3>11. Frames(events', collection_stack') = Sink!AfterIn(st, e)
      BY <3>5, <3>10 DEF b
    <3> HIDE DEF e, st
    <3> QED
      BY <1>1, <1>2, <3>2, <3>4, <3>11, SinkAccepts DEF st
  <2> QED
    BY <2>4, <2>5
<1> QED
  BY <1>4, <1>5

(* A step of write_plist fails, or the client does not see it.              *)
Unseen == collection_stack' = collection_stack /\ verdict' = verdict /\ call' = call

(* A step of write_plist that succeeds shows nothing to the client.         *)
LEMMA ContinueUnseen ==
  ASSUME NEW where, Continue(where)
  PROVE  Unseen
  BY DEF Continue, Unseen, buffer, history

(* The value is written, has been before, or the output fails.              *)
LEMMA WritePlistValueUnseen ==
  ASSUME WInv, Writing, NEW i \in 1..Len(values), WritePlistValue(i)
  PROVE  Panic \/ IOError \/ Unseen
<1>0. values[i].state \in {"unassigned", "written", "unwritten"}
  <2>1. values \in Seq(ValueRecords)
    BY WritingFacts DEF TypeOK, ValueRecords
  <2>2. values[i] \in ValueRecords
    BY <2>1, SeqElements
  <2> QED
    BY <2>2 DEF ValueRecords
<1>1. CASE values[i].state = "unassigned"
  BY <1>1 DEF WritePlistValue
<1>2. CASE values[i].state = "written"
  BY <1>2, ContinueUnseen DEF WritePlistValue
<1>3. CASE values[i].state = "unwritten"
  BY <1>3, ContinueUnseen DEF WritePlistValue
<1> QED
  BY <1>0, <1>1, <1>2, <1>3

(* What any step of write_plist shows to the client.                        *)
LEMMA WritePlistUnseen ==
  ASSUME WInv, WritePlist
  PROVE  Panic \/ IOError \/ Unseen
<1>1. CASE WriteHeader
  BY <1>1 DEF WriteHeader, Unseen, history
<1>2. CASE WriteObject
  <2> DEFINE e == todo[cursor]
  <2>1. CASE e.kind = "keys"
    BY <1>2, <2>1, ContinueUnseen DEF WriteObject
  <2>2. CASE e.kind = "value"
    <3>1. /\ pc = "objects" /\ Writing /\ cursor <= Len(todo) /\ WritePlistValue(e.index)
      BY <1>2, <2>2 DEF WriteObject, Writing
    <3>2. e \in EventsFor(Len(values))
      BY <3>1, WritingFacts, SeqElements
    <3>3. e.index \in 1..Len(values)
      BY <2>2, <3>1, <3>2, WritingFacts, EventFacts
    <3> HIDE DEF e
    <3> QED
      BY <3>1, <3>3, WritePlistValueUnseen
  <2>3. CASE e.kind = "collection"
    BY <1>2, <2>3, ContinueUnseen DEF WriteObject
  <2> QED
    BY <1>2, <2>1, <2>2, <2>3 DEF WriteObject
<1>3. CASE WriteRef
  BY <1>3, ContinueUnseen DEF WriteRef
<1>4. CASE RefsWritten
  BY <1>4, ContinueUnseen DEF RefsWritten
<1>5. CASE WriteKey
  <2> DEFINE i == todo[Head(pending)].index
  <2>1. pc = "keys" /\ pending # <<>> /\ Writing /\ WritePlistValue(i)
    BY <1>5 DEF WriteKey, Writing
  <2>2. i \in 1..Len(values)
    <3>1. /\ \A j \in 1..Len(pending) : pending[j] \in KeysAt
          /\ \A q \in KeysAt : todo[q].index \in 1..Len(values)
      BY <2>1, AtHandFacts DEF AtHand
    <3>2. pending \in Seq(1..Len(todo))
      BY <2>1, WritingFacts
    <3>3. Head(pending) = pending[1] /\ 1 \in 1..Len(pending)
      BY <2>1, <3>2, EmptyIffZero
    <3> QED
      BY <3>1, <3>3
  <2> HIDE DEF i
  <2> QED
    BY <2>1, <2>2, WritePlistValueUnseen
<1>6. CASE KeysWritten
  BY <1>6, ContinueUnseen DEF KeysWritten
<1>7. CASE WriteTrailer
  BY <1>7 DEF WriteTrailer, Unseen, buffer
<1> QED
  BY <1>1, <1>2, <1>3, <1>4, <1>5, <1>6, <1>7 DEF WritePlist

(* Writing the plist breaks the sink or leaves it alone.                    *)
LEMMA WritePlistIsSinkStep ==
  ASSUME WInv, WInv', WritePlist
  PROVE  Sink!SinkNext \/ UNCHANGED Sink!sinkVars
<1>1. pc \in {"header", "objects", "refs", "keys"}
  BY DEF WritePlist, WriteHeader, WriteObject, WriteRef, RefsWritten, WriteKey, KeysWritten,
         WriteTrailer
<1>2. verdict = "ok" /\ collection_stack = <<>> /\ call \in Calls
  BY <1>1 DEF WInv, Phases, Writing
<1>3. ~Panic
  BY DEF WInv, Phases, Panic
<1>4. CASE IOError
  <2>1. verdict' = "failed" /\ call' \in Calls
    BY <1>2, <1>4 DEF IOError, history
  <2> QED
    BY <1>2, <2>1, SinkBreaks
<1>5. CASE Unseen
  BY <1>2, <1>5, SinkStutters DEF Unseen
<1> QED
  BY <1>3, <1>4, <1>5, WritePlistUnseen

(* Every step of the writer is one of the sink, or leaves it alone.         *)
LEMMA NextIsSinkStep ==
  ASSUME WInv, WInv', [Next]_vars
  PROVE  Sink!SinkNext \/ UNCHANGED Sink!sinkVars
<1>1. ASSUME NEW ty \in {"array", "dict"}, WriteStartCollection(ty) PROVE Sink!SinkNext
  BY <1>1, WriteStartCollectionIsSinkStep
<1>2. CASE WriteEndCollection
  BY <1>2, WriteEndCollectionIsSinkStep
<1>3. ASSUME NEW v \in Values, WriteValue(v) PROVE Sink!SinkNext
  BY <1>3, WriteValueIsSinkStep
<1>4. CASE WritePlist
  BY <1>4, WritePlistIsSinkStep
<1>5. CASE UNCHANGED vars
  BY <1>5 DEF vars, buffer, history, Sink!sinkVars
<1> QED
  BY <1>1, <1>2, <1>3, <1>4, <1>5 DEF Next, Rest

(* The binary writer accepts exactly the calls that continue a well-formed  *)
(* event stream, whatever it buffers and wherever the output fails: a key   *)
(* that is not a string, an end that leaves a key without its value or has  *)
(* nothing to close are refused (write_start_collection,                    *)
(* write_end_collection and write_value of stream/binary_writer.rs), and    *)
(* writing the plist changes nothing of what the client may do next.        *)
THEOREM ImplementsSink == Spec => AcceptsWellFormed
<1>1. Init => Sink!SinkInit
  <2> SUFFICES ASSUME Init PROVE Sink!SinkInit
    OBVIOUS
  <2>1. /\ collection_stack = <<>> /\ verdict = "none"
        /\ call = [kind |-> "end", arg |-> 0]
    BY DEF Init
  <2>2. [d \in 1..Len(collection_stack) |-> Frame(events[collection_stack[d]])] = <<>>
    BY <2>1
  <2> QED
    BY <2>1, <2>2 DEF Sink!SinkInit
<1>2. WInv /\ WInv' /\ [Next]_vars => [Sink!SinkNext]_Sink!sinkVars
  BY NextIsSinkStep
<1> QED
  BY <1>1, <1>2, InitKeeps, NextKeeps, PTL DEF Spec, AcceptsWellFormed, Sink!SinkSpec

=============================================================================
