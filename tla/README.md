# A TLA+ verification project for rust-plist

rust-plist reads and writes property lists: trees of dictionaries, arrays and
scalar values. Everything in the crate meets in one place, a *stream of events*
(`StartArray`, `StartDictionary`, scalar values, `EndCollection`): a reader is
an iterator of events, a writer is a sink of events, and `Value`, serde's
`Serializer` and `Deserializer` stand between the two. The program is
sequential; what is hard about it is not concurrency but **state kept across
calls**: every reader and writer is a machine that is advanced one event at a
time, that holds a stack, flags and buffers between calls, that is fed arbitrary
files or arbitrary sequences of calls, and whose input or output may fail at
any byte.

The modules here are translated from the code under `src/src/`. TLC checks them
on small instances (`*.cfg`), TLAPS proves the theorems of section 4 for all.

## 1. Inventory

| component | source | state | operations | modelled |
|---|---|---|---|---|
| event vocabulary, `Writer` | `stream/mod.rs` | – | the shape of a stream; `write_*` | `EventStream`, `EventSink` |
| binary reader | `stream/binary_reader.rs` | `stack`, `object_on_stack`, `object_offsets`, `ref_size`, `reader.pos` | `next` | `BinaryReader`, `BinaryBytes` |
| binary writer | `stream/binary_writer.rs` | `events`, `dictionary_key_events`, `values`, `collection_stack`, `num_objects`, `writer.pos` | `write_*`, `write_plist` | `BinaryWriter`, `BinaryEncoding` |
| XML writer | `stream/xml_writer.rs` | `stack`, `expecting_key`, `pending_collection`, `started_plist`, `write_root_element` | `write_*` | `XmlWriter` |
| XML reader | `stream/xml_reader.rs` | `state.xml_reader`, `started`, `finished` | `next` | `XmlReader` |
| value builder | `value.rs` (`Builder`) | `stack` of partly built values | `write_*`, `finish` | `ValueBuilder` |
| events of a value | `stream/mod.rs` (`Events`) | `stack` of iterators | `next` | `ValueEvents` |
| `Dictionary` | `dictionary.rs` | an `IndexMap` | insertion, lookup, removal, sorting, entries | `IndexMap`, `Dictionary`, `StringMap` |
| format detection | `stream/mod.rs` (`Reader`) | uninitialised, or one of three readers | `next` | `StreamReader` |
| ASCII reader | `stream/ascii_reader.rs` | one character of lookahead, position | `next` | `AsciiReader` |
| serializer, deserializer | `ser.rs`, `de.rs` | `option_mode`, pending field name; peeked event, `in_plist_value` | serde's callbacks | `Serializer`, `Deserializer` |
| integers, dates, uids, data | `integer.rs`, `date.rs`, `uid.rs`, `data.rs` | – | conversions | ranges and widths in `BinaryEncoding` |
| errors, macros, crate root | `error.rs`, `macros.rs`, `lib.rs` | – | – | not modelled |

How they interact. `Value::from_reader` drives `stream::Reader`, which peeks at
the first eight bytes and then delegates each `next` to the reader of the
format; the events are written to `Builder`, which stops at the first error.
`Value::to_writer_*` iterates over `Events` and writes each to a writer.
`Serializer` writes events to any `Writer`; `Deserializer` takes them from any
iterator. All calls are synchronous; nothing is shared but what the caller owns.

What makes each correct, and what is hard about it:

* **Binary reader.** The file is a table of objects that refer to each other by
  number. It is untrusted, and may be shared and cyclic. The walk must deliver the tree the
  graph unfolds to, announce lengths that agree with what follows, stop at
  cycles and only at cycles, and end. Hard: `object_on_stack` duplicates the
  stack; references are pushed in reverse, and for dictionaries interleaved;
  `ref_size` doubles as the flag that the trailer has been read; every length is a
  number from the file, multiplied, doubled and compared with a position that only
  moves on seek; widths of one to sixteen bytes, signed or not.
* **Binary writer.** Objects must be numbered before they are written, so a
  whole plist is buffered, deduplicated and written when its root is complete.
  Hard: `skip` must cover values, the `DictionaryKeys` event and keys, at every
  nesting; keys of all open dictionaries share a buffer; a value may be met
  first as key or value, first when numbered or first when written; the writer is
  used again for the next plist; every write may fail.
* **XML writer.** Collections are written one call late, so that empty ones
  become empty elements. Hard: checks made late must be those that would have
  been made at once; one flag `expecting_key` serves all open elements; the
  prologue and `</plist>` bypass the XML library.
* **XML reader.** Must keep events balanced whatever the document is, take the
  content of values over comments and split texts, and stop after an error.
* **Value builder and iterator.** A start is pushed with no look at what is
  below it; repeated keys overwrite; the iterator of a dictionary is put back
  beneath the value that follows its key.
* **Dictionary.** A map that keeps an order. Hard: removal moves the last entry
  into the gap; the order is the one in which keys are written, and `sort_keys` is
  to make it consistent.
* **Format detection.** Readers are tried one after the other on the same input.
  Hard: the input may fail at each step and must be put back each time; each
  reader leaves it where it stopped; an error of the XML reader means either
  that the input is not XML or that it is broken XML.
* **ASCII reader.** One character of lookahead decides where strings and comments
  begin and end. Hard: who consumes which character, in five loops; surrogates
  written as two escapes; a half-filled lookahead after a failed read.
* **Serializer, deserializer.** An `Option` is left out in a struct field and at
  the root and is a dictionary elsewhere, so both keep an `option_mode`. Hard: it
  must be restored after every nested value, error or not; both sides must agree
  under every nesting; a field name is held back until its value writes something;
  visitors decide how much of a collection is taken; dates and uids are told from
  strings and numbers inside a `Value` only, so the deserializer has to know
  whether it is in one.

`PROJECT.json` lists each hazard at its line, with the properties that cover it.

## 2. The modules

**Abstract specifications.**

* `EventStream`: what a *source* of events promises. Each open collection has a
  number of elements due; an element may only be delivered where one is due, an
  `EndCollection` only when none is; one root; nothing after an error.
* `EventSink`: what a *consumer* promises. Each open collection expects an
  element, a key or a value; a call is accepted exactly when it is legal,
  refused as "illegal" exactly when it is not, or "failed" for reasons that are
  not its own (the output).

**`BinaryReader`** (with `MCBinaryReader` for its inputs). One action is one call
of `next`. An object is a value, a collection with its references, or
unreadable (which stands for every reason the walk rejects an object: unknown
type byte, bad length, offset past the trailer). `ChildRefs` is
`child_object_refs`, in the order of the code. `ReadObject` is the part of
`read_next` after a reference is popped. Errors are taken wherever the code can
return one: the two halves of the header (before and after `ref_size` is stored),
references out of range, unreadable objects, recursion, and, when the file is
`faulty`, any read. `events` and `returned` record what was returned.
`phase` and `open` are the refinement mapping to `EventStream`.

**`BinaryWriter`.** A call of the trait is one action; when it completes the
root, `write_plist` runs as a sequence of actions, one for each write that may
fail: header, one object, one reference, one key, trailer. `pc` is the place in
`write_plist`, `todo` is `events_vec`, `pending` is what is left of the events
of the collection being written. `Panic` is the outcome of every
`unreachable!`, `assert!` and underflow in the code. Positions count objects
instead of bytes. The client stops at the first error, as those in the crate do.

**`BinaryEncoding`, `BinaryBytes`** (with `MCBinaryBytes` for its files). The first is
what the writer makes of a table of objects, as bytes, in pure operators:
`WritePlist` and what it calls. The second is the reader over any bytes: each
action is one read of the input with the checks before it (`SeekToObject` is the
token, `ReadLength` the length, `ReadRefs` and `ReadValueRefs` the two lists of a
dictionary, `DoubleLength` the vector for both). `pos` is `PosReader.pos`, `at`
where the input really is. A call of `next` is several actions, and with
`SeenStack`, `SeenFlags` and `Called` as the refinement mapping each call is one
step of `BinaryReader` over the table that the bytes encode.
*Scaling.* A byte of a *number* has `Base` values instead of 256, and lengths
below `Inline` instead of 15 fit in the token; everything else (tokens, widths,
the shape of the trailer, the bytes of the file) is as in the code. The
boundaries 255/256, 65535/65536, 2^31, 2^63 and so on are then those of
`Base`, which must be even for a sign. A multiplication beyond a `u64` fails in
the code (`checked_mul`) and is beyond every trailer in the model;
`Allocatable_Wrapping` is the mutant where it wraps.

**`XmlWriter`.** A call is `Submit`, then an action for the pending collection if
there is one, then an action for the call itself. The output is a sequence of
XML tokens. `FaultyIO` lets every write fail; `EmptyKeys` lets the client open
and close a collection at a key position (see the findings).

**`XmlReader`** (with `MCXml` for its documents). One action is one iteration
of the loop of `read_next` or `read_content`. The XML parser is external: it is
modelled as the code configures it (end names checked, texts not trimmed, empty
elements expanded).

**`ValueBuilder`, `ValueEvents`.** One action is one call. `StackItem` is a
record; the variants of the code are its kinds.

**`IndexMap`, `Dictionary`, `StringMap`** (with `MCValue` for values). `IndexMap` has
what the external crate does with its entries, as operators; `ValueBuilder` and
`Deserializer` use them too. `Dictionary` has an action for every operation;
`call` and `answer` are what was asked and returned. `StringMap` is what a
dictionary promises, a map without an order; the mapping takes a key to the
value of its entry.

**`AsciiGrammar`, `AsciiReader`** (with `MCAsciiReader` for its documents). A
document is a sequence of characters; one of them stands for those that are not
ASCII. `AsciiReader` follows the loops of the code, one pass with its `advance`
an action; `loop` names the loop that is next. `AsciiGrammar` holds what
characters and escapes stand for, and `Lexed`, a definition of the tokens over
positions of the document, without lookahead and loops, with which the reader is
compared. A decoded character is kept as the escape it was written as and the
character set that decodes it.

**`StreamReader`** (with `MCStreamReader` for its documents). Composes the three
readers, as `INSTANCE`s, with `Reader::init`: one action for each step of it that
uses the input (rewind, magic, the first call of the XML reader, rewind, the
first call of the ASCII reader), the first call of the XML reader failing like
any other. A document is one input as each of the readers
sees it: an object table, XML tokens, characters. `faults` is how often the input
still fails; `position` is where it is, so that a reader that is started without
a rewind starts in the wrong place. `misread` remembers that a failure was taken
for text that is not XML.

**`Serializer`.** The call stack is a variable: frames for what is still to be
done. One action is one call of the writer, of a `serialize_*` method, or a
return. A value is a record of serde's data model. `option_mode` is the code's,
with the pending field name in it.

**`Deserializer`.** Likewise, over a sequence of events. A type is a record that
names the `deserialize_*` method it calls; what the code that serde derives does
with what it is given (external) is part of the frames. The type `value` is
`Value`: it enters `in_plist_value` and takes whatever is there.

**Compositions.** `BinaryRoundTrip`, `XmlRoundTrip`, `ValueRoundTrip` and
`SerdeRoundTrip` (with `MCSerde` for types and values) put a writer and a reader,
a builder and an iterator, or a serializer and a deserializer together and
compare what comes out with what went in. `SerdeRoundTrip` also hands the
deserializer sequences of events that differ in one place. `XmlRoundTrip` gives
the reader either what the writer wrote or a document that none wrote. In
`ValueRoundTrip` a client may change the dictionary that was built before its
events are asked for: the `Dictionary` is composed with builder and iterator.

## 3. What is checked

| run | question | bounds |
|---|---|---|
| `binary_reader` | Does the walk deliver the unfolding of the object graph, stop at cycles only, implement the event stream, and end? | all graphs of 3 objects with ≤ 2 references each, all roots of ≤ 4 references over leaves, broken headers and failing reads |
| `binary_round_trip` | Does the writer accept exactly the well-formed streams, keep its documented layout, write a complete object table, never panic, and return? Is what is written read back? | ≤ 7 calls, one plist or several on one writer, 2 strings and 1 other value, failing output |
| `binary_bytes` | Is the table that was encoded the one that is read, at every width? Whatever the bytes, how large are the vectors, where do objects end, and are the flags that are looked up in their table? | `Base` 4, `Inline` 2: scalars and lengths on both sides of every width, collections of 0 to 17 references, nested, shared and cyclic tables, in and out of order, encoded by this writer and with wider numbers; every change of one byte of 11 files to any of 17 bytes, every beginning and end of them |
| `xml_round_trip` | Does the writer accept exactly the well-formed streams; does its output nest? Is what is written read back? In any document, do events follow the elements, and does reading end? | ≤ 6 calls, one value of each kind, with and without root element, failing output; all documents of ≤ 3 tokens, and all that are one edit (delete, duplicate, replace) away from a 20-token plist |
| `value_round_trip` | Is the value built the one described? Does a dictionary answer as a map, whatever was done to it? Do its events build it again, in order if it was sorted? | ≤ 7 calls, 2 strings and 1 other value; ≤ 2 changes, of 3 keys |
| `serde_round_trip` | Is what is written one plist; does the same value come back; is anything else refused; are the modes restored? | all types nested to depth 3 with their values; `Value`s to depth 2, and beside every type of leaf; for those of depth 1, every drop, repetition and replacement of one event; a writer that fails at any call |
| `ascii_reader` | Are the events those of the grammar, and does reading end? | all documents of ≤ 4 characters out of 13, all comments of ≤ 7, all documents one edit away from one with all of the syntax; one failing read |
| `stream_reader` | Are the events those of the document, however often detection fails and begins again; does a client that calls again get them all? | documents of the three encodings, whole and broken (ASCII: all of ≤ 3 characters out of 5, short and padded), ≤ 2 failures of the input at any step of detection, ≤ 3 errors |

The four remaining runs show findings (section 5).

The properties, and where to find them:

* `FlagsMatchStack`, `DepthBounded`, `StackIsPath`, `WalkIsUnfolding`,
  `StreamSafety`, `Terminates` in `BinaryReader` and `MCBinaryReader`. The reference
  for `WalkIsUnfolding` is a recursive definition (`Expand`) that does not use
  the reader's stack.
* `NoPanic`, `LayoutAsDocumented`, `ObjectTableComplete`, `AcceptsWellFormed`,
  `CallsReturn` in `BinaryWriter`; `ReadsBack` in `BinaryRoundTrip`.
* `AllocationsBounded`, `OverrunIsHeader`, `FlagsWithinTable`, `ValuesReadBack`, `ReadsTable` in
  `BinaryBytes`. `ReadsTable` is a refinement: each call on the bytes is a step of
  `BinaryReader`, so what holds of the walk over tables holds of files.
* `OutputNested`, `AcceptsWellFormed` in `XmlWriter`; `EventsMatchElements` in
  `XmlReader`; `XmlReadsBack`, `ReadToTheEnd` in `XmlRoundTrip`.
* `FinishesWhole` in `ValueBuilder`; `BuildsDescribed`, `RebuildsSame`,
  `EventsWellFormed`, `ConsistentKeyOrder` in `ValueRoundTrip`; `ImplementsMap` in
  `Dictionary`, a refinement of `StringMap`.
* `WritesWholePlist`, `ModeRestored` in `Serializer`; `ReadsWholePlist` and its
  `ModeRestored` in `Deserializer`; `DeserializesBack` in `SerdeRoundTrip`.
* `TokensAsSpecified`, `Terminates` in `AsciiReader`; `DeliversDocument`,
  `Recovers` in `StreamReader`.

Every one of them is violated by a mutant of the code's definitions (an operator
named after the definition it replaces and what is wrong with it,
e.g. `Lowered_Kept`).

**Why the bounds are enough.** Three objects admit self-references, cycles of
length two and three, an object shared by two parents, and one that is shared and
on a cycle; four references are two pairs, the least that tells the order of
pairs from that of keys and values. Seven calls admit two nested dictionaries, a
dictionary followed by a sibling, a string that is both key and value, a
repeated key, and two or more plists in a row. Six calls to the XML writer admit
a nested empty collection in a dictionary that goes on after it. Three tokens
admit every pair of elements that overlap and each kind of content of each
element; the edits of a longer document put each token in each place of it.
Depth three nests every constructor of types in every other in every third, and
each tuple and struct has an `Option` after the part that varies, which would
show a mode left behind. Four characters hold a string, a comment or an escape
with what comes before and after it; the edits of the long document reach the
escapes that need more, one of which takes twelve characters. Two failures hit
any two steps of detection, or one step twice.

Scaled numbers keep every width: with four values to a byte, 255 is 3 and 65535 is
15; tables of up to eighteen objects need references of one, two and four bytes,
and data of 256 bytes makes offsets of eight. Two changes after a dictionary of up to three keys was taken
from a value hold a removal that moves an entry and a call that would miss it, and
sorting and a call after it.

**Fairness.** Liveness is only about progress once asked for. The readers: weak
fairness of a call, because every consumer in the crate calls `next` until the
root is complete, an error, or `None`. The binary writer: weak fairness of the
steps of `write_plist`, because a call runs to its end; nothing is assumed about
the client making calls. `StreamReader`: weak fairness of a call or step, as the
property is about a client that goes on calling. Other runs need no fairness.

## 4. What is proved

TLAPS proves the following for every value of the constants, that is for any
values, any number of objects, calls, events and plists, and with errors of input
or output anywhere. `SequenceLemmas` holds what several of the proofs need.

| module | theorem | states | in the run |
|---|---|---|---|
| `BinaryReaderProofs` | `TypeCorrect` | `Spec => []TypeOK` | `binary_reader` |
| | `FlagsCorrect` | `Spec => []FlagsMatchStack` | `binary_reader` |
| | `DepthIsBounded` | `Spec => []DepthBounded` | `binary_reader` |
| | `StackIsAlwaysPath` | `Spec => []StackIsPath` | `binary_reader` |
| | `ImplementsStream` | `Spec => StreamSafety` | `binary_reader` |
| `BinaryWriterProofs` | `WriterTyped` | `Spec => []TypeOK` | `binary_round_trip` |
| | `NeverPanics` | `Spec => []NoPanic` | `binary_round_trip` |
| | `ImplementsSink` | `Spec => AcceptsWellFormed` | `binary_round_trip` |
| `BinaryWriterObjects` | `ObjectTableIsComplete` | `Spec => []ObjectTableComplete` | `binary_round_trip` |
| | `BufferLaidOut` | `Spec => []LayoutAsDocumented` | `binary_round_trip` |
| `BinaryBytesProofs` | `NoLargeAllocation` | `Spec => []AllocationsBounded` | `binary_bytes` |
| | `SmallOverrun` | `Spec => []OverrunIsHeader` | `binary_bytes` |
| | `NoFlagMissing` | `Spec => []FlagsWithinTable` | `binary_bytes` |
| `XmlProofs` | `ImplementsSink` | `~EmptyKeys /\ Spec => AcceptsWellFormed` | `xml_round_trip` |
| | `OutputNests` | `Spec => []OutputNested` | `xml_round_trip` |
| | `CollectionsMatch` | `RoundTripSpec => []EventsMatchElements` | `xml_round_trip` |
| | `ReadsBackWritten` | `RoundTripSpec => []XmlReadsBack` | `xml_round_trip` |
| `ValueBuilderProofs` | `StackWellFormed` | `Spec => []TypeOK` | `value_round_trip` |
| | `FinishesOnlyWhole` | `Spec => []FinishesWhole` | `value_round_trip` |
| `SerdeProofs` | `WritesWhole` | `Spec => []WritesWholePlist` | `serde_round_trip` |
| | `ModesAreRestored` | `Spec => []ModeRestored` | `serde_round_trip` |
| | `DeserializerModesAreRestored` | `RoundTripSpec => []DeserializerModeRestored` | `serde_round_trip` |
| | `SerializerInRoundTrip` | `RoundTripSpec => []WritesWholePlist /\ []ModeRestored` | `serde_round_trip` |

**Assumptions.** `NumObjects` is a natural number and `Files` are files
(`NumObjectsAssumption`, `FilesAssumption`); of the files of `BinaryBytes` it is only assumed
that they are sequences of bytes, any at all, and of `Base` and `Inline` that they
are what the scaling above says; in XML no boolean has the name of one of the other
elements (`BooleansAssumption`: they are `true` and `false`) and the text of data is
not white space (`DatasAssumption`: it is base64); strings are among the values; `Inputs`
are among the `Values` of serde's data model, whose parts are in it again
(`ValuesAssumption`; TLC evaluates it, and the others, on every run that uses the
module). `~EmptyKeys` is a hypothesis of one theorem: without it the property
fails, as finding 1 shows.

**Binary reader.** `FlagsMatchStack` says that flags and stack agree unless the
stack is empty (after an error it is cleared and the flags are not). It is
inductive together with `TypeOK`, which makes the flag vector a function on the
object numbers: `IInv`. Three lemmas say what replacing, pushing and popping the
innermost item does to it. `DepthBounded` then needs no induction: the stack is an
injection from its positions into the object numbers. `StackIsPath` is inductive
as it stands, given `IInv`: what is popped from a list of references leaves its
end. For the refinement of `EventStream` the invariant also has to say that
nothing is open before the first object (`NothingOpenBefore`); each call of `next`
then is a step of the stream or a stutter, by the length of what is still due.

**Binary writer.** `write_plist` does not check what it is given: it does
arithmetic with `skip` and `len`, and panics if an object has no reference when it
is written or two are given to one. That it never does cannot be shown without
saying where everything is. `WInv` does, for the two halves of a writer's life.

* *While the client calls* (`Buffering`). With its extent (`skip` for a
  collection, `len` for the event that counts keys) each event is a *block*, and
  `Laid` says that blocks nest: what is among the elements of a closed collection
  ends there, and after those of a dictionary comes the event that counts its keys,
  then the keys, which are values. An open collection has no extent yet; the open
  ones are increasing and the first is the root. The keys that wait in
  `dictionary_key_events` are as many as the open dictionaries have counted
  (`KeysWait`), which is why `WriteEndCollection` finds enough of them. A witness,
  the number of keys up to each open dictionary, takes the place of a sum over the
  stack.
* *While the plist is written* (`Numbering`). An event is a *child* of the
  collection whose elements it is among, and of no other (`ParentUnique`); each
  event but the root and the keys has a parent that comes before it
  (`ParentExists`). `Assignment` is the heart of the matter: a collection has a
  reference *exactly* when it is the root or a child of a collection that is
  through with its elements, and a value has one *if* it is. The first direction
  is why no collection is given a second one (line 394), the second why none is
  written without (lines 363, 443). `AtHand` says how far the collection at hand has got: what
  is pending is the end of its positions, and the next element is a child of it
  (or there is none left); keys that are no longer pending have been given a
  reference. That `cursor` never stops among the keys of a dictionary is
  `NotAmongKeys`.

Each call and each step of `write_plist` has a lemma `...Keeps`. `ImplementsSink`
maps the open collections to what they expect, and needs of `WInv` that closing a
collection changes no other event that is open; while the plist is written nothing
is open, and a step is a stutter or a failure.

*The object table.* `num_objects` is counted while the client calls, and fixes the
width of a reference before the first is given. That it is the number of
references in the end is a matter of counting twice. `OInv` adds to `WInv`:

* the objects are the collections of the buffer and the distinct values
  (`Counted`), no value is there twice (`Distinct`), and each is there for an
  event or for a key that waits (`Unnumbered`, `Occurs`);
* the references given so far are a bijection between what has one and the numbers
  below `next_object_ref` (`References`): as many objects as numbers, no number
  twice. What has none yet then leaves room, so `next_object_ref` never passes
  `num_objects`, and when none is left they are equal;
* the offset table takes the references of what is written to different positions
  of the file, as many as there are (`Locates`, `LocatesWritten`);
* what the cursor has passed is written, with the keys of its dictionaries
  (`Done`), and the file refers to given numbers only and has no value twice
  (`Contents`).

At the end of `todo` everything is passed, hence written, hence numbered.

*The documented layout.* `Laid` nests blocks but does not count them: it would
hold of a collection whose `len` is wrong. `LInv` adds *walks* (`Walk`): a witness
for the recursive function `PastElements`, the positions met on the way from one
block to the next. A closed collection has a walk of `len` blocks to the end of its elements
(`ClosedWalks`), an open one a walk of as many as it has counted, to the next open
one or the end of the buffer (`OpenWalks`). A call adds one block to the walk of the
innermost collection, or ends it and makes it the last block of the next (`EndWalks`);
`WalkPast` says that the witness is what the function computes. That keys are
strings is carried along from `WriteValue`, which checks it, to the dictionary's
end (`WaitingStrings`, `StringKeys`).

**Bytes of a binary plist.** `BInv` holds of any sequence of bytes. `Reach` says how
far from the start of the object (`pos`, which does not move) reading has got: by token
and length, then by the lists that have been checked against what is left *from
the start*; the check of the vector for both lists of a dictionary is what bounds
their sum. For that the lengths have to be those of the lists read (`RefsRead`),
nothing may be read before the trailer (`TrailerFirst`), and an object only after it was
looked up (`InTable`), which is also why its flag exists. That `Unsigned`, which
is recursive over the bytes, is a natural number is by `ScanExists`. Files of real
bytes are those with `Base` 256 and `Inline` 15.

**XML.** What the client may do next is in four variables: the stack, the
collection that pends, the one that was taken up, and one `expecting_key` for all.
`WInv` adds that a key is expected in a dictionary only, and that a collection is
taken up by an "end" only where no key is due. The empty key collection of finding
1 is what would break the last. The other three theorems do not need it.

*Nesting.* `OpenTags`, `PlistsIn`, `OpenCollections` and `CollectionsAmong` are recursive
over the history. `Outcome` of `SequenceLemmas` says that something is what following
a sequence leads to, and `OutcomeOfAppend` what one element more leads to; so each step
needs to look at its own tags or event only. `NInv` says that what is open is
`<plist>`, if it was written and not ended, and the stack; what a call writes `Turns`
the stack before into the one after, whatever lies below. `RInv` follows the names
of the elements and the events side by side; a value is read in its own element, so
that its end closes nothing else.

*Reading back.* `Hear` says what one token means to a reader that knows what the writer
writes: where it is, the content so far, the events, and whether the token
was in its place. `Hearing` follows a whole document. `EInv` says of the writer that
what it has written is heard as the calls it has carried out, with one event more due
while an empty collection is being closed; for this `Leads` says what the tokens of each call
are heard as. `SInv` says of the reader that it is where `Hear` is: since all of the output is heard
without loss, so is each part of it (`HearingGrows`), which excludes every step that fails; a value
is the text of its element, for data without the white space around it (`DataStripped`).

**Value builder.** `BuilderInv` follows the calls (`Follow` of `EventSink`) and
relates what is known of them to the stack: as long as they may still become a
plist, the stack is what they describe; once they cannot, there is a place in the
stack where a collection lies on something that does not take one. Such a stack is
never finished, and its error comes late but comes. The scan over the calls is
recursive; the proofs use that such a function exists (`ScanExists`).

**Serializer, Deserializer.** The calls under way are a stack in the model. That
the mode is restored is shown by what the *outermost* restore on it will restore:
the mode of the root, and nothing restores any more when the stack is empty
(`KeepsOptionMode`, `KeepsMode`, `KeepsInValue`). For `WritesWholePlist` the
invariant also says how deep each call of the stack lies in the collections that
are open, and that at the root there is one value and no name of a field is due
(`Deep`); that what is written is the beginning of one plist (`Begun`); and that as long
as nothing is written something will be, unless the value is an Option that is left out
(`Blank`).

**Induction.** Nothing here inducts over data with the library's theorems. Where
induction is needed (a witness for a scan, a parent for each event) it is on a set
of numbers: `SetInduction`, `BoundedInduction` and `LeastNumber` of
`SequenceLemmas`, from the well-foundedness of `Nat`.

**Only model-checked.** Liveness (the prover does not handle fairness):
`Terminates`, `CallsReturn`, `ReadToTheEnd`, `Recovers`. The round trips, which compare
histories with recursive references: `ReadsBack` (of the binary format), `RebuildsSame`,
`DeserializesBack`, `ValuesReadBack`, `DeliversDocument`, and `WalkIsUnfolding`. What is
computed by folds over the data: `TokensAsSpecified`, `ImplementsMap` (its
`Extended`, `Sorted` and `Retained` are), `ReadsWholePlist`, `BuildsDescribed`. These
need induction over data, as does `ReadsTable` of `BinaryBytes`, which compares the
bytes with the table they encode. `ConsistentKeyOrder` and
`EventsWellFormed` are about compositions that replay what a client did; their
components are proved where they have a state of their own.

## 5. Findings and observations

Runs that show a disagreement between the code and what is written of it:

1. `xml_writer_empty_key`: `StartDictionary`, `StartArray`, `EndCollection` is
   accepted where a key is due and written as `<array/>`, as `write_end_collection`
   does not look at `expecting_key` when it writes a pending collection. The other
   runs of the XML writer set `EmptyKeys = FALSE`: the client does not do this.
2. `serializer_option_variant`: a struct field of an enum type whose newtype
   variant holds an `Option` makes the serializer panic (`unreachable!`, `ser.rs:194`
   and `213`): the variant's dictionary writes the field name, and the content is
   serialized in the mode that this leaves behind. `MCSerde` leaves such types out
   of the other run.
3. `ascii_slash_string`: `/a` is read as `aa`. `potential_comment` passes on the
   peeked character as the first of the string, instead of the slash, and the
   character is then consumed once more. `TokensAsSpecified` leaves such strings
   out.
4. `binary_bytes_trailer`: "Check we are not reading past the start of the plist
   trailer", says `allocate_vec`, but compares the length with where the object
   starts and not with where its content does: `PosReader::read` drops the result of
   `checked_add`, and so `reader.pos` only moves on seek. An object is accepted
   whose last bytes are those of the trailer. `OverrunIsHeader` says by how much:
   no more than its token and length. For the two lists of a dictionary, each of
   which is checked from the start of the object, this is due to a third check,
   that of the vector for both.

Seen while modelling, without a run of its own:

* Any error of the first XML read makes the format detecting reader try ASCII
  (`mod.rs:284`, "If no valid XML markup is found, try to parse as ASCII"), also a
  failure of the input. An XML document whose first read fails once is delivered
  as a string, such as `<plist>`. Broken XML without a declaration is, too.
  `TakenForAscii` is this case; `DeliversDocument` and `Recovers` leave out it and
  nothing else.

* A second plist on one `XmlWriter` gets a second `</plist>` and no second
  prologue; `OutputNested` and the round trip stop at the first plist.
* The binary reader clears its stack after an error to "mark the plist as
  finished", but if the trailer failed before `ref_size` was stored the next call
  reads the trailer again, and returns an error again. The consumers in the crate
  stop at the first one.
* A binary writer that is used again after its output failed in the header still
  has the first plist in its buffer, and reaches the `unreachable!` of line 443
  with a value that was never numbered. The clients in the crate do not go on.
* A document of fewer than eight bytes is an I/O error for `stream::Reader`,
  also if it is a whole ASCII plist such as `()`.
* ASCII: `\'` is not an escape; a newline, `=` or `}` does not end a string without
  quotes; bytes that are not ASCII are UTF-8 without quotes and Latin-1 within.
  In block comments what follows a star is not itself looked at as one: `/**/`
  and `/* **/` go on, `/*/` is a whole comment, and a comment that is not closed
  is no error if its last character is a star. `TokensAsSpecified` leaves out
  comments with such stars.
* If the first read of the ASCII reader succeeds and the second fails, a caller
  that goes on has lost the first character.
* An `Option` that is `None` at the root writes nothing, and a newtype around an
  `Option` in a struct field does not come back when it is `None`: serde takes a
  missing newtype for an error. A unit struct is written as an empty string and
  not read back from one.
* `XmlReader::read_content` skips CDATA sections and comments inside a value.

## 6. What is not modelled, and the plan

Order of work, most important first.

1. *(done)* The binary encoding: `EventStream`, `BinaryReader`, its proofs;
   `EventSink`, `BinaryWriter`, `BinaryRoundTrip`.
2. *(done)* The XML encoding: `XmlWriter`, `XmlReader`, `XmlRoundTrip`.
3. *(done)* Values: `ValueBuilder`, `ValueEvents`, `ValueRoundTrip`.
4. *(done)* serde: `Serializer`, `Deserializer`, `SerdeRoundTrip`.
5. *(done)* `AsciiGrammar`, `AsciiReader`.
6. *(done)* Format detection: `StreamReader`, over the three readers.
7. *(done)* `BinaryEncoding`, `BinaryBytes`: bytes, widths, length checks.
8. *(done)* `IndexMap`, `Dictionary`, `StringMap`.
9. *(done)* `Deserializer` into a `Value` (`in_plist_value`).
10. *(done)* Proofs: the binary reader's path and its refinement of `EventStream`;
   the binary and the XML writer's refinement of `EventSink`, and that the binary
   writer never panics; the builder; the modes of serializer and deserializer.
11. *(done)* Proofs: the binary writer's layout and its object table; allocations,
   overrun and flags of the binary reader, for all files.
12. *(done)* Proofs: what the XML writer leaves is well nested, what the reader
   reports matches its elements, and it reads back exactly what was written.
13. What would come next: `ReadsTable` for all files in a known encoding, and
   `EventsWellFormed`, for which `ValueEvents` would need an invariant of its own.

Left out for good: wording and positions of errors, layout of XML (indentation,
line wrapping of base64), the textual form of dates and numbers, the rounding of
reals and dates, UTF-8 beyond ASCII and surrogate pairs in binary strings,
conversions and accessors of `Value`, serde's size hints, compile-time macros,
tests and fuzz targets. They keep no state that a property here is about.
