----------------------------- MODULE Serializer -----------------------------
(***************************************************************************)
(* ser.rs: the serde Serializer, which turns the calls that a value makes  *)
(* of it into calls of a Writer.                                           *)
(*                                                                         *)
(* A value is a record [k, v] of serde's data model, k being the method it *)
(* calls and v what it passes.  `calls` is the call stack: frames for what *)
(* is still to be done, the innermost last.  One action is one call: of    *)
(* the writer, of a serialize method, or the return from one.              *)
(*                                                                         *)
(* The option mode tells how an Option is written: left out at the root    *)
(* and in a struct field, as a dictionary everywhere else.  The name of a  *)
(* field is only written once its value turns out not to be left out.      *)
(***************************************************************************)
EXTENDS Integers, Sequences, SequencesExt

CONSTANTS
  Inputs,         (* the values serialized                     *)
  Values,         (* those, and what is in them                *)
  Atoms,          (* the leaves, and what names something      *)
  Strings,        (* the leaves that are strings               *)
  FaultyWriter    (* TRUE when the writer may fail at any call *)

ASSUME FaultyWriterAssumption == FaultyWriter \in BOOLEAN

(* serde's data model: what is in a value of each kind.                     *)
DataModel(values, atoms) ==
  \A x \in values :
    \/ x.k \in {"str", "date", "real", "uid"} /\ x.v[1] \in atoms
    \/ x.k \in {"unit", "none"}
    \/ x.k \in {"some", "newtype"} /\ x.v[1] \in values
    \/ x.k = "seq" /\ x.v \in Seq(values)
    \/ x.k = "map" /\ x.v \in Seq([key : values, value : values])
    \/ x.k = "struct" /\ x.v \in Seq([key : atoms, value : values])
    \/ x.k = "unit_variant" /\ x.name \in atoms
    \/ x.k = "newtype_variant" /\ x.name \in atoms /\ x.v[1] \in values
    \/ x.k = "tuple_variant" /\ x.name \in atoms /\ x.v \in Seq(values)
    \/ x.k = "struct_variant" /\ x.name \in atoms
         /\ x.v \in Seq([key : atoms, value : values])

ASSUME ValuesAssumption ==
  /\ Inputs \subseteq Values
  /\ {"", "None", "Some"} \subseteq Atoms
  /\ DataModel(Values, Atoms)

VARIABLES
  value,          (* the value serialized                                    *)
  option_mode,
  calls,
  expects,        (* the writer, a sink: what each open collection expects   *)
  written,        (* history: the events written                             *)
  outcome         (* "running", "ok", "error", or "panic"                    *)

vars == <<value, option_mode, calls, expects, written, outcome>>

Mode(m) == [mode |-> m, field |-> ""]
Root == Mode("Root")
StructField(name) == [mode |-> "StructField", field |-> name]
StructFieldNameWritten == Mode("StructFieldNameWritten")
Explicit == Mode("Explicit")

Leaf(a) == [kind |-> "value", arg |-> a]
Start(k) == [kind |-> k, arg |-> ""]
End == [kind |-> "end", arg |-> ""]

(***************************************************************************)
(* Frames.                                                                 *)
(***************************************************************************)
Write(e) == [op |-> "write", event |-> e]
Serialize(v) == [op |-> "serialize", arg |-> v]
WithMode(m, v) == [op |-> "with", mode |-> m, arg |-> v]
Restore(m) == [op |-> "restore", mode |-> m]

Running == outcome = "running" /\ calls # <<>>
Top == Last(calls)

(* The innermost call is replaced by the given ones, the first of which is  *)
(* carried out first.                                                       *)
Do(frames) == calls' = Front(calls) \o Reverse(frames)

(***************************************************************************)
(* The Writer.                                                             *)
(***************************************************************************)
Sink == INSTANCE EventSink WITH
  Calls <- {}, open <- expects, call <- End, verdict <- outcome

Written(e) ==
  /\ Sink!Legal(e)
  /\ expects' = Sink!After(e)
  /\ written' = Append(written, e)
  /\ UNCHANGED <<value, outcome>>

(* The writer refuses the event, or cannot write it: `?` returns from every *)
(* call under way.                                                          *)
NotWritten(e) ==
  /\ ~Sink!Legal(e) \/ FaultyWriter
  /\ outcome' = "error"
  /\ UNCHANGED <<value, calls, expects, written>>

(* The option mode once the name of the field is on its way.                *)
NameWritten == StructFieldNameWritten

(* maybe_write_pending_struct_field_name, then the event itself.            *)
WriteFieldName ==
  /\ Running /\ Top.op = "write" /\ option_mode.mode = "StructField"
  /\ option_mode' = NameWritten
  /\ \/ Written(Leaf(option_mode.field)) /\ UNCHANGED calls
     \/ NotWritten(Leaf(option_mode.field))

WriteEvent ==
  /\ Running /\ Top.op = "write" /\ option_mode.mode # "StructField"
  /\ UNCHANGED option_mode
  /\ \/ Written(Top.event) /\ Do(<<>>)
     \/ NotWritten(Top.event)

(***************************************************************************)
(* serialize_with_option_mode, and the return from it, with or without an  *)
(* error.                                                                  *)
(***************************************************************************)
(* Mutant: the mode stays what it has become. *)
Restored_Left(m) == option_mode

(* What the mode is set back to.                                            *)
Restored(m) == m

EnterMode ==
  /\ Running /\ Top.op = "with"
  /\ option_mode' = Top.mode
  /\ Do(<<Serialize(Top.arg), Restore(option_mode)>>)
  /\ UNCHANGED <<value, expects, written, outcome>>

LeaveMode ==
  /\ outcome \in {"running", "error"} /\ calls # <<>> /\ Top.op = "restore"
  /\ option_mode' = Restored(Top.mode)
  /\ Do(<<>>)
  /\ UNCHANGED <<value, expects, written, outcome>>

Unwind ==
  /\ outcome = "error" /\ calls # <<>> /\ Top.op # "restore"
  /\ Do(<<>>)
  /\ UNCHANGED <<value, option_mode, expects, written, outcome>>

(***************************************************************************)
(* The serialize methods other than those for options: the calls each one  *)
(* makes.  Those for collections include what the value calls on Compound. *)
(***************************************************************************)
SerializeLeaf(v) == <<Write(Leaf(v.v[1]))>>

SerializeDate(v) == SerializeLeaf(v)
SerializeUid(v) == SerializeLeaf(v)

SerializeUnit == <<Write(Leaf(""))>>

Elements(vs) == [i \in 1..Len(vs) |-> WithMode(Explicit, vs[i])]
SerializeSeq(vs) == <<Write(Start("array"))>> \o Elements(vs) \o <<Write(End)>>

Entries(es) ==
  [i \in 1..(2 * Len(es)) |->
     WithMode(Explicit, IF i % 2 = 1 THEN es[(i + 1) \div 2].key ELSE es[i \div 2].value)]
SerializeMap(es) == <<Write(Start("dict"))>> \o Entries(es) \o <<Write(End)>>

Fields(fs) ==
  [i \in 1..Len(fs) |-> WithMode(StructField(fs[i].key), fs[i].value)]
SerializeStruct(fs) == <<Write(Start("dict"))>> \o Fields(fs) \o <<Write(End)>>

(* A date or a uid is told by the name of its newtype, the others are what  *)
(* is in them.                                                              *)
SerializeNewtypeStruct(v) == <<Serialize(v.v[1])>>

(* A variant without content is its name, the others are a dictionary of    *)
(* one entry.                                                               *)
SerializeUnitVariant(v) == <<Write(Leaf(v.name))>>
(* Mutant: the dictionary is not closed. *)
Variant_Open(v, content) ==
  <<Write(Start("dict")), Write(Leaf(v.name))>> \o content

Variant(v, content) ==
  <<Write(Start("dict")), Write(Leaf(v.name))>> \o content \o <<Write(End)>>
SerializeNewtypeVariant(v) == Variant(v, <<Serialize(v.v[1])>>)
SerializeTupleVariant(v) == Variant(v, SerializeSeq(v.v))
SerializeStructVariant(v) == Variant(v, SerializeStruct(v.v))

Calls(v) ==
  CASE v.k \in {"str", "real"}   -> SerializeLeaf(v)
    [] v.k = "date"              -> SerializeDate(v)
    [] v.k = "uid"               -> SerializeUid(v)
    [] v.k = "unit"              -> SerializeUnit
    [] v.k = "seq"               -> SerializeSeq(v.v)
    [] v.k = "map"               -> SerializeMap(v.v)
    [] v.k = "struct"            -> SerializeStruct(v.v)
    [] v.k = "newtype"           -> SerializeNewtypeStruct(v)
    [] v.k = "unit_variant"      -> SerializeUnitVariant(v)
    [] v.k = "newtype_variant"   -> SerializeNewtypeVariant(v)
    [] v.k = "tuple_variant"     -> SerializeTupleVariant(v)
    [] v.k = "struct_variant"    -> SerializeStructVariant(v)

Serializing == Running /\ Top.op = "serialize"

SerializeOther ==
  /\ Serializing /\ Top.arg.k \notin {"none", "some"}
  /\ Do(Calls(Top.arg))
  /\ UNCHANGED <<value, option_mode, expects, written, outcome>>

(***************************************************************************)
(* Options.                                                                *)
(***************************************************************************)
(* An `unreachable!` is reached. *)
Panic ==
  /\ outcome' = "panic"
  /\ UNCHANGED <<value, option_mode, calls, expects, written>>

(* The dictionary that stands for an Option where it is not left out.       *)
ExplicitOption(name, content) ==
  <<Write(Start("dict")), Write(Leaf(name))>> \o content \o <<Write(End)>>

SerializeNone ==
  /\ Serializing /\ Top.arg.k = "none"
  /\ \/ /\ option_mode.mode \in {"Root", "StructField"}
        /\ Do(<<>>)
        /\ UNCHANGED <<value, option_mode, expects, written, outcome>>
     \/ option_mode.mode = "StructFieldNameWritten" /\ Panic
     \/ /\ option_mode.mode = "Explicit"
        /\ Do(ExplicitOption("None", SerializeUnit))
        /\ UNCHANGED <<value, option_mode, expects, written, outcome>>

SerializeSome ==
  /\ Serializing /\ Top.arg.k = "some"
  /\ LET content == Top.arg.v[1] IN
     \/ /\ option_mode.mode = "Root"
        /\ Do(<<WithMode(Explicit, content)>>)
        /\ UNCHANGED <<value, option_mode, expects, written, outcome>>
     \/ /\ option_mode.mode = "StructField"
        /\ option_mode' = NameWritten
        /\ Do(<<Write(Leaf(option_mode.field)), WithMode(Explicit, content)>>)
        /\ UNCHANGED <<value, expects, written, outcome>>
     \/ option_mode.mode = "StructFieldNameWritten" /\ Panic
     \/ /\ option_mode.mode = "Explicit"
        /\ Do(ExplicitOption("Some", <<Serialize(content)>>))
        /\ UNCHANGED <<value, option_mode, expects, written, outcome>>

(* The last call returns. *)
Finish ==
  /\ outcome = "running" /\ calls = <<>>
  /\ outcome' = "ok"
  /\ UNCHANGED <<value, option_mode, calls, expects, written>>

Init ==
  /\ value \in Inputs
  /\ option_mode = Root
  /\ calls = <<Serialize(value)>>
  /\ expects = <<>> /\ written = <<>>
  /\ outcome = "running"

Next ==
  \/ WriteFieldName \/ WriteEvent
  \/ EnterMode \/ LeaveMode \/ Unwind
  \/ SerializeOther \/ SerializeNone \/ SerializeSome
  \/ Finish

Spec == Init /\ [][Next]_vars

(***************************************************************************)
(* Properties.                                                             *)
(***************************************************************************)

(* A value that is serialized without an error is one whole plist, its      *)
(* field names written before what they name, once, and only if there is    *)
(* something to name; or it is an Option that is left out at the root, and  *)
(* nothing is written.                                                      *)
WritesWholePlist ==
  outcome = "ok" =>
    \/ Sink!WholePlist(written)
    \/ written = <<>> /\ value.k \in {"none", "newtype"}

(* Whatever was nested in the value, and wherever an error came, the mode   *)
(* is that of the root again when the outermost call returns: the next      *)
(* value on the same serializer is not taken for a field of this one.       *)
ModeRestored ==
  outcome \in {"ok", "error"} /\ calls = <<>> => option_mode = Root

(* "unreachable!()" (ser.rs:194, 213): no Option is serialized directly     *)
(* below a field whose name has just been written.                          *)
OptionsReachable == outcome # "panic"

=============================================================================
