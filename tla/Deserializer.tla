---------------------------- MODULE Deserializer ----------------------------
(***************************************************************************)
(* de.rs: the serde Deserializer, which reads a value of a given type from *)
(* an iterator of events.                                                  *)
(*                                                                         *)
(* A type is a record [k, of], k being the deserialize method that the     *)
(* type calls and `of` the types of its parts.  What the derived code of   *)
(* serde makes of events it is given (external) is part of the frames.     *)
(* `calls` is the call stack, the innermost last; `built` holds the values *)
(* that calls have returned and that are yet to become part of another.    *)
(***************************************************************************)
EXTENDS Integers, Sequences, SequencesExt, IndexMap

CONSTANTS Strings, Dates, Reals, Uids   (* the leaves *)

VARIABLES
  events,         (* what the iterator yields; "error" is an Err             *)
  at,             (* the next of them                                        *)
  type,           (* the type asked for                                      *)
  option_mode,
  in_plist_value, (* inside a Value: dates and uids are told from their text *)
                  (* and their number                                        *)
  calls,
  built,
  outcome         (* "running", "ok" or "error"                              *)

vars == <<events, at, type, option_mode, in_plist_value, calls, built, outcome>>
modes == <<option_mode, in_plist_value>>

Root == "Root"
StructField == "StructField"
Explicit == "Explicit"

(***************************************************************************)
(* Frames.                                                                 *)
(***************************************************************************)
Deserialize(ty) == [op |-> "deserialize", ty |-> ty]
Expect(kind) == [op |-> "expect", kind |-> kind]
WithMode(m, ty) == [op |-> "with", mode |-> m, ty |-> ty]
Restore(m) == [op |-> "restore", mode |-> m]
LeaveValue(prev) == [op |-> "leave", prev |-> prev]
VisitSeq(ty, n) == [op |-> "seq", ty |-> ty, n |-> n]
VisitMap(ty, n) == [op |-> "map", ty |-> ty, n |-> n]
VisitStruct(k, name, fields, got) ==
  [op |-> "struct", k |-> k, name |-> name, fields |-> fields, got |-> got]
Make(k, n) == [op |-> "make", k |-> k, n |-> n]
MakeVariant(k, name, n) == [op |-> "make", k |-> k, n |-> n, name |-> name]

Type(k, of) == [k |-> k, of |-> of]
Ignored == Type("ignored", <<>>)
Key == Type("str", <<>>)
Value == Type("value", <<>>)

Val(k, v) == [k |-> k, v |-> v]
VariantVal(k, name, v) == [k |-> k, name |-> name, v |-> v]

Running == outcome = "running" /\ calls # <<>>
Top == Last(calls)

(* The innermost call is replaced by the given ones, in the order in which  *)
(* they are carried out.                                                    *)
Do(frames) == calls' = Front(calls) \o Reverse(frames)

(***************************************************************************)
(* The events.                                                             *)
(***************************************************************************)
Peek == IF at > Len(events) THEN [kind |-> "none", arg |-> ""] ELSE events[at]

IsString(e) == e.kind = "value" /\ e.arg \in Strings
(* Mutant: a date is its text everywhere. *)
Texts_WithDates == Strings \cup Dates

(* A date is visited as its text, except in a Value.                        *)
Texts == Strings \cup (IF in_plist_value THEN {} ELSE Dates)
IsText(e) == e.kind = "value" /\ e.arg \in Texts

(* The innermost call goes on after the event at hand, or without one.      *)
Consume == at' = at + 1 /\ UNCHANGED <<events, type, outcome>>
Stay == UNCHANGED <<events, at, type, outcome>>

(* An error: `?` returns from every call under way.  Whether the event it   *)
(* is about was taken no longer matters, nothing is read after an error.    *)
Fail ==
  /\ outcome' = "error"
  /\ UNCHANGED <<events, at, type, modes, calls, built>>

Returns(v) == built' = Append(built, v) /\ Do(<<>>) /\ UNCHANGED modes
Calls(frames) == Do(frames) /\ UNCHANGED <<modes, built>>

(* expect!, when its event is of no further use.                            *)
ExpectEvent ==
  /\ Running /\ Top.op = "expect"
  /\ \/ Peek.kind = Top.kind /\ Consume /\ Calls(<<>>)
     \/ Peek.kind # Top.kind /\ Fail

(***************************************************************************)
(* with_option_mode, and the return from it, with or without an error.     *)
(***************************************************************************)
(* Mutant: the mode stays what it has become. *)
Restored_Left(m) == option_mode

(* What the mode is set back to.                                            *)
Restored(m) == m

EnterMode ==
  /\ Running /\ Top.op = "with"
  /\ option_mode' = Top.mode
  /\ Do(<<Deserialize(Top.ty), Restore(option_mode)>>)
  /\ Stay /\ UNCHANGED <<in_plist_value, built>>

LeaveMode ==
  /\ outcome \in {"running", "error"} /\ calls # <<>> /\ Top.op = "restore"
  /\ option_mode' = Restored(Top.mode)
  /\ Do(<<>>)
  /\ Stay /\ UNCHANGED <<in_plist_value, built>>

Unwind ==
  /\ outcome = "error" /\ calls # <<>> /\ Top.op \notin {"restore", "leave"}
  /\ Do(<<>>)
  /\ Stay /\ UNCHANGED <<modes, built>>

(***************************************************************************)
(* A Value, a newtype that is told by its name: enter_plist_value, and the *)
(* return from it, with or without an error.                               *)
(***************************************************************************)
(* Mutant: what was before is forgotten. *)
Left_Inside(prev) == TRUE

(* What in_plist_value is set back to.                                      *)
Left(prev) == prev

EnterPlistValue ==
  /\ Running /\ Top.op = "deserialize" /\ Top.ty.k = "value"
  /\ in_plist_value' = TRUE
  /\ Do(<<Deserialize(Type("any", <<>>)), LeaveValue(in_plist_value)>>)
  /\ Stay /\ UNCHANGED <<option_mode, built>>

LeavePlistValue ==
  /\ outcome \in {"running", "error"} /\ calls # <<>> /\ Top.op = "leave"
  /\ in_plist_value' = Left(Top.prev)
  /\ Do(<<>>)
  /\ Stay /\ UNCHANGED <<option_mode, built>>

(***************************************************************************)
(* deserialize_any, as far as the visitor of the type takes what is there. *)
(***************************************************************************)
Deserializing(kinds) ==
  Running /\ Top.op = "deserialize" /\ Top.ty.k \in kinds

(* A Value's dates and uids are given as variants, which no type but Value  *)
(* itself takes.                                                            *)
LeavesOf(k) ==
  CASE k = "str"  -> Texts
    [] k = "date" -> IF in_plist_value THEN {} ELSE Dates
    [] k = "real" -> Reals
    [] k = "uid"  -> IF in_plist_value THEN {} ELSE Uids

DeserializeLeaf ==
  /\ Deserializing({"str", "date", "real", "uid"})
  /\ IF Peek.kind = "value" /\ Peek.arg \in LeavesOf(Top.ty.k)
     THEN Consume /\ Returns(Val(Top.ty.k, <<Peek.arg>>))
     ELSE Fail

DeserializeSeq ==
  /\ Deserializing({"seq", "tuple"})
  /\ IF Peek.kind = "array"
     THEN Consume /\ Calls(<<VisitSeq(Top.ty, 0), Expect("end")>>)
     ELSE Fail

DeserializeMap ==
  /\ Deserializing({"map"})
  /\ IF Peek.kind = "dict"
     THEN Consume /\ Calls(<<VisitMap(Top.ty, 0), Expect("end")>>)
     ELSE Fail

(* The visitor of Value, whose parts are Values again, but for the keys.    *)
DeserializeAny ==
  /\ Deserializing({"any"})
  /\ CASE Peek.kind = "value" ->
            /\ Consume
            /\ Returns(CASE Peek.arg \in Texts -> Val("str", <<Peek.arg>>)
                         [] Peek.arg \in Dates \ Texts -> Val("date", <<Peek.arg>>)
                         [] Peek.arg \in Reals -> Val("real", <<Peek.arg>>)
                         [] Peek.arg \in Uids -> Val("uid", <<Peek.arg>>))
       [] Peek.kind = "array" ->
            Consume /\ Calls(<<VisitSeq(Type("seq", <<Value>>), 0), Expect("end")>>)
       [] Peek.kind = "dict" ->
            Consume /\ Calls(<<VisitMap(Type("map", <<Value>>), 0), Expect("end")>>)
       [] OTHER -> Fail

(* A field the struct does not have: any one value.                         *)
DeserializeIgnored ==
  /\ Deserializing({"ignored"})
  /\ CASE Peek.kind = "value" -> Consume /\ Returns(Val("ignored", <<>>))
       [] Peek.kind = "array" -> Consume /\ Calls(<<VisitSeq(Top.ty, 0), Expect("end")>>)
       [] Peek.kind = "dict"  -> Consume /\ Calls(<<VisitMap(Top.ty, 0), Expect("end")>>)
       [] OTHER -> Fail

(***************************************************************************)
(* MapAndSeqAccess, driven by the visitor of the collection.               *)
(***************************************************************************)
(* next_element_seed, next_key_seed: the EndCollection is left in place.    *)
AtEnd == Peek.kind = "end"

(* A Vec takes what there is, a tuple its number of elements and no more.   *)
NextElement ==
  /\ Running /\ Top.op = "seq"
  /\ LET ty == Top.ty
         n == Top.n
         full == ty.k = "tuple" /\ n = Len(ty.of)
         element == CASE ty.k = "tuple" -> ty.of[n + 1]
                      [] ty.k = "seq" -> ty.of[1]
                      [] ty.k = "ignored" -> Ignored
     IN  \/ (full \/ (AtEnd /\ ty.k # "tuple")) /\ Stay
              /\ Calls(<<Make(IF ty.k = "tuple" THEN "seq" ELSE ty.k, n)>>)
         \/ ~full /\ AtEnd /\ ty.k = "tuple" /\ Fail
         \/ ~full /\ ~AtEnd /\ Stay
              /\ Calls(<<WithMode(Explicit, element), VisitSeq(ty, n + 1)>>)

NextEntry ==
  /\ Running /\ Top.op = "map"
  /\ LET ty == Top.ty
         n == Top.n
         key == IF ty.k = "map" THEN Key ELSE Ignored
         content == IF ty.k = "map" THEN ty.of[1] ELSE Ignored
     IN  /\ Stay
         /\ IF AtEnd
            THEN Calls(<<Make(ty.k, 2 * n)>>)
            ELSE Calls(<<WithMode(Explicit, key), WithMode(Explicit, content),
                         VisitMap(ty, n + 1)>>)

(* Mutant: a field is read like an element. *)
FieldMode_Explicit == Explicit

(* next_value_seed of a struct.                                             *)
FieldMode == StructField

(* What a field that did not occur is: only an Option itself may be missing *)
(* (serde's missing_field).                                                 *)
Missing(ty) == ty.k = "option"

TypeOfField(fields, name) ==
  LET known == SelectSeq(fields, LAMBDA f : f.key = name)
  IN  IF known = <<>> THEN Ignored ELSE known[1].ty

(* The derived visitor of a struct: a name it knows is allowed only once.   *)
NextField ==
  /\ Running /\ Top.op = "struct"
  /\ LET f == Top
         fieldType == TypeOfField(f.fields, Peek.arg)
         repeated == Contains(f.got, Peek.arg) /\ fieldType # Ignored
         absent == SelectSeq(f.fields, LAMBDA g : ~Contains(f.got, g.key))
     IN  \/ /\ AtEnd
            /\ \A i \in 1..Len(absent) : Missing(absent[i].ty)
            /\ LET n == Len(f.got)
                   taken == SubSeq(built, Len(built) - n + 1, Len(built))
                   of(name) == IF Contains(f.got, name)
                               THEN taken[CHOOSE i \in 1..n : f.got[i] = name]
                               ELSE Val("none", <<>>)
                   entries == [i \in 1..Len(f.fields) |->
                                 [key |-> f.fields[i].key, value |-> of(f.fields[i].key)]]
               IN  built' = Append(SubSeq(built, 1, Len(built) - n),
                                   IF f.k = "struct" THEN Val(f.k, entries)
                                   ELSE VariantVal(f.k, f.name, entries))
            /\ Do(<<>>) /\ Stay /\ UNCHANGED modes
         \/ /\ AtEnd
            /\ \E i \in 1..Len(absent) : ~Missing(absent[i].ty)
            /\ Fail
         \/ /\ ~AtEnd /\ IsText(Peek) /\ ~repeated
            /\ Consume
            /\ Calls(<<WithMode(FieldMode, fieldType),
                       VisitStruct(f.k, f.name, f.fields, Append(f.got, Peek.arg))>>)
         \/ /\ ~AtEnd /\ (~IsText(Peek) \/ repeated)
            /\ Fail

(* The visitor returns what it has made of the values of its parts.         *)
MakeValue ==
  /\ Running /\ Top.op = "make"
  /\ LET m == Top
         taken == SubSeq(built, Len(built) - m.n + 1, Len(built))
         v == CASE m.k = "map" ->
                     Val("map", Extended(<<>>, [i \in 1..(m.n \div 2) |->
                                   [key |-> taken[2 * i - 1], value |-> taken[2 * i]]]))
                [] m.k = "ignored" -> Val("ignored", <<>>)
                [] m.k = "newtype_variant" -> VariantVal(m.k, m.name, taken)
                [] m.k = "tuple_variant" -> VariantVal(m.k, m.name, taken[1].v)
                [] m.k = "unit_variant" -> VariantVal(m.k, m.name, <<>>)
                [] m.k \in {"seq", "some", "newtype"} -> Val(m.k, taken)
                [] m.k = "none" -> Val(m.k, <<>>)
     IN  built' = Append(SubSeq(built, 1, Len(built) - m.n), v)
  /\ Do(<<>>) /\ Stay /\ UNCHANGED modes

(***************************************************************************)
(* The other methods.                                                      *)
(***************************************************************************)
DeserializeUnit ==
  /\ Deserializing({"unit"})
  /\ IF IsString(Peek) THEN Consume /\ Returns(Val("unit", <<>>)) ELSE Fail

DeserializeNewtypeStruct ==
  /\ Deserializing({"newtype"})
  /\ Stay /\ Calls(<<Deserialize(Top.ty.of[1]), Make("newtype", 1)>>)

DeserializeStruct ==
  /\ Deserializing({"struct"})
  /\ Stay
  /\ Calls(<<Expect("dict"), VisitStruct("struct", "", Top.ty.of, <<>>), Expect("end")>>)

NothingLeft == Peek.kind = "none"

DeserializeOption ==
  /\ Deserializing({"option"})
  /\ LET content == Top.ty.of[1] IN
     \/ /\ option_mode = Root /\ NothingLeft
        /\ Stay /\ Returns(Val("none", <<>>))
     \/ /\ (option_mode = Root /\ ~NothingLeft) \/ option_mode = StructField
        /\ Stay /\ Calls(<<WithMode(Explicit, content), Make("some", 1)>>)
     \/ /\ option_mode = Explicit /\ Peek.kind = "dict"
        /\ Consume /\ Calls(<<Deserialize([Top.ty EXCEPT !.k = "explicit"]), Expect("end")>>)
     \/ /\ option_mode = Explicit /\ Peek.kind # "dict"
        /\ Fail

(* What is inside the dictionary that stands for an Option.                 *)
ExplicitOption ==
  /\ Deserializing({"explicit"})
  /\ LET some == Peek.kind = "value" /\ Peek.arg = "Some"
         none == Peek.kind = "value" /\ Peek.arg = "None"
     IN  \/ some /\ Consume /\ Calls(<<Deserialize(Top.ty.of[1]), Make("some", 1)>>)
         \/ none /\ Consume /\ Calls(<<Deserialize(Type("unit", <<>>)), Make("none", 1)>>)
         \/ ~some /\ ~none /\ Fail

(* A string is the name of a variant without content; otherwise there is a  *)
(* dictionary of one entry.                                                 *)
DeserializeEnum ==
  /\ Deserializing({"enum"})
  /\ LET units == SelectSeq(Top.ty.of, LAMBDA u : u.kind = "unit_variant" /\ u.key = Peek.arg)
     IN  \/ /\ IsString(Peek) /\ units # <<>>
            /\ Consume /\ Returns(VariantVal("unit_variant", Peek.arg, <<>>))
         \/ /\ Peek.kind = "dict"
            /\ Consume
            /\ Calls(<<Deserialize([Top.ty EXCEPT !.k = "variant"]), Expect("end")>>)
         \/ /\ (IsString(Peek) /\ units = <<>>) \/ ~(IsString(Peek) \/ Peek.kind = "dict")
            /\ Fail

(* variant_seed and the methods of VariantAccess.                           *)
DeserializeVariant ==
  /\ Deserializing({"variant"})
  /\ LET known == SelectSeq(Top.ty.of, LAMBDA u : u.key = Peek.arg)
     IN  IF ~IsText(Peek) \/ known = <<>> THEN Fail
         ELSE LET u == known[1]
              IN  /\ Consume
                  /\ CASE u.kind = "unit_variant" ->
                            Calls(<<Deserialize(Type("unit", <<>>)),
                                    MakeVariant(u.kind, u.key, 1)>>)
                       [] u.kind \in {"newtype_variant", "tuple_variant"} ->
                            Calls(<<Deserialize(u.ty), MakeVariant(u.kind, u.key, 1)>>)
                       [] OTHER ->
                            Calls(<<Expect("dict"),
                                    VisitStruct(u.kind, u.key, u.ty.of, <<>>),
                                    Expect("end")>>)

(* Mutant: what follows the value is not looked at. *)
AllRead_Unchecked == TRUE

(* from_stream: nothing may follow the value.                               *)
AllRead == Peek.kind = "none"

Finish ==
  /\ outcome = "running" /\ calls = <<>>
  /\ outcome' = IF AllRead THEN "ok" ELSE "error"
  /\ UNCHANGED <<events, at, type, modes, calls, built>>

(* The deserializer before it is used, and when it is given the events es.  *)
Idle ==
  /\ events = <<>> /\ at = 1
  /\ option_mode = Root /\ in_plist_value = FALSE /\ calls = <<>> /\ built = <<>> /\ outcome = "idle"

FromStream(es) ==
  /\ events' = es
  /\ calls' = <<Deserialize(type)>>
  /\ outcome' = "running"
  /\ UNCHANGED <<at, type, modes, built>>

Step ==
  \/ ExpectEvent \/ EnterMode \/ LeaveMode \/ Unwind
  \/ EnterPlistValue \/ LeavePlistValue \/ DeserializeAny
  \/ DeserializeLeaf \/ DeserializeSeq \/ DeserializeMap \/ DeserializeIgnored
  \/ NextElement \/ NextEntry \/ NextField \/ MakeValue
  \/ DeserializeUnit \/ DeserializeNewtypeStruct \/ DeserializeStruct
  \/ DeserializeOption \/ ExplicitOption \/ DeserializeEnum \/ DeserializeVariant
  \/ Finish

(***************************************************************************)
(* Properties.                                                             *)
(***************************************************************************)

(* Events nest and pair: one value, collections closed in order, as many    *)
(* keys as values.  What serves as a key is left to the type.               *)
Nested(es) ==
  LET n == Len(es)
      Element(st) ==
        IF st = <<>> THEN st
        ELSE [st EXCEPT ![Len(st)] =
                CASE @ = "key" -> "value" [] @ = "value" -> "key" [] OTHER -> @]
      open[i \in 0..n] ==
        IF i = 0 THEN <<>>
        ELSE LET st == open[i - 1] IN
             CASE es[i].kind = "value" -> Element(st)
               [] es[i].kind = "array" -> Append(Element(st), "array")
               [] es[i].kind = "dict"  -> Append(Element(st), "key")
               [] es[i].kind = "end"   ->
                    IF st = <<>> \/ st[1] = "broken" \/ Last(st) = "value"
                    THEN <<"broken">> ELSE Front(st)
               [] es[i].kind = "error" -> <<"broken">>
  IN  n > 0 /\ \A i \in 1..n : (open[i] = <<>>) <=> (i = n)

(* Whatever the events, a value is returned only for one plist, read to its *)
(* end: although nothing but the types asked for keeps track of nesting, and*)
(* an EndCollection does not say of what.                                   *)
ReadsWholePlist ==
  outcome = "ok" =>
    /\ Len(built) = 1
    /\ Nested(events) \/ (events = <<>> /\ type.k \in {"option", "newtype"})

(* The modes are those of the root again when the outermost call returns.   *)
ModeRestored ==
  outcome \in {"ok", "error"} /\ calls = <<>> =>
    option_mode = Root /\ ~in_plist_value

=============================================================================
