------------------------------ MODULE MCSerde ------------------------------
(***************************************************************************)
(* Rust types for SerdeRoundTrip, built from one another, and their values.*)
(***************************************************************************)
EXTENDS SerdeRoundTrip

CONSTANT Depth    (* how deeply types are nested *)

MCStrings == {"", "a", "f", "g", "None", "Some", "Unit", "Newtype", "Tuple", "Struct"}
MCDates == {"date"}
MCReals == {"real"}
MCUids == {"uid"}

Ty(k, of) == [k |-> k, of |-> of]
Str == Ty("str", <<>>)
LeafTypes == {Str, Ty("unit", <<>>), Ty("date", <<>>), Ty("real", <<>>), Ty("uid", <<>>)}

(* A Value, and a field after it that only takes a date outside of one.     *)
ValueType == Ty("value", <<>>)
Beside(t) == Ty("struct", <<[key |-> "f", ty |-> ValueType], [key |-> "g", ty |-> t]>>)

Option(t) == Ty("option", <<t>>)
Seq1(t) == Ty("seq", <<t>>)
Map(t) == Ty("map", <<t>>)
Newtype(t) == Ty("newtype", <<t>>)
(* An option after t, which tells whether t has left the mode as it was.    *)
Tuple(t) == Ty("tuple", <<t, Option(Str)>>)
Struct(t) == Ty("struct", <<[key |-> "f", ty |-> t], [key |-> "g", ty |-> Option(Str)]>>)
Enum(t) ==
  Ty("enum", <<[key |-> "Unit", kind |-> "unit_variant", ty |-> Str],
               [key |-> "Newtype", kind |-> "newtype_variant", ty |-> t],
               [key |-> "Tuple", kind |-> "tuple_variant", ty |-> Tuple(t)],
               [key |-> "Struct", kind |-> "struct_variant", ty |-> Struct(t)]>>)

RECURSIVE Optional(_)
Optional(t) == t.k = "option" \/ (t.k = "newtype" /\ Optional(t.of[1]))

(* serde takes a newtype that is missing for an error, whatever is in it:   *)
(* as a field it does not come back.                                        *)
AsField(t) == t.k = "newtype" => ~Optional(t)
(* An Option is the content of a variant.                                   *)
OptionalVariant(t) == Enum(t)

Compound(t) ==
  {Option(t), Seq1(t), Map(t), Newtype(t), Tuple(t)}
    \cup (IF AsField(t) THEN {Struct(t)} ELSE {})
    \cup (IF ~Optional(t) THEN {Enum(t)} ELSE {})

RECURSIVE TypesOf(_)
TypesOf(depth) ==
  IF depth = 0 THEN {Str}
  ELSE LET inner == TypesOf(depth - 1) IN inner \cup UNION { Compound(t) : t \in inner }

ValueTypes ==
  {ValueType, Option(ValueType), Seq1(ValueType), Map(ValueType)}
    \cup { Beside(t) : t \in LeafTypes \cup {ValueType} }

V(k, v) == [k |-> k, v |-> v]
Variants(k, name, vs) == { [k |-> k, name |-> name, v |-> v] : v \in vs }

(* The Values of a depth.  A Value is serialized as what it holds.          *)
PlistLeaves == {V("str", <<"a">>), V("date", <<"date">>), V("real", <<"real">>), V("uid", <<"uid">>)}
Entry(x, y) == [key |-> V("str", <<x>>), value |-> y]
RECURSIVE PlistValues(_)
PlistValues(depth) ==
  IF depth = 0 THEN PlistLeaves
  ELSE LET inner == PlistValues(depth - 1) IN
       PlistLeaves
         \cup { V("seq", <<x>>) : x \in inner } \cup {V("seq", <<>>), V("map", <<>>)}
         \cup { V("seq", <<x, y>>) : x \in inner, y \in PlistLeaves }
         \cup { V("map", <<Entry("a", x), Entry("f", y)>>) : x \in inner, y \in PlistLeaves }

RECURSIVE ValuesOf(_)
FieldValues(fs) ==
  { <<[key |-> fs[1].key, value |-> x], [key |-> fs[2].key, value |-> y]>> :
      x \in ValuesOf(fs[1].ty), y \in ValuesOf(fs[2].ty) }
ElementValues(ts) == { <<x, y>> : x \in ValuesOf(ts[1]), y \in ValuesOf(ts[2]) }
ValuesOf(t) ==
  CASE t.k = "value" -> PlistValues(1)
    [] t.k = "str" -> {V("str", <<"a">>)}
    [] t.k \in {"date", "real", "uid"} -> {V(t.k, <<t.k>>)}
    [] t.k = "unit" -> {V("unit", <<>>)}
    [] t.k = "option" -> {V("none", <<>>)} \cup { V("some", <<x>>) : x \in ValuesOf(t.of[1]) }
    [] t.k = "seq" -> {V("seq", <<>>)} \cup { V("seq", <<x>>) : x \in ValuesOf(t.of[1]) }
    [] t.k = "map" -> { V("map", <<[key |-> V("str", <<"a">>), value |-> x]>>) :
                          x \in ValuesOf(t.of[1]) }
    [] t.k = "newtype" -> { V("newtype", <<x>>) : x \in ValuesOf(t.of[1]) }
    [] t.k = "tuple" -> { V("seq", e) : e \in ElementValues(t.of) }
    [] t.k = "struct" -> { V("struct", f) : f \in FieldValues(t.of) }
    [] t.k = "enum" ->
         Variants("unit_variant", "Unit", {<<>>})
           \cup Variants("newtype_variant", "Newtype", { <<x>> : x \in ValuesOf(t.of[2].ty) })
           \cup Variants("tuple_variant", "Tuple", ElementValues(t.of[3].ty.of))
           \cup Variants("struct_variant", "Struct", FieldValues(t.of[4].ty.of))

TypedBy(types) == UNION { { [ty |-> t, value |-> x] : x \in ValuesOf(t) } : t \in types }

MCDisturbed == UNION { Compound(t) : t \in LeafTypes } \cup TypesOf(1) \cup {ValueType, Beside(Str)}
MCTyped == TypedBy(MCDisturbed \cup ValueTypes \cup TypesOf(Depth))
             \cup { [ty |-> ValueType, value |-> x] : x \in PlistValues(2) }
MCInputs == { t.value : t \in MCTyped }

(* The values that are in a value, and the value itself.                    *)
RECURSIVE Parts(_)
Parts(x) ==
  {x} \cup
  CASE x.k \in {"some", "newtype", "newtype_variant", "seq", "tuple_variant"} ->
         UNION { Parts(x.v[i]) : i \in 1..Len(x.v) }
    [] x.k \in {"struct", "struct_variant"} ->
         UNION { Parts(x.v[i].value) : i \in 1..Len(x.v) }
    [] x.k = "map" ->
         UNION { Parts(x.v[i].key) \cup Parts(x.v[i].value) : i \in 1..Len(x.v) }
    [] OTHER -> {}
MCValues == { y : y \in UNION { Parts(x) : x \in MCInputs } }
MCAtoms == MCStrings \cup MCDates \cup MCReals \cup MCUids

(* Variants whose content is an Option, in a field.                         *)
VariantTyped == TypedBy({Struct(OptionalVariant(Option(Str)))})
VariantInputs == { t.value : t \in VariantTyped }
VariantValues == UNION { Parts(x) : x \in VariantInputs }

=============================================================================
