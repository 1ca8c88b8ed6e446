------------------------------ MODULE SerdeProofs ------------------------------
(***************************************************************************)
(* The serializer writes whole plists, and leaves the option mode as it    *)
(* found it, for all values of serde's data model.  Whatever is serialized *)
(* and whatever is deserialized, with whatever errors: the modes are those *)
(* of the root again when the last call has returned.                      *)
(***************************************************************************)
EXTENDS SerdeRoundTrip, SequenceLemmas

(***************************************************************************)
(* Types.                                                                  *)
(***************************************************************************)
Collections == {"array", "dict"}
Events == [kind : Collections \cup {"value", "end"}, arg : Atoms]
Modes == [mode : {"Root", "StructField", "StructFieldNameWritten", "Explicit"}, field : Atoms]

Frames ==
  [op : {"write"}, event : Events]
    \cup [op : {"serialize"}, arg : Values]
    \cup [op : {"with"}, mode : Modes, arg : Values]
    \cup [op : {"restore"}, mode : Modes]

SerializerTypeOK ==
  /\ value \in Values
  /\ option_mode \in Modes
  /\ calls \in Seq(Frames)
  /\ expects \in Seq({"array", "key", "value"})
  /\ written \in Seq(Events)
  /\ outcome \in {"running", "ok", "error", "panic"}

(* The fields of a frame.                                                   *)
LEMMA FrameFacts ==
  /\ \A e : Write(e).op = "write" /\ Write(e).event = e
  /\ \A e \in Events : Write(e) \in Frames
  /\ \A x : Serialize(x).op = "serialize" /\ Serialize(x).arg = x
  /\ \A x \in Values : Serialize(x) \in Frames
  /\ \A m, x : WithMode(m, x).op = "with" /\ WithMode(m, x).mode = m /\ WithMode(m, x).arg = x
  /\ \A m \in Modes, x \in Values : WithMode(m, x) \in Frames
  /\ \A m : Restore(m).op = "restore" /\ Restore(m).mode = m
  /\ \A m \in Modes : Restore(m) \in Frames
  BY DEF Write, Serialize, WithMode, Restore, Frames

(* The events the serializer writes.                                        *)
LEMMA EventFacts ==
  /\ \A a : Leaf(a).kind = "value"
  /\ \A a \in Atoms : Leaf(a) \in Events
  /\ \A k : Start(k).kind = k
  /\ \A k \in Collections : Start(k) \in Events
  /\ End.kind = "end" /\ End \in Events
  BY ValuesAssumption DEF Leaf, Start, End, Events, Collections

(* The option modes.                                                        *)
LEMMA ModeFacts ==
  /\ Root \in Modes /\ Explicit \in Modes /\ StructFieldNameWritten \in Modes
  /\ \A name \in Atoms : StructField(name) \in Modes
  /\ Root.mode = "Root" /\ Explicit.mode = "Explicit"
  /\ StructFieldNameWritten.mode = "StructFieldNameWritten"
  BY ValuesAssumption DEF Root, Explicit, StructFieldNameWritten, StructField, Mode, Modes

(***************************************************************************)
(* How deep in the collections that are open each call on the stack is     *)
(* carried out.                                                            *)
(***************************************************************************)
Opens(f) == f.op = "write" /\ f.event.kind \in Collections
Closes(f) == f.op = "write" /\ f.event.kind = "end"
Closed(f) == IF Closes(f) THEN 1 ELSE IF Opens(f) THEN -1 ELSE 0

(* A call that begins a value.                                              *)
IsItem(f) == f.op \in {"serialize", "with"} \/ (f.op = "write" /\ ~Closes(f))

(* A call under which a field name is yet to be written.                    *)
AwaitsName(f) == f.op \in {"with", "restore"} /\ f.mode.mode = "StructField"

(* Calls in the order in which they are carried out, relative to the first. *)
Balance(fs, q) ==
  /\ q \in [1..(Len(fs) + 1) -> Nat]
  /\ q[1] = 0 /\ q[Len(fs) + 1] = 0
  /\ \A j \in 1..Len(fs) : q[j + 1] = q[j] - Closed(fs[j])

(* What is in a collection, and one value.                                  *)
IsContent(fs) == fs \in Seq(Frames) /\ Without(fs, "restore") /\ \E q : Balance(fs, q)

FirstOnly(fs, q) ==
  \A j \in 1..Len(fs) : q[j] = 0 => (IsItem(fs[j]) => j = 1) /\ ~AwaitsName(fs[j])

IsOneValue(fs) ==
  /\ fs \in Seq(Frames) /\ Without(fs, "restore")
  /\ \E q : Balance(fs, q) /\ FirstOnly(fs, q)

IsWritten(fs) == IsOneValue(fs) /\ fs # <<>> /\ fs[1].op = "write"

(* Calls that open and close nothing.                                       *)
LEMMA FlatIsContent ==
  ASSUME NEW fs \in Seq(Frames), Without(fs, "restore"),
         \A j \in 1..Len(fs) : Closed(fs[j]) = 0
  PROVE  IsContent(fs)
<1>1. Len(fs) \in Nat
  BY LenProperties
<1> DEFINE q == [j \in 1..(Len(fs) + 1) |-> 0]
<1>2. Balance(fs, q)
  BY <1>1 DEF Balance
<1> HIDE DEF q
<1> QED
  BY <1>2 DEF IsContent

(* A single call.                                                           *)
LEMMA SingleIsOneValue ==
  ASSUME NEW f \in Frames, f.op # "restore", Closed(f) = 0, ~AwaitsName(f)
  PROVE  IsOneValue(<<f>>)
<1> DEFINE fs == <<f>>
           q == [j \in 1..2 |-> 0]
<1>1. fs \in Seq(Frames) /\ Len(fs) = 1 /\ fs[1] = f
  OBVIOUS
<1> HIDE DEF fs
<1>2. Without(fs, "restore")
  BY <1>1 DEF Without
<1>3. Balance(fs, q)
  BY <1>1 DEF Balance
<1>4. FirstOnly(fs, q)
  BY <1>1 DEF FirstOnly
<1> HIDE DEF q
<1>5. IsOneValue(fs)
  BY <1>1, <1>2, <1>3, <1>4 DEF IsOneValue
<1> QED
  BY <1>5 DEF fs

(* A collection: its start, what is in it, and its end.                     *)
LEMMA CollectionIsOneValue ==
  ASSUME NEW c, IsContent(c), NEW k \in Collections
  PROVE  IsWritten(<<Write(Start(k))>> \o c \o <<Write(End)>>)
<1> DEFINE first == Write(Start(k))
           last == Write(End)
           fs == <<first>> \o c \o <<last>>
           n == Len(c)
<1>1. PICK q : Balance(c, q)
  BY DEF IsContent
<1>2. c \in Seq(Frames) /\ n \in Nat /\ Without(c, "restore")
  BY LenProperties DEF IsContent
<1>3. first \in Frames /\ last \in Frames /\ Closed(first) = -1 /\ Closed(last) = 1
  BY EventFacts, FrameFacts DEF Closed, Opens, Closes, Collections
<1>4. first.op = "write" /\ last.op = "write" /\ ~IsItem(last) /\ ~AwaitsName(first)
  BY EventFacts, FrameFacts DEF IsItem, Closes, AwaitsName
<1> HIDE DEF first, last, n
<1>5. /\ fs \in Seq(Frames) /\ Len(fs) = n + 2
      /\ fs[1] = first /\ fs[n + 2] = last
      /\ \A j \in 2..(n + 1) : fs[j] = c[j - 1]
  <2> DEFINE a == <<first>>
             b == <<last>>
  <2>1. /\ a \in Seq(Frames) /\ Len(a) = 1 /\ a[1] = first
        /\ b \in Seq(Frames) /\ Len(b) = 1 /\ b[1] = last
    BY <1>3
  <2> HIDE DEF a, b
  <2> DEFINE ac == a \o c
  <2>2. /\ ac \in Seq(Frames)
        /\ Len(ac) = Len(a) + Len(c)
        /\ \A j \in 1..(Len(a) + Len(c)) : ac[j] = IF j <= Len(a) THEN a[j] ELSE c[j - Len(a)]
    BY <1>2, <2>1, ConcatProperties
  <2>3. /\ Len(ac) = n + 1 /\ ac[1] = first
        /\ \A j \in 2..(n + 1) : ac[j] = c[j - 1]
    <3> HIDE DEF ac
    <3> QED
      BY <1>2, <2>1, <2>2 DEF n
  <2>4. ac \in Seq(Frames)
    BY <2>2
  <2> HIDE DEF ac
  <2> DEFINE acb == ac \o b
  <2>5. /\ acb \in Seq(Frames)
        /\ Len(acb) = Len(ac) + Len(b)
        /\ \A j \in 1..(Len(ac) + Len(b)) : acb[j] = IF j <= Len(ac) THEN ac[j] ELSE b[j - Len(ac)]
    BY <2>1, <2>4, ConcatProperties
  <2>6. fs = acb
    BY DEF acb, ac, a, b
  <2> HIDE DEF acb, fs
  <2> QED
    BY <1>2, <2>1, <2>3, <2>5, <2>6
<1> HIDE DEF fs
<1> DEFINE p == [j \in 1..(n + 3) |-> IF j = 1 \/ j = n + 3 THEN 0 ELSE 1 + q[j - 1]]
<1>6. q \in [1..(n + 1) -> Nat] /\ q[1] = 0 /\ q[n + 1] = 0
  BY <1>1 DEF Balance, n
<1>7. \A j \in 1..n : q[j + 1] = q[j] - Closed(c[j])
  BY <1>1 DEF Balance, n
<1>8. Balance(fs, p)
  <2>1. p \in [1..(n + 3) -> Nat]
    BY <1>2, <1>6
  <2>2. p[1] = 0 /\ p[n + 3] = 0
    BY <1>2
  <2>3. ASSUME NEW j \in 1..(n + 2)
        PROVE  p[j + 1] = p[j] - Closed(fs[j])
    <3>1. CASE j = 1
      <4>1. p[2] = 1 /\ p[1] = 0
        BY <1>2, <1>6
      <4> QED
        BY <1>3, <1>5, <3>1, <4>1
    <3>2. CASE j = n + 2 /\ j # 1
      <4>1. p[n + 3] = 0 /\ p[n + 2] = 1
        BY <1>2, <1>6
      <4> QED
        BY <1>2, <1>3, <1>5, <3>2, <4>1
    <3>3. CASE j \in 2..(n + 1)
      <4>1. p[j] = 1 + q[j - 1] /\ p[j + 1] = 1 + q[j] /\ fs[j] = c[j - 1]
        BY <1>2, <1>5, <3>3
      <4>2. q[j] = q[j - 1] - Closed(c[j - 1])
        BY <1>2, <1>7, <3>3
      <4>3. q[j - 1] \in Nat /\ q[j] \in Nat
        BY <1>2, <1>6, <3>3
      <4>4. Closed(c[j - 1]) \in Int
        BY DEF Closed
      <4> QED
        BY <4>1, <4>2, <4>3, <4>4
    <3> QED
      BY <1>2, <3>1, <3>2, <3>3
  <2> HIDE DEF p
  <2> QED
    BY <1>2, <1>5, <2>1, <2>2, <2>3 DEF Balance
<1>9. FirstOnly(fs, p)
  <2> SUFFICES ASSUME NEW j \in 1..(n + 2), p[j] = 0
               PROVE  (IsItem(fs[j]) => j = 1) /\ ~AwaitsName(fs[j])
    BY <1>5 DEF FirstOnly
  <2>1. j = 1
    BY <1>2, <1>6
  <2> QED
    BY <1>4, <1>5, <2>1
<1>10. Without(fs, "restore")
  BY <1>2, <1>4, <1>5 DEF Without, n
<1> HIDE DEF p
<1>11. IsWritten(fs)
  <2>1. fs # <<>>
    BY <1>2, <1>5, EmptyIffZero
  <2> QED
    BY <1>4, <1>5, <1>8, <1>9, <1>10, <2>1 DEF IsOneValue, IsWritten
<1> QED
  BY <1>11 DEF fs, first, last

(* One value is what an array may hold.                                     *)
LEMMA OneValueIsContent ==
  ASSUME NEW fs, IsOneValue(fs) \/ IsWritten(fs)
  PROVE  IsContent(fs)
  BY DEF IsOneValue, IsContent, IsWritten

(* A key before what there is. *)
LEMMA KeyedIsContent ==
  ASSUME NEW c, IsContent(c), NEW a \in Atoms
  PROVE  IsContent(<<Write(Leaf(a))>> \o c)
<1> DEFINE first == Write(Leaf(a))
           pre == <<first>>
           fs == pre \o c
           n == Len(c)
<1>1. PICK q : Balance(c, q)
  BY DEF IsContent
<1>2. c \in Seq(Frames) /\ n \in Nat /\ Without(c, "restore")
  BY LenProperties DEF IsContent
<1>3. first \in Frames /\ Closed(first) = 0 /\ first.op = "write"
  BY EventFacts, FrameFacts DEF Closed, Opens, Closes, Collections
<1> HIDE DEF first, n
<1>4. pre \in Seq(Frames) /\ Len(pre) = 1 /\ pre[1] = first
  BY <1>3
<1> HIDE DEF pre
<1>5. /\ fs \in Seq(Frames)
      /\ Len(fs) = Len(pre) + Len(c)
      /\ \A j \in 1..(Len(pre) + Len(c)) : fs[j] = IF j <= Len(pre) THEN pre[j] ELSE c[j - Len(pre)]
  BY <1>2, <1>4, ConcatProperties
<1> HIDE DEF fs
<1>6. /\ Len(fs) = n + 1 /\ fs[1] = first
      /\ \A j \in 2..(n + 1) : fs[j] = c[j - 1]
  BY <1>2, <1>4, <1>5 DEF n
<1> DEFINE p == [j \in 1..(n + 2) |-> IF j = 1 THEN 0 ELSE q[j - 1]]
<1>7. /\ q \in [1..(n + 1) -> Nat] /\ q[1] = 0 /\ q[n + 1] = 0
      /\ \A j \in 1..n : q[j + 1] = q[j] - Closed(c[j])
  BY <1>1 DEF Balance, n
<1>8. Balance(fs, p)
  <2>1. p \in [1..(n + 2) -> Nat] /\ p[1] = 0 /\ p[n + 2] = 0
    BY <1>2, <1>7
  <2>2. ASSUME NEW j \in 1..(n + 1)
        PROVE  p[j + 1] = p[j] - Closed(fs[j])
    <3>1. CASE j = 1
      <4>1. p[2] = 0 /\ p[1] = 0
        BY <1>2, <1>7
      <4> QED
        BY <1>3, <1>6, <3>1, <4>1
    <3>2. CASE j \in 2..(n + 1)
      <4>1. p[j] = q[j - 1] /\ p[j + 1] = q[j] /\ fs[j] = c[j - 1]
        BY <1>2, <1>6, <3>2
      <4>2. q[j] = q[j - 1] - Closed(c[j - 1])
        BY <1>2, <1>7, <3>2
      <4> QED
        BY <4>1, <4>2
    <3> QED
      BY <1>2, <3>1, <3>2
  <2> HIDE DEF p
  <2>3. Len(fs) = n + 1 /\ Len(fs) + 1 = n + 2
    BY <1>2, <1>6
  <2>4. /\ p \in [1..(Len(fs) + 1) -> Nat] /\ p[1] = 0 /\ p[Len(fs) + 1] = 0
        /\ \A j \in 1..Len(fs) : p[j + 1] = p[j] - Closed(fs[j])
    BY <2>1, <2>2, <2>3, ZenonT(60)
  <2> QED
    BY <2>4, ZenonT(60) DEF Balance
<1>9. Without(fs, "restore")
  <2> SUFFICES ASSUME NEW j \in 1..(n + 1)
               PROVE  fs[j].op # "restore"
    BY <1>2, <1>6 DEF Without
  <2>1. CASE j = 1
    BY <1>3, <1>6, <2>1
  <2>2. CASE j \in 2..(n + 1)
    <3>1. j - 1 \in 1..n /\ fs[j] = c[j - 1]
      BY <1>2, <1>6, <2>2
    <3> QED
      BY <1>2, <3>1 DEF Without, n
  <2> QED
    BY <1>2, <2>1, <2>2
<1> HIDE DEF p
<1>10. IsContent(fs)
  BY <1>5, <1>8, <1>9 DEF IsContent
<1> QED
  BY <1>10 DEF fs, pre, first

(* Values that are written with a mode of their own.                        *)
LEMMA WithModeFacts ==
  ASSUME NEW m \in Modes, NEW x \in Values
  PROVE  /\ WithMode(m, x) \in Frames
         /\ WithMode(m, x).op # "restore" /\ Closed(WithMode(m, x)) = 0
         /\ m.mode # "StructField" => ~AwaitsName(WithMode(m, x))
  BY FrameFacts DEF Closed, Opens, Closes, AwaitsName

(* So is a row of values.                                                   *)
LEMMA MappedIsContent ==
  ASSUME NEW n \in Nat, NEW fs, fs = [i \in 1..n |-> fs[i]],
         \A i \in 1..n : \E m \in Modes, x \in Values : fs[i] = WithMode(m, x)
  PROVE  IsContent(fs)
<1>1. \A i \in 1..n : fs[i] \in Frames /\ fs[i].op # "restore" /\ Closed(fs[i]) = 0
  BY WithModeFacts
<1>2. fs \in [1..n -> Frames] /\ DOMAIN fs = 1..n
  BY <1>1
<1>3. fs \in Seq(Frames)
  BY <1>2, SeqDef
<1>4. Len(fs) = n
  BY <1>2, <1>3, LenProperties
<1> QED
  BY <1>1, <1>3, <1>4, FlatIsContent DEF Without

(* The elements of a sequence, serialized.                                  *)
LEMMA ElementsAreContent ==
  ASSUME NEW vs \in Seq(Values)
  PROVE  IsContent(Elements(vs))
<1> DEFINE fs == Elements(vs)
           n == Len(vs)
<1>1. n \in Nat /\ \A i \in 1..n : vs[i] \in Values
  BY LenProperties, ElementOfSeq
<1>2. fs = [i \in 1..n |-> WithMode(Explicit, vs[i])]
  BY DEF Elements
<1> HIDE DEF fs, n
<1>3. fs = [i \in 1..n |-> fs[i]]
  BY <1>2
<1>4. \A i \in 1..n : fs[i] = WithMode(Explicit, vs[i])
  BY <1>2
<1>5. IsContent(fs)
  BY <1>1, <1>3, <1>4, MappedIsContent, ModeFacts
<1> QED
  BY <1>5 DEF fs

(* The fields of a struct, serialized.                                      *)
LEMMA FieldsAreContent ==
  ASSUME NEW es \in Seq([key : Atoms, value : Values])
  PROVE  IsContent(Fields(es))
<1> DEFINE fs == Fields(es)
           n == Len(es)
<1>0. n \in Nat /\ \A i \in 1..n : es[i] \in [key : Atoms, value : Values]
  BY LenProperties, ElementOfSeq
<1>1. n \in Nat /\ \A i \in 1..n : es[i].key \in Atoms /\ es[i].value \in Values
  BY <1>0
<1>2. fs = [i \in 1..n |-> WithMode(StructField(es[i].key), es[i].value)]
  BY DEF Fields
<1> HIDE DEF fs, n
<1>3. fs = [i \in 1..n |-> fs[i]]
  BY <1>2
<1>4. \A i \in 1..n : fs[i] = WithMode(StructField(es[i].key), es[i].value)
  BY <1>2
<1>5. IsContent(fs)
  BY <1>1, <1>3, <1>4, MappedIsContent, ModeFacts
<1> QED
  BY <1>5 DEF fs

(* The entries of a map, serialized.                                        *)
LEMMA EntriesAreContent ==
  ASSUME NEW es \in Seq([key : Values, value : Values])
  PROVE  IsContent(Entries(es))
<1> DEFINE fs == Entries(es)
           n == Len(es)
           part(i) == IF i % 2 = 1 THEN es[(i + 1) \div 2].key ELSE es[i \div 2].value
<1>0. n \in Nat /\ \A i \in 1..n : es[i] \in [key : Values, value : Values]
  BY LenProperties, ElementOfSeq
<1>1. n \in Nat /\ \A i \in 1..n : es[i].key \in Values /\ es[i].value \in Values
  BY <1>0
<1>2. fs = [i \in 1..(2 * n) |-> WithMode(Explicit, part(i))]
  BY DEF Entries
<1> HIDE DEF n
<1>3. ASSUME NEW i \in 1..(2 * n)
      PROVE  part(i) \in Values
  <2>1. CASE i % 2 = 1
    <3>1. (i + 1) \div 2 \in 1..n
      BY <1>1, <2>1
    <3> QED
      BY <1>1, <2>1, <3>1
  <2>2. CASE i % 2 # 1
    <3>1. i \div 2 \in 1..n
      BY <1>1, <2>2
    <3> QED
      BY <1>1, <2>2, <3>1
  <2> QED
    BY <2>1, <2>2
<1> HIDE DEF fs, part
<1>4. fs = [i \in 1..(2 * n) |-> fs[i]]
  BY <1>2
<1>5. \A i \in 1..(2 * n) : fs[i] = WithMode(Explicit, part(i))
  BY <1>2
<1>6. 2 * n \in Nat
  BY <1>1
<1>7. IsContent(fs)
  BY <1>3, <1>4, <1>5, <1>6, MappedIsContent, ModeFacts
<1> QED
  BY <1>7 DEF fs

(* A single event, a single call of a serialize method.                     *)
LEMMA LeafIsOneValue ==
  ASSUME NEW a \in Atoms
  PROVE  IsWritten(<<Write(Leaf(a))>>)
<1>1. /\ Write(Leaf(a)) \in Frames /\ Write(Leaf(a)).op # "restore"
      /\ Closed(Write(Leaf(a))) = 0 /\ ~AwaitsName(Write(Leaf(a)))
  BY EventFacts, FrameFacts DEF Closed, Opens, Closes, Collections, AwaitsName
<1> DEFINE f == Write(Leaf(a))
<1>2. f.op = "write" /\ IsOneValue(<<f>>)
  BY <1>1, SingleIsOneValue, FrameFacts
<1> HIDE DEF f
<1>3. IsWritten(<<f>>)
  BY <1>2 DEF IsWritten
<1> QED
  BY <1>3 DEF f

(* A value of the data model is serialized as one value.                    *)
LEMMA SerializeIsOneValue ==
  ASSUME NEW x \in Values
  PROVE  IsOneValue(<<Serialize(x)>>)
<1>1. /\ Serialize(x) \in Frames /\ Serialize(x).op # "restore"
      /\ Closed(Serialize(x)) = 0 /\ ~AwaitsName(Serialize(x))
  BY FrameFacts DEF Closed, Opens, Closes, AwaitsName
<1> QED
  BY <1>1, SingleIsOneValue

(* So it is in a mode of its own,                                           *)
LEMMA WithModeIsOneValue ==
  ASSUME NEW x \in Values, NEW m \in Modes, m.mode # "StructField"
  PROVE  IsOneValue(<<WithMode(m, x)>>)
  BY WithModeFacts, SingleIsOneValue

(* The collections of the serialize methods.                                *)
LEMMA SeqIsOneValue ==
  ASSUME NEW vs \in Seq(Values)
  PROVE  IsWritten(SerializeSeq(vs))
  BY ElementsAreContent, CollectionIsOneValue DEF SerializeSeq, Collections

(* a map that is begun and ended,                                           *)
LEMMA MapIsOneValue ==
  ASSUME NEW es \in Seq([key : Values, value : Values])
  PROVE  IsWritten(SerializeMap(es))
  BY EntriesAreContent, CollectionIsOneValue DEF SerializeMap, Collections

(* and a struct that is.                                                    *)
LEMMA StructIsOneValue ==
  ASSUME NEW fs \in Seq([key : Atoms, value : Values])
  PROVE  IsWritten(SerializeStruct(fs))
  BY FieldsAreContent, CollectionIsOneValue DEF SerializeStruct, Collections

(* A dictionary of one entry.                                               *)
LEMMA EntryIsOneValue ==
  ASSUME NEW a \in Atoms, NEW c, IsContent(c)
  PROVE  IsWritten(<<Write(Start("dict")), Write(Leaf(a))>> \o c \o <<Write(End)>>)
<1> DEFINE start == Write(Start("dict"))
           key == Write(Leaf(a))
<1>1. start \in Frames /\ key \in Frames /\ c \in Seq(Frames)
  BY EventFacts, FrameFacts DEF Collections, IsContent
<1>2. IsWritten(<<start>> \o (<<key>> \o c) \o <<Write(End)>>)
  BY KeyedIsContent, CollectionIsOneValue DEF Collections
<1> HIDE DEF start, key
<1>3. <<start, key>> = <<start>> \o <<key>>
  BY <1>1, PairIsConcat
<1>4. (<<start>> \o <<key>>) \o c = <<start>> \o (<<key>> \o c)
  <2>1. <<start>> \in Seq(Frames) /\ <<key>> \in Seq(Frames)
    BY <1>1
  <2> QED
    BY <1>1, <2>1, ConcatAssociative
<1>5. <<start, key>> \o c = <<start>> \o (<<key>> \o c)
  BY <1>3, <1>4, Zenon
<1>6. IsWritten((<<start, key>> \o c) \o <<Write(End)>>)
  BY <1>2, <1>5, Zenon
<1> QED
  BY <1>6, Zenon DEF start, key

(* What each serialize method calls, but those for options.                 *)
LEMMA CallsAreOneValue ==
  ASSUME NEW x \in Values, x.k \notin {"none", "some"}
  PROVE  IF x.k = "newtype"
         THEN x.v[1] \in Values /\ Calls(x) = <<Serialize(x.v[1])>>
         ELSE IsWritten(Calls(x))
<1>1. CASE x.k \in {"str", "date", "real", "uid"} /\ x.v[1] \in Atoms
  BY <1>1, LeafIsOneValue DEF Calls, SerializeLeaf, SerializeDate, SerializeUid
<1>2. CASE x.k = "unit"
  BY <1>2, LeafIsOneValue, ValuesAssumption DEF Calls, SerializeUnit
<1>3. CASE x.k = "newtype" /\ x.v[1] \in Values
  BY <1>3 DEF Calls, SerializeNewtypeStruct
<1>4. CASE x.k = "seq" /\ x.v \in Seq(Values)
  BY <1>4, SeqIsOneValue DEF Calls
<1>5. CASE x.k = "map" /\ x.v \in Seq([key : Values, value : Values])
  BY <1>5, MapIsOneValue DEF Calls
<1>6. CASE x.k = "struct" /\ x.v \in Seq([key : Atoms, value : Values])
  BY <1>6, StructIsOneValue DEF Calls
<1>7. CASE x.k = "unit_variant" /\ x.name \in Atoms
  BY <1>7, LeafIsOneValue DEF Calls, SerializeUnitVariant
<1>8. CASE x.k = "newtype_variant" /\ x.name \in Atoms /\ x.v[1] \in Values
  <2>1. IsContent(<<Serialize(x.v[1])>>)
    BY <1>8, SerializeIsOneValue, OneValueIsContent
  <2> QED
    BY <1>8, <2>1, EntryIsOneValue DEF Calls, SerializeNewtypeVariant, Variant
<1>9. CASE x.k = "tuple_variant" /\ x.name \in Atoms /\ x.v \in Seq(Values)
  <2>1. IsContent(SerializeSeq(x.v))
    BY <1>9, SeqIsOneValue, OneValueIsContent
  <2> QED
    BY <1>9, <2>1, EntryIsOneValue DEF Calls, SerializeTupleVariant, Variant
<1>10. CASE x.k = "struct_variant" /\ x.name \in Atoms /\ x.v \in Seq([key : Atoms, value : Values])
  <2>1. IsContent(SerializeStruct(x.v))
    BY <1>10, StructIsOneValue, OneValueIsContent
  <2> QED
    BY <1>10, <2>1, EntryIsOneValue DEF Calls, SerializeStructVariant, Variant
<1> QED
  BY <1>1, <1>2, <1>3, <1>4, <1>5, <1>6, <1>7, <1>8, <1>9, <1>10, ValuesAssumption DEF DataModel

(* The dictionary that stands for an Option, and what is in it.             *)
LEMMA ExplicitOptionIsOneValue ==
  ASSUME NEW a \in Atoms, NEW fs, IsOneValue(fs) \/ IsWritten(fs)
  PROVE  IsWritten(ExplicitOption(a, fs))
  BY OneValueIsContent, EntryIsOneValue DEF ExplicitOption

(***************************************************************************)
(* The writer.                                                             *)
(***************************************************************************)
Expected == {"array", "key", "value"}

(* How an event changes the number of collections that are open.            *)
LEMMA TurnedFacts ==
  ASSUME NEW st \in Seq(Expected)
  PROVE  Sink!Turned(st) \in Seq(Expected) /\ Len(Sink!Turned(st)) = Len(st)
<1>1. CASE st = <<>>
  BY <1>1 DEF Sink!Turned
<1>2. CASE st # <<>>
  <2>1. Len(st) \in 1..Len(st)
    BY <1>2, FrontLast
  <2>2. st[Len(st)] \in Expected
    BY <2>1, ElementOfSeq
  <2>3. ASSUME NEW k \in Expected
        PROVE  /\ [st EXCEPT ![Len(st)] = k] \in Seq(Expected)
               /\ Len([st EXCEPT ![Len(st)] = k]) = Len(st)
    BY <2>1, ExceptSeq
  <2>4. \/ Sink!Turned(st) = st
        \/ Sink!Turned(st) = [st EXCEPT ![Len(st)] = "value"]
        \/ Sink!Turned(st) = [st EXCEPT ![Len(st)] = "key"]
    BY <1>2, <2>2 DEF Sink!Turned, Sink!Innermost, Expected
  <2> QED
    BY <2>3, <2>4 DEF Expected
<1> QED
  BY <1>1, <1>2

(* What is known of the calls is of its type.                               *)
LEMMA AfterFacts ==
  ASSUME NEW st \in Seq(Expected), NEW e \in Events, Sink!LegalIn(st, e)
  PROVE  /\ Sink!AfterIn(st, e) \in Seq(Expected)
         /\ Len(Sink!AfterIn(st, e)) = Len(st) - Closed(Write(e))
<1>0. Write(e).op = "write" /\ Write(e).event = e
  BY FrameFacts
<1>1. CASE e.kind = "end"
  <2>1. st # <<>>
    BY <1>1 DEF Sink!LegalIn
  <2>2. Sink!AfterIn(st, e) = Front(st)
    BY <1>1 DEF Sink!AfterIn, Front
  <2>3. Closed(Write(e)) = 1
    BY <1>0, <1>1 DEF Closed, Closes
  <2> QED
    BY <2>1, <2>2, <2>3, FrontLast
<1>2. CASE e.kind = "value"
  <2>1. Sink!AfterIn(st, e) = Sink!Turned(st)
    BY <1>2 DEF Sink!AfterIn
  <2>2. Closed(Write(e)) = 0
    BY <1>0, <1>2 DEF Closed, Closes, Opens, Collections
  <2> QED
    BY <2>1, <2>2, TurnedFacts, LenProperties
<1>3. CASE e.kind \in Collections
  <2>1. \/ Sink!AfterIn(st, e) = Append(Sink!Turned(st), "array")
        \/ Sink!AfterIn(st, e) = Append(Sink!Turned(st), "key")
    BY <1>3 DEF Sink!AfterIn, Collections
  <2>2. Closed(Write(e)) = -1
    BY <1>0, <1>3 DEF Closed, Closes, Opens, Collections
  <2> DEFINE t == Sink!Turned(st)
  <2>3. t \in Seq(Expected) /\ Len(t) = Len(st) /\ Len(st) \in Nat
    BY TurnedFacts, LenProperties
  <2> HIDE DEF t
  <2>4. ASSUME NEW k \in Expected
        PROVE  Append(t, k) \in Seq(Expected) /\ Len(Append(t, k)) = Len(st) + 1
    BY <2>3, AppendFacts
  <2> QED
    BY <2>1, <2>2, <2>3, <2>4 DEF Expected, t
<1> QED
  BY <1>1, <1>2, <1>3 DEF Events

(* The events of a plist, followed one by one.                              *)
IsReading(es, g) ==
  /\ g = [i \in 0..Len(es) |-> g[i]]
  /\ g[0] = Sink!Unread
  /\ \A i \in 1..Len(es) : g[i] = Sink!Follow(g[i - 1], es[i])

(* Reading the calls one by one decides whether they are whole.             *)
LEMMA ReadingDecides ==
  ASSUME NEW es \in Seq(Events), NEW g, IsReading(es, g)
  PROVE  Sink!WholePlist(es) <=> Sink!Complete(g[Len(es)])
<1> DEFINE n == Len(es)
           Fn(f) == [i \in 0..n |-> IF i = 0 THEN Sink!Unread ELSE Sink!Follow(f[i - 1], es[i])]
           after == CHOOSE f : f = Fn(f)
<1>1. n \in Nat
  BY LenProperties
<1>2. Sink!WholePlist(es) <=> Sink!Complete(after[n])
  BY DEF Sink!WholePlist
<1> HIDE DEF n
<1>3. g = Fn(g)
  <2>0. g[0] = Sink!Unread /\ \A i \in 1..n : g[i] = Sink!Follow(g[i - 1], es[i])
    BY DEF IsReading, n
  <2>1. \A i \in 0..n : g[i] = IF i = 0 THEN Sink!Unread ELSE Sink!Follow(g[i - 1], es[i])
    BY <1>1, <2>0
  <2>2. g = [i \in 0..n |-> g[i]]
    BY DEF IsReading, n
  <2> QED
    BY <2>1, <2>2
<1> HIDE DEF Fn
<1>4. after = Fn(after)
  BY <1>3
<1> HIDE DEF after
<1> DEFINE T == {i \in 0..n : after[i] = g[i]}
<1>5. \A i \in 0..n : /\ g[i] = IF i = 0 THEN Sink!Unread ELSE Sink!Follow(g[i - 1], es[i])
                      /\ after[i] = IF i = 0 THEN Sink!Unread ELSE Sink!Follow(after[i - 1], es[i])
  <2>1. Fn(after) = [i \in 0..n |-> IF i = 0 THEN Sink!Unread ELSE Sink!Follow(after[i - 1], es[i])]
    BY DEF Fn
  <2>2. \A i \in 0..n : after[i] = IF i = 0 THEN Sink!Unread ELSE Sink!Follow(after[i - 1], es[i])
    BY <1>4, <2>1
  <2>0. g[0] = Sink!Unread /\ \A i \in 1..n : g[i] = Sink!Follow(g[i - 1], es[i])
    BY DEF IsReading, n
  <2>3. \A i \in 0..n : g[i] = IF i = 0 THEN Sink!Unread ELSE Sink!Follow(g[i - 1], es[i])
    BY <1>1, <2>0
  <2> QED
    BY <2>2, <2>3
<1>6. 0 \in T
  BY <1>1, <1>5
<1>7. \A i \in 1..n : i - 1 \in T => i \in T
  BY <1>1, <1>5
<1>8. 0..n \subseteq T
  <2> HIDE DEF T
  <2> QED
    BY <1>1, <1>6, <1>7, BoundedInduction
<1>9. after[n] = g[n]
  BY <1>1, <1>8
<1> QED
  BY <1>2, <1>9 DEF n

(* One call more is followed from what is known of those before.            *)
LEMMA ReadingGoesOn ==
  ASSUME NEW es \in Seq(Events), NEW g, IsReading(es, g), NEW e \in Events
  PROVE  \E f : IsReading(Append(es, e), f) /\ f[Len(es) + 1] = Sink!Follow(g[Len(es)], e)
<1> DEFINE n == Len(es)
           t == Append(es, e)
           f == [i \in 0..(n + 1) |-> IF i <= n THEN g[i] ELSE Sink!Follow(g[n], e)]
<1>1. /\ n \in Nat /\ Len(t) = n + 1 /\ t[n + 1] = e
      /\ \A i \in 1..n : t[i] = es[i]
  BY AppendFacts
<1>2. g[0] = Sink!Unread /\ \A i \in 1..n : g[i] = Sink!Follow(g[i - 1], es[i])
  BY DEF IsReading
<1> HIDE DEF n, t
<1>3. f[0] = Sink!Unread
  BY <1>1, <1>2
<1>4. \A i \in 1..(n + 1) : f[i] = Sink!Follow(f[i - 1], t[i])
  <2> SUFFICES ASSUME NEW i \in 1..(n + 1)
               PROVE  f[i] = Sink!Follow(f[i - 1], t[i])
    OBVIOUS
  <2>1. CASE i = n + 1
    <3>1. f[i] = Sink!Follow(g[n], e) /\ f[i - 1] = g[n] /\ t[i] = e
      BY <1>1, <2>1
    <3> QED
      BY <3>1
  <2>2. CASE i \in 1..n
    <3>1. f[i] = g[i] /\ f[i - 1] = g[i - 1] /\ t[i] = es[i]
      BY <1>1, <2>2
    <3> QED
      BY <1>2, <2>2, <3>1
  <2> QED
    BY <1>1, <2>1, <2>2
<1>5. f = [i \in 0..(n + 1) |-> f[i]] /\ f[n + 1] = Sink!Follow(g[n], e)
  BY <1>1
<1> HIDE DEF f
<1>6. IsReading(t, f)
  BY <1>1, <1>3, <1>4, <1>5 DEF IsReading
<1> QED
  BY <1>5, <1>6 DEF t, n

(***************************************************************************)
(* The inductive invariant.                                                *)
(***************************************************************************)
(* The outermost call that restores the mode restores that of the root.     *)
KeepsOptionMode ==
  /\ \A i \in 1..Len(calls) : Outermost(calls, "restore", i) => calls[i].mode = Root
  /\ Without(calls, "restore") => option_mode = Root

(* How deep each call is carried out: the outermost ones at the root.       *)
HasDepth(s, b) ==
  /\ b \in [0..Len(s) -> Nat]
  /\ b[0] = 0
  /\ \A i \in 1..Len(s) : b[i] = b[i - 1] + Closed(s[i])

(* The writer's collections are those that the calls under way will close.  *)
(* At the root there is one value, unless it has been begun; and no field   *)
(* name is due there.                                                       *)
DepthOf(b) ==
  /\ HasDepth(calls, b)
  /\ b[Len(calls)] = Len(expects)
  /\ \A i \in 1..Len(calls) : b[i] = 0 =>
       /\ IsItem(calls[i]) =>
            /\ written = <<>>
            /\ \A j \in 1..Len(calls) : b[j] = 0 /\ IsItem(calls[j]) => j = i
       /\ ~AwaitsName(calls[i])
  /\ option_mode.mode = "StructField" => expects # <<>>

Deep == outcome \in {"running", "ok"} => \E b : DepthOf(b)

(* What is written is the beginning of one plist.                           *)
Begun == \E g : IsReading(written, g) /\
           g[Len(written)] = [begun |-> written # <<>>, legal |-> TRUE, stack |-> expects]

(* As long as nothing is written something will be, or the value is left    *)
(* out: an Option, perhaps in newtypes.                                     *)
Blank ==
  written = <<>> /\ outcome \in {"running", "ok"} =>
    \/ value.k \in {"none", "newtype"}
    \/ /\ outcome = "running" /\ calls # <<>>
       /\ \/ Top.op = "write"
          \/ Top.op = "with" /\ Top.mode = Explicit
          \/ Top.op = "serialize" /\ option_mode = Explicit
          \/ Top = Serialize(value) /\ option_mode = Root

OkIsEmpty == outcome = "ok" => calls = <<>>

SInv == SerializerTypeOK /\ KeepsOptionMode /\ Deep /\ Begun /\ Blank /\ OkIsEmpty

(* The invariant holds at first.                                            *)
LEMMA InitSInv == Init => SInv
<1> SUFFICES ASSUME Init
             PROVE  SInv
  OBVIOUS
<1> DEFINE f == Serialize(value)
           s == <<f>>
<1>0. value \in Values
  BY ValuesAssumption DEF Init
<1>1. f \in Frames /\ f.op = "serialize" /\ f.arg = value
  BY <1>0, FrameFacts
<1>2. calls = s /\ expects = <<>> /\ written = <<>> /\ option_mode = Root /\ outcome = "running"
  BY DEF Init
<1> HIDE DEF f
<1>3. s \in Seq(Frames) /\ Len(s) = 1 /\ s[1] = f /\ s # <<>>
  BY <1>1
<1> HIDE DEF s
<1>4. expects \in Seq(Expected) /\ Len(expects) = 0 /\ written \in Seq(Events) /\ Len(written) = 0
  BY <1>2, EmptySeq
<1>5. SerializerTypeOK
  BY <1>0, <1>2, <1>3, <1>4, ModeFacts DEF SerializerTypeOK, Expected
<1>6. KeepsOptionMode
  BY <1>1, <1>2, <1>3 DEF KeepsOptionMode, Outermost
<1>7. Closed(f) = 0 /\ IsItem(f) /\ ~AwaitsName(f)
  BY <1>1 DEF Closed, Closes, Opens, IsItem, AwaitsName
<1>8. Deep
  <2> DEFINE b == [i \in 0..1 |-> 0]
  <2>1. HasDepth(s, b)
    BY <1>3, <1>7 DEF HasDepth
  <2>2. \A i \in 1..Len(s) : b[i] = 0 => s[i] = f /\ \A j \in 1..Len(s) : j = i
    BY <1>3
  <2>3. b[Len(s)] = 0
    BY <1>3
  <2> HIDE DEF b
  <2>4. DepthOf(b)
    BY <1>2, <1>4, <1>7, <2>1, <2>2, <2>3, ModeFacts DEF DepthOf
  <2> QED
    BY <2>4 DEF Deep
<1>9. Begun
  <2> DEFINE g == [i \in 0..0 |-> Sink!Unread]
  <2>1. IsReading(written, g)
    BY <1>4 DEF IsReading
  <2>2. g[0] = [begun |-> FALSE, legal |-> TRUE, stack |-> <<>>]
    BY DEF Sink!Unread
  <2> HIDE DEF g
  <2> QED
    BY <1>2, <1>4, <2>1, <2>2 DEF Begun
<1>10. Last(calls) = f
  BY <1>2, <1>3, FrontLast
<1>11. Blank
  BY <1>2, <1>3, <1>10 DEF Blank, Top, f
<1>12. OkIsEmpty
  BY <1>2 DEF OkIsEmpty
<1> QED
  BY <1>5, <1>6, <1>8, <1>9, <1>11, <1>12 DEF SInv

(***************************************************************************)
(* A call is replaced by the calls it makes.                               *)
(***************************************************************************)
(* What Replaced says of the call stack. *)
LEMMA CallsReplaced ==
  ASSUME NEW s \in Seq(Frames), s # <<>>, NEW fs \in Seq(Frames)
  PROVE  /\ Len(Replace(s, fs)) = Len(s) - 1 + Len(fs)
         /\ Len(s) \in Nat \ {0} /\ Len(fs) \in Nat
         /\ \A i \in 1..(Len(s) - 1) : Replace(s, fs)[i] = s[i]
         /\ \A i \in Len(s)..(Len(s) - 1 + Len(fs)) :
              Replace(s, fs)[i] = fs[Len(fs) + Len(s) - i]
<1>1. \A i \in 1..(Len(s) - 1) : Replace(s, fs)[i] = s[i]
  BY Replaced, ZenonT(60)
<1>2. \A i \in Len(s)..(Len(s) - 1 + Len(fs)) :
        Replace(s, fs)[i] = fs[Len(fs) + Len(s) - i]
  BY Replaced, ZenonT(60)
<1>3. Len(Replace(s, fs)) = Len(s) - 1 + Len(fs) /\ Len(s) \in Nat \ {0} /\ Len(fs) \in Nat
  BY Replaced, ZenonT(60)
<1> QED
  BY <1>1, <1>2, <1>3, Zenon

(* The depth of the frames after one is replaced.                           *)
LEMMA DepthReplaced ==
  ASSUME NEW s \in Seq(Frames), s # <<>>, Closed(Last(s)) = 0,
         NEW b, HasDepth(s, b), NEW fs \in Seq(Frames), NEW q, Balance(fs, q)
  PROVE  \E c : /\ HasDepth(Replace(s, fs), c)
                /\ c[Len(Replace(s, fs))] = b[Len(s)]
                /\ \A i \in 1..(Len(s) - 1) : c[i] = b[i]
                /\ \A i \in Len(s)..(Len(s) - 1 + Len(fs)) :
                     c[i] = b[Len(s)] + q[Len(fs) + Len(s) - i]
<1> DEFINE k == Len(s)
           m == Len(fs)
           r == Replace(s, fs)
<1>1. /\ Len(r) = k - 1 + m /\ k \in Nat \ {0} /\ m \in Nat
      /\ \A i \in 1..(k - 1) : r[i] = s[i]
      /\ \A i \in k..(k - 1 + m) : r[i] = fs[m + k - i]
  BY CallsReplaced, Zenon
<1>2. Last(s) = s[k]
  BY FrontLast
<1> HIDE DEF k, m, r
<1>3. /\ b \in [0..k -> Nat] /\ b[0] = 0
      /\ \A i \in 1..k : b[i] = b[i - 1] + Closed(s[i])
  BY DEF HasDepth, k
<1>4. /\ q \in [1..(m + 1) -> Nat] /\ q[1] = 0 /\ q[m + 1] = 0
      /\ \A j \in 1..m : q[j + 1] = q[j] - Closed(fs[j])
  BY DEF Balance, m
<1>5. b[k] = b[k - 1] /\ b[k] \in Nat
  <2>1. b[k] = b[k - 1] + Closed(s[k]) /\ b[k - 1] \in Nat /\ b[k] \in Nat
    BY <1>1, <1>3
  <2> QED
    BY <1>2, <2>1
<1> DEFINE c == [i \in 0..(k - 1 + m) |-> IF i < k THEN b[i] ELSE b[k] + q[m + k - i]]
<1>6. c \in [0..(k - 1 + m) -> Nat] /\ c[0] = 0
  <2>1. \A i \in 0..(k - 1 + m) : i < k => b[i] \in Nat
    BY <1>1, <1>3
  <2>2. \A i \in 0..(k - 1 + m) : ~(i < k) => b[k] + q[m + k - i] \in Nat
    BY <1>1, <1>4, <1>5, SMTT(40)
  <2> QED
    BY <1>1, <1>3, <2>1, <2>2
<1>7. ASSUME NEW i \in 1..(k - 1 + m)
      PROVE  c[i] = c[i - 1] + Closed(r[i])
  <2>1. CASE i < k
    <3>1. c[i] = b[i] /\ c[i - 1] = b[i - 1] /\ r[i] = s[i]
      BY <1>1, <2>1
    <3> QED
      BY <1>1, <1>3, <2>1, <3>1
  <2>2. CASE i >= k
    <3> DEFINE j == m + k - i
    <3>1. j \in 1..m /\ i \in k..(k - 1 + m)
      BY <1>1, <2>2
    <3>2. r[i] = fs[j] /\ c[i] = b[k] + q[j]
      BY <1>1, <2>2, <3>1
    <3>3. c[i - 1] = b[k] + q[j + 1]
      <4>1. CASE i = k
        BY <1>1, <1>3, <1>4, <1>5, <4>1
      <4>2. CASE i > k
        <5>1. m + k - (i - 1) = j + 1 /\ ~(i - 1 < k)
          BY <1>1, <4>2
        <5> QED
          BY <1>1, <5>1
      <4> QED
        BY <1>1, <2>2, <4>1, <4>2
    <3> HIDE DEF j, c
    <3>4. q[j + 1] = q[j] - Closed(fs[j]) /\ q[j] \in Nat /\ q[j + 1] \in Nat
      BY <1>1, <1>4, <3>1
    <3>5. Closed(fs[j]) \in Int
      BY DEF Closed
    <3> QED
      BY <1>5, <3>2, <3>3, <3>4, <3>5
  <2> QED
    BY <1>1, <2>1, <2>2
<1>8. c[k - 1 + m] = b[k]
  <2>1. CASE m = 0
    BY <1>1, <1>5, <2>1
  <2>2. CASE m # 0
    BY <1>1, <1>4, <1>5, <2>2
  <2> QED
    BY <2>1, <2>2
<1>9. /\ \A i \in 1..(k - 1) : c[i] = b[i]
      /\ \A i \in k..(k - 1 + m) : c[i] = b[k] + q[m + k - i]
  BY <1>1
<1> HIDE DEF c
<1>10. HasDepth(r, c) /\ c[Len(r)] = b[k]
  BY <1>1, <1>6, <1>7, <1>8 DEF HasDepth
<1> QED
  BY <1>9, <1>10 DEF k, m, r

(* The innermost call returns. *)
LEMMA DepthReturned ==
  ASSUME NEW s \in Seq(Frames), s # <<>>, NEW b, HasDepth(s, b)
  PROVE  \E c : /\ HasDepth(Replace(s, <<>>), c)
                /\ c[Len(s) - 1] = b[Len(s)] - Closed(Last(s))
                /\ \A i \in 1..(Len(s) - 1) : c[i] = b[i]
<1> DEFINE k == Len(s)
           r == Replace(s, <<>>)
           c == [i \in 0..(k - 1) |-> b[i]]
<1>1. /\ Len(r) = k - 1 /\ k \in Nat \ {0}
      /\ \A i \in 1..(k - 1) : r[i] = s[i]
  BY Returned
<1>2. Last(s) = s[k]
  BY FrontLast
<1> HIDE DEF k, r
<1>3. /\ b \in [0..k -> Nat] /\ b[0] = 0
      /\ \A i \in 1..k : b[i] = b[i - 1] + Closed(s[i])
  BY DEF HasDepth, k
<1>4. c \in [0..(k - 1) -> Nat] /\ c[0] = 0 /\ \A i \in 1..(k - 1) : c[i] = b[i]
  BY <1>1, <1>3
<1>5. ASSUME NEW i \in 1..(k - 1)
      PROVE  c[i] = c[i - 1] + Closed(r[i])
  <2>1. c[i] = b[i] /\ c[i - 1] = b[i - 1] /\ r[i] = s[i]
    BY <1>1
  <2> QED
    BY <1>1, <1>3, <2>1
<1>6. c[k - 1] = b[k] - Closed(s[k])
  <2>1. b[k] = b[k - 1] + Closed(s[k]) /\ b[k - 1] \in Nat /\ b[k] \in Nat /\ c[k - 1] = b[k - 1]
    BY <1>1, <1>3
  <2>2. Closed(s[k]) \in Int
    BY DEF Closed
  <2> QED
    BY <2>1, <2>2
<1> HIDE DEF c
<1>7. HasDepth(r, c)
  BY <1>1, <1>4, <1>5 DEF HasDepth
<1> QED
  BY <1>2, <1>4, <1>6, <1>7 DEF k, r

(* How deep each of the frames stays when one is replaced.                  *)
LEMMA DeepReplaced ==
  ASSUME SInv, outcome = "running", calls # <<>>, IsItem(Top), Closed(Top) = 0,
         NEW fs \in Seq(Frames), NEW q, Balance(fs, q),
         \A j \in 1..Len(fs) : q[j] = 0 /\ expects = <<>> =>
           (IsItem(fs[j]) => j = 1) /\ ~AwaitsName(fs[j]),
         calls' = Replace(calls, fs), UNCHANGED <<expects, written, outcome>>,
         option_mode'.mode = "StructField" => expects # <<>>
  PROVE  Deep'
<1> DEFINE k == Len(calls)
           m == Len(fs)
           r == Replace(calls, fs)
<1>1. calls \in Seq(Frames) /\ expects \in Seq(Expected)
  BY DEF SInv, SerializerTypeOK, Expected
<1>2. PICK b : DepthOf(b)
  BY DEF SInv, Deep
<1>3. HasDepth(calls, b) /\ b[k] = Len(expects)
  BY <1>2 DEF DepthOf
<1>4. /\ Len(r) = k - 1 + m /\ k \in Nat \ {0} /\ m \in Nat
      /\ \A i \in 1..(k - 1) : r[i] = calls[i]
      /\ \A i \in k..(k - 1 + m) : r[i] = fs[m + k - i]
  BY <1>1, CallsReplaced, Zenon
<1>5. Last(calls) = calls[k]
  BY <1>1, FrontLast
<1>6. PICK c : /\ HasDepth(r, c)
               /\ c[Len(r)] = b[k]
               /\ \A i \in 1..(k - 1) : c[i] = b[i]
               /\ \A i \in k..(k - 1 + m) : c[i] = b[k] + q[m + k - i]
  BY <1>1, <1>3, DepthReplaced DEF Top
<1>7. \A i \in 1..k : b[i] = 0 =>
        /\ IsItem(calls[i]) =>
             written = <<>> /\ \A j \in 1..k : b[j] = 0 /\ IsItem(calls[j]) => j = i
        /\ ~AwaitsName(calls[i])
  BY <1>2 DEF DepthOf
<1>8. Len(expects) \in Nat /\ ((expects = <<>>) <=> (Len(expects) = 0))
  BY <1>1, EmptyIffZero
<1>9. q \in [1..(m + 1) -> Nat]
  BY DEF Balance
<1>10. IsItem(calls[k])
  BY <1>5 DEF Top
<1> HIDE DEF k, m, r
<1>11. ASSUME NEW i \in k..(k - 1 + m), c[i] = 0
       PROVE  /\ expects = <<>> /\ b[k] = 0
              /\ IsItem(r[i]) => i = k - 1 + m
              /\ ~AwaitsName(r[i])
  <2>1. m + k - i \in 1..m /\ q[m + k - i] \in Nat
    BY <1>4, <1>9
  <2>2. b[k] = 0 /\ q[m + k - i] = 0
    BY <1>3, <1>6, <1>8, <1>11, <2>1
  <2>3. expects = <<>>
    BY <1>3, <1>8, <2>2
  <2>4. (IsItem(fs[m + k - i]) => m + k - i = 1) /\ ~AwaitsName(fs[m + k - i])
    BY <2>1, <2>2, <2>3 DEF m
  <2> QED
    BY <1>4, <2>1, <2>2, <2>3, <2>4
<1>12. ASSUME NEW i \in 1..Len(r), c[i] = 0
       PROVE  /\ IsItem(r[i]) =>
                   written = <<>> /\ \A j \in 1..Len(r) : c[j] = 0 /\ IsItem(r[j]) => j = i
              /\ ~AwaitsName(r[i])
  <2>1. CASE i < k
    <3>1. i \in 1..(k - 1) /\ i \in 1..k /\ i # k
      BY <1>4, <2>1
    <3>2. b[i] = 0 /\ r[i] = calls[i]
      BY <1>4, <1>6, <1>12, <3>1
    <3>3. ASSUME IsItem(r[i]), NEW j \in 1..Len(r), c[j] = 0, IsItem(r[j])
          PROVE  j = i
      <4>1. CASE j < k
        <5>1. j \in 1..(k - 1) /\ j \in 1..k
          BY <1>4, <4>1
        <5>2. b[j] = 0 /\ r[j] = calls[j]
          BY <1>4, <1>6, <3>3, <5>1
        <5> QED
          BY <1>7, <3>1, <3>2, <3>3, <5>1, <5>2
      <4>2. CASE j >= k
        <5>1. j \in k..(k - 1 + m)
          BY <1>4, <4>2
        <5>2. b[k] = 0
          BY <1>11, <3>3, <5>1
        <5>3. k \in 1..k
          BY <1>4
        <5> QED
          BY <1>7, <1>10, <3>1, <3>2, <3>3, <5>2, <5>3
      <4> QED
        BY <1>4, <4>1, <4>2
    <3> QED
      BY <1>7, <3>1, <3>2, <3>3
  <2>2. CASE i >= k
    <3>1. i \in k..(k - 1 + m) /\ k \in 1..k
      BY <1>4, <2>2
    <3>2. /\ b[k] = 0 /\ ~AwaitsName(r[i])
          /\ IsItem(r[i]) => i = k - 1 + m
      BY <1>11, <1>12, <3>1
    <3>3. written = <<>>
      BY <1>7, <1>10, <3>1, <3>2
    <3>4. ASSUME IsItem(r[i]), NEW j \in 1..Len(r), c[j] = 0, IsItem(r[j])
          PROVE  j = i
      <4>1. CASE j < k
        <5>1. j \in 1..(k - 1) /\ j \in 1..k /\ j # k
          BY <1>4, <4>1
        <5>2. b[j] = 0 /\ IsItem(calls[j])
          BY <1>4, <1>6, <3>4, <5>1
        <5> QED
          BY <1>7, <1>10, <3>1, <3>2, <5>1, <5>2
      <4>2. CASE j >= k
        <5>1. j \in k..(k - 1 + m)
          BY <1>4, <4>2
        <5> QED
          BY <1>11, <3>2, <3>4, <5>1
      <4> QED
        BY <1>4, <4>1, <4>2
    <3> QED
      BY <3>2, <3>3, <3>4
  <2> QED
    BY <1>4, <2>1, <2>2
<1>13. calls' = r /\ expects' = expects /\ written' = written
  BY DEF r
<1>14. DepthOf(c)'
  BY <1>3, <1>6, <1>12, <1>13 DEF DepthOf, HasDepth
<1> QED
  BY <1>14 DEF Deep

(* The innermost of the calls is the first of the new ones.                 *)
LEMMA InnermostReplaced ==
  ASSUME NEW s \in Seq(Frames), s # <<>>, NEW fs \in Seq(Frames), fs # <<>>
  PROVE  Replace(s, fs) # <<>> /\ Last(Replace(s, fs)) = fs[1]
<1> DEFINE k == Len(s)
           m == Len(fs)
           r == Replace(s, fs)
<1>1. /\ Len(r) = k - 1 + m /\ k \in Nat \ {0} /\ m \in Nat
      /\ \A i \in 1..(k - 1) : r[i] = s[i]
      /\ \A i \in k..(k - 1 + m) : r[i] = fs[m + k - i]
  BY CallsReplaced, Zenon
<1>2. r \in Seq(Frames)
  BY Replaced, ZenonT(60)
<1>3. m # 0
  BY EmptyIffZero
<1> HIDE DEF k, m, r
<1>4. r # <<>>
  BY <1>1, <1>2, <1>3, EmptyIffZero
<1>5. Last(r) = r[Len(r)]
  BY <1>2, <1>4, FrontLast
<1>6. Len(r) \in k..(k - 1 + m) /\ m + k - Len(r) = 1
  BY <1>1, <1>3
<1> QED
  BY <1>1, <1>4, <1>5, <1>6 DEF r

(* The calls of a value are carried out instead of its own: what has to be  *)
(* known of the first of them.                                              *)
Continues(fs, mode) ==
  \/ value.k \in {"none", "newtype"}
  \/ /\ fs # <<>>
     /\ \/ fs[1].op = "write"
        \/ fs[1].op = "with" /\ fs[1].mode = Explicit
        \/ fs[1].op = "serialize" /\ mode = Explicit

(* A call that does not restore the mode is replaced.                       *)
LEMMA ReplacedKeepsMode ==
  ASSUME SerializerTypeOK, KeepsOptionMode, calls # <<>>, Top.op # "restore",
         NEW fs \in Seq(Frames), Without(fs, "restore"), calls' = Replace(calls, fs),
         option_mode' = option_mode \/ option_mode # Root
  PROVE  KeepsOptionMode'
<1> DEFINE r == Replace(calls, fs)
<1>1. calls \in Seq(Frames) /\ ~InnermostIs(calls, "restore")
  BY DEF SerializerTypeOK, InnermostIs, Top
<1>2. /\ Without(r, "restore") => Without(calls, "restore")
      /\ \A i \in 1..Len(r) :
           Outermost(r, "restore", i) =>
             i \in 1..Len(calls) /\ Outermost(calls, "restore", i) /\ r[i] = calls[i]
  BY <1>1, Keeping
<1>3. calls' = r
  OBVIOUS
<1> HIDE DEF r
<1>4. \A i \in 1..Len(r) : Outermost(r, "restore", i) => r[i].mode = Root
  BY <1>2 DEF KeepsOptionMode
<1>5. Without(r, "restore") => option_mode' = Root
  BY <1>2 DEF KeepsOptionMode
<1> QED
  BY <1>3, <1>4, <1>5 DEF KeepsOptionMode, Outermost, Without

(* A step that replaces the frame at hand and writes nothing.               *)
LEMMA ReplacedKeeps ==
  ASSUME SInv, outcome = "running", calls # <<>>, Top.op # "restore",
         NEW fs \in Seq(Frames), Without(fs, "restore"), calls' = Replace(calls, fs),
         UNCHANGED <<value, expects, written, outcome>>,
         option_mode' \in Modes, option_mode' = option_mode \/ option_mode # Root,
         written = <<>> => Continues(fs, option_mode'),
         Deep'
  PROVE  SInv'
<1>1. calls \in Seq(Frames) /\ SerializerTypeOK /\ KeepsOptionMode
  BY DEF SInv, SerializerTypeOK
<1>2. SerializerTypeOK'
  <2>1. Replace(calls, fs) \in Seq(Frames)
    BY <1>1, Replaced, Zenon
  <2> QED
    BY <1>1, <2>1 DEF SerializerTypeOK
<1>3. KeepsOptionMode'
  BY <1>1, ReplacedKeepsMode
<1>4. Begun'
  BY DEF SInv, Begun, IsReading
<1>5. Blank'
  <2>1. fs # <<>> => calls' # <<>> /\ Last(calls') = fs[1]
    BY <1>1, InnermostReplaced
  <2> QED
    BY <2>1 DEF Blank, Continues, Top
<1>6. OkIsEmpty'
  BY DEF OkIsEmpty
<1> QED
  BY <1>2, <1>3, <1>4, <1>5, <1>6 DEF SInv

(* What is open has been begun. *)
LEMMA OpenIsWritten ==
  ASSUME SInv, written = <<>>
  PROVE  expects = <<>>
<1>1. PICK g : /\ IsReading(written, g)
               /\ g[Len(written)] = [begun |-> written # <<>>, legal |-> TRUE, stack |-> expects]
  BY DEF SInv, Begun
<1>2. Len(written) = 0
  BY EmptySeq
<1>3. g[0] = Sink!Unread
  BY <1>1 DEF IsReading
<1> QED
  BY <1>1, <1>2, <1>3 DEF Sink!Unread

(* An event is written, and what has been written goes on.                  *)
LEMMA WrittenKeeps ==
  ASSUME SInv, NEW e \in Events, Written(e), written = <<>> \/ expects # <<>>
  PROVE  /\ expects' \in Seq(Expected) /\ Len(expects') = Len(expects) - Closed(Write(e))
         /\ written' \in Seq(Events) /\ written' # <<>>
         /\ Begun'
<1>1. /\ expects \in Seq(Expected) /\ written \in Seq(Events)
  BY DEF SInv, SerializerTypeOK, Expected
<1>2. /\ Sink!LegalIn(expects, e) /\ expects' = Sink!AfterIn(expects, e)
      /\ written' = Append(written, e)
  BY DEF Written, Sink!Legal, Sink!After
<1>3. /\ expects' \in Seq(Expected)
      /\ Len(expects') = Len(expects) - Closed(Write(e))
  BY <1>1, <1>2, AfterFacts
<1>4. written' \in Seq(Events) /\ Len(written') = Len(written) + 1 /\ written' # <<>>
  BY <1>1, <1>2, AppendFacts
<1>5. PICK g : /\ IsReading(written, g)
               /\ g[Len(written)] = [begun |-> written # <<>>, legal |-> TRUE, stack |-> expects]
  BY DEF SInv, Begun
<1>6. PICK f : IsReading(written', f) /\ f[Len(written) + 1] = Sink!Follow(g[Len(written)], e)
  BY <1>1, <1>2, <1>5, ReadingGoesOn
<1>7. Sink!Follow(g[Len(written)], e) = [begun |-> TRUE, legal |-> TRUE, stack |-> expects']
  <2> DEFINE s == g[Len(written)]
  <2>1. s.legal /\ s.stack = expects /\ (s.begun => expects # <<>>)
    <3>1. s.legal = TRUE /\ s.stack = expects
      BY <1>5
    <3> DEFINE w == written # <<>>
    <3>2. s.begun = w
      <4>1. s = [begun |-> w, legal |-> TRUE, stack |-> expects]
        BY <1>5
      <4> HIDE DEF s, w
      <4> QED
        BY <4>1
    <3> HIDE DEF s
    <3> QED
      BY <3>1, <3>2, Zenon
  <2> HIDE DEF s
  <2>2. ~Sink!Complete(s)
    BY <2>1 DEF Sink!Complete
  <2>3. Sink!Follow(s, e) = [begun |-> TRUE, legal |-> TRUE, stack |-> Sink!AfterIn(s.stack, e)]
    BY <1>2, <2>1, <2>2, Zenon DEF Sink!Follow
  <2> QED
    BY <1>2, <2>1, <2>3 DEF s
<1>8. /\ IsReading(written', f)
      /\ f[Len(written')] = [begun |-> written' # <<>>, legal |-> TRUE, stack |-> expects']
  BY <1>4, <1>6, <1>7
<1> QED
  BY <1>3, <1>4, <1>8 DEF Begun, IsReading

(* What is written at the root is all there is, and the only call there.    *)
LEMMA RootIsBegunOnce ==
  ASSUME SInv, outcome = "running", calls # <<>>, IsItem(Top), expects = <<>>
  PROVE  written = <<>>
<1>1. calls \in Seq(Frames) /\ expects \in Seq(Expected)
  BY DEF SInv, SerializerTypeOK, Expected
<1>2. PICK b : DepthOf(b)
  BY DEF SInv, Deep
<1>3. Last(calls) = calls[Len(calls)] /\ Len(calls) \in Nat \ {0} /\ Len(expects) = 0
  BY <1>1, FrontLast, EmptyIffZero
<1>4. b[Len(calls)] = 0 /\ Len(calls) \in 1..Len(calls)
  BY <1>2, <1>3 DEF DepthOf
<1> QED
  BY <1>2, <1>3, <1>4 DEF DepthOf, Top

(* The call of the writer returns. *)
LEMMA WriteEventKeeps ==
  ASSUME SInv, WriteEvent
  PROVE  SInv'
<1>1. /\ calls \in Seq(Frames) /\ expects \in Seq(Expected) /\ SerializerTypeOK /\ KeepsOptionMode
      /\ outcome = "running" /\ calls # <<>> /\ Top.op = "write" /\ option_mode' = option_mode
  BY DEF SInv, SerializerTypeOK, Expected, WriteEvent, Running
<1> DEFINE e == Top.event
<1>2. Top \in Frames /\ Last(calls) = calls[Len(calls)] /\ Len(calls) \in Nat \ {0}
  BY <1>1, FrontLast DEF Top
<1>3. e \in Events /\ Closed(Write(e)) = Closed(Top) /\ Closed(Top) \in {-1, 0, 1}
  <2>1. e \in Events
    BY <1>1, <1>2 DEF Frames
  <2>2. Closed(Write(e)) = Closed(Top)
    BY <1>1, FrameFacts DEF Closed, Closes, Opens
  <2> QED
    BY <2>1, <2>2 DEF Closed
<1> HIDE DEF e
<1>4. CASE Written(e) /\ calls' = Replace(calls, <<>>)
  <2> DEFINE k == Len(calls)
             r == Replace(calls, <<>>)
  <2>1. /\ Len(r) = k - 1 /\ r \in Seq(Frames)
        /\ \A i \in 1..(k - 1) : r[i] = calls[i]
    BY <1>1, Returned
  <2>2. /\ Sink!LegalIn(expects, e)
        /\ value' = value /\ outcome' = outcome
    BY <1>4 DEF Written, Sink!Legal
  <2>3. expects = <<>> => IsItem(Top)
    BY <1>1, <2>2 DEF IsItem, Closes, Sink!LegalIn, e
  <2>4. written = <<>> \/ expects # <<>>
    BY <1>1, <2>3, RootIsBegunOnce
  <2>5. /\ expects' \in Seq(Expected) /\ Len(expects') = Len(expects) - Closed(Top)
        /\ written' \in Seq(Events) /\ written' # <<>>
        /\ Begun'
    BY <1>3, <1>4, <2>4, WrittenKeeps
  <2>6. PICK b : DepthOf(b)
    BY <1>1 DEF SInv, Deep
  <2>7. PICK c : /\ HasDepth(r, c)
                 /\ c[k - 1] = b[k] - Closed(Top)
                 /\ \A i \in 1..(k - 1) : c[i] = b[i]
    BY <1>1, <2>6, DepthReturned DEF DepthOf, Top
  <2>8. calls' = r
    BY <1>4
  <2>9. /\ b[k] = Len(expects)
        /\ \A i \in 1..k : b[i] = 0 =>
             /\ IsItem(calls[i]) =>
                  written = <<>> /\ \A j \in 1..k : b[j] = 0 /\ IsItem(calls[j]) => j = i
             /\ ~AwaitsName(calls[i])
    BY <2>6 DEF DepthOf
  <2> HIDE DEF k, r
  <2>10. ASSUME NEW i \in 1..Len(r), c[i] = 0
         PROVE  ~IsItem(r[i]) /\ ~AwaitsName(r[i])
    <3>1. i \in 1..(k - 1) /\ i \in 1..k /\ k \in 1..k /\ i # k
      BY <1>2, <2>1 DEF k
    <3>2. r[i] = calls[i] /\ b[i] = 0
      BY <2>1, <2>7, <2>10, <3>1
    <3>3. ASSUME IsItem(calls[i])
          PROVE  FALSE
      <4>1. written = <<>>
        BY <2>9, <3>1, <3>2, <3>3
      <4>2. expects = <<>> /\ Len(expects) = 0
        BY <1>1, <4>1, OpenIsWritten, EmptyIffZero
      <4>3. b[k] = 0 /\ IsItem(calls[k])
        BY <1>2, <2>3, <2>9, <4>2 DEF Top, k
      <4> QED
        BY <2>9, <3>1, <3>2, <3>3, <4>3
    <3> QED
      BY <2>9, <3>1, <3>2, <3>3
  <2>11. Deep'
    <3>1. HasDepth(r, c) /\ c[Len(r)] = Len(expects')
      BY <2>1, <2>5, <2>7, <2>9
    <3>2. option_mode'.mode # "StructField"
      BY DEF WriteEvent
    <3>3. DepthOf(c)'
      BY <2>8, <2>10, <3>1, <3>2 DEF DepthOf, HasDepth
    <3> QED
      BY <3>3 DEF Deep
  <2>12. SerializerTypeOK'
    BY <1>1, <2>1, <2>2, <2>5, <2>8 DEF SerializerTypeOK, Expected
  <2>13. KeepsOptionMode'
    <3> DEFINE none == <<>>
    <3>1. none \in Seq(Frames) /\ Without(none, "restore")
      BY EmptySeq DEF Without
    <3> HIDE DEF none
    <3>2. calls' = Replace(calls, none)
      BY <1>4 DEF none
    <3> QED
      BY <1>1, <3>1, <3>2, ReplacedKeepsMode
  <2>14. Blank' /\ OkIsEmpty'
    BY <1>1, <2>2, <2>5 DEF Blank, OkIsEmpty
  <2> QED
    BY <2>5, <2>11, <2>12, <2>13, <2>14 DEF SInv
<1>5. CASE NotWritten(e)
  BY <1>1, <1>5 DEF SInv, NotWritten, SerializerTypeOK, KeepsOptionMode, Deep, Begun, Blank,
                    OkIsEmpty, IsReading, Outermost, Without
<1> QED
  BY <1>4, <1>5 DEF WriteEvent, Do, Replace, e

(* The name of a field is written.                                          *)
LEMMA WriteFieldNameKeeps ==
  ASSUME SInv, WriteFieldName
  PROVE  SInv'
<1>1. /\ calls \in Seq(Frames) /\ expects \in Seq(Expected) /\ SerializerTypeOK /\ KeepsOptionMode
      /\ outcome = "running" /\ calls # <<>> /\ option_mode.mode = "StructField"
      /\ option_mode' = StructFieldNameWritten
  BY DEF SInv, SerializerTypeOK, Expected, WriteFieldName, Running, NameWritten
<1> DEFINE e == Leaf(option_mode.field)
<1>2. e \in Events /\ e.kind = "value"
  BY <1>1, EventFacts DEF SerializerTypeOK, Modes
<1>3. Closed(Write(e)) = 0
  BY <1>2, FrameFacts DEF Closed, Closes, Opens, Collections
<1> HIDE DEF e
<1>4. option_mode # Root /\ option_mode'.mode # "StructField" /\ option_mode' \in Modes
  BY <1>1, ModeFacts
<1>5. calls' = calls
  BY DEF WriteFieldName, Written, NotWritten
<1>6. KeepsOptionMode'
  BY <1>1, <1>4, <1>5 DEF KeepsOptionMode, Outermost, Without
<1>7. CASE Written(e)
  <2>1. PICK b : DepthOf(b)
    BY <1>1 DEF SInv, Deep
  <2>2. expects # <<>> /\ written # <<>>
    BY <1>1, <2>1, OpenIsWritten DEF DepthOf
  <2>3. /\ expects' \in Seq(Expected) /\ Len(expects') = Len(expects) - 0
        /\ written' \in Seq(Events) /\ written' # <<>>
        /\ Begun'
    BY <1>2, <1>3, <1>7, <2>2, WrittenKeeps
  <2>4. Len(expects') = Len(expects)
    BY <1>1, <2>3, LenProperties
  <2>5. DepthOf(b)'
    BY <1>4, <1>5, <2>1, <2>2, <2>4 DEF DepthOf, HasDepth
  <2>6. value' = value /\ outcome' = outcome
    BY <1>7 DEF Written
  <2>7. SerializerTypeOK'
    BY <1>1, <1>4, <1>5, <2>3, <2>6 DEF SerializerTypeOK, Expected
  <2>8. Deep' /\ Blank' /\ OkIsEmpty'
    BY <1>1, <2>3, <2>5, <2>6 DEF Deep, Blank, OkIsEmpty
  <2> QED
    BY <1>6, <2>3, <2>7, <2>8 DEF SInv
<1>8. CASE NotWritten(e)
  BY <1>1, <1>4, <1>6, <1>8 DEF SInv, NotWritten, SerializerTypeOK, Deep, Begun, Blank,
                    OkIsEmpty, IsReading
<1> QED
  BY <1>7, <1>8 DEF WriteFieldName, e

(* A value goes on to what one value is written as.                         *)
LEMMA OneValueKeeps ==
  ASSUME SInv, outcome = "running", calls # <<>>, Top.op = "serialize",
         NEW fs, IsOneValue(fs), calls' = Replace(calls, fs),
         UNCHANGED <<value, expects, written, outcome>>,
         option_mode' = option_mode,
         written = <<>> => Continues(fs, option_mode)
  PROVE  SInv'
<1>1. fs \in Seq(Frames) /\ Without(fs, "restore") /\ option_mode' \in Modes
  BY DEF IsOneValue, SInv, SerializerTypeOK
<1>2. PICK q : Balance(fs, q) /\ FirstOnly(fs, q)
  BY DEF IsOneValue
<1>3. IsItem(Top) /\ Closed(Top) = 0
  BY DEF IsItem, Closed, Closes, Opens
<1>4. option_mode.mode = "StructField" => expects # <<>>
  BY DEF SInv, Deep, DepthOf
<1>5. Deep'
  BY <1>1, <1>2, <1>3, <1>4, DeepReplaced DEF FirstOnly
<1> QED
  BY <1>1, <1>5, ReplacedKeeps

(* What the call of a serialize method continues with.                      *)
LEMMA SerializingFacts ==
  ASSUME SInv, Serializing
  PROVE  /\ outcome = "running" /\ calls # <<>> /\ Top.op = "serialize"
         /\ Top.arg \in Values /\ calls \in Seq(Frames) /\ option_mode \in Modes
         /\ written = <<>> =>
              \/ value.k \in {"none", "newtype"}
              \/ option_mode = Explicit
              \/ Top.arg = value /\ option_mode = Root
<1>1. outcome = "running" /\ calls # <<>> /\ Top.op = "serialize"
  BY DEF Serializing, Running
<1>2. calls \in Seq(Frames) /\ option_mode \in Modes
  BY DEF SInv, SerializerTypeOK
<1>3. Top \in Frames
  BY <1>1, <1>2, FrontLast DEF Top
<1>4. Top.arg \in Values
  BY <1>1, <1>3 DEF Frames
<1>5. Top = Serialize(value) => Top.arg = value
  BY FrameFacts
<1> QED
  BY <1>1, <1>2, <1>4, <1>5 DEF SInv, Blank

(* A value that is no option, serialized.                                   *)
LEMMA SerializeOtherKeeps ==
  ASSUME SInv, SerializeOther
  PROVE  SInv'
<1> DEFINE x == Top.arg
<1>1. Serializing /\ x.k \notin {"none", "some"} /\ calls' = Replace(calls, Calls(x))
      /\ UNCHANGED <<value, option_mode, expects, written, outcome>>
  BY DEF SerializeOther, Do, Replace
<1>2. /\ outcome = "running" /\ calls # <<>> /\ Top.op = "serialize" /\ x \in Values
      /\ written = <<>> =>
           \/ value.k \in {"none", "newtype"} \/ option_mode = Explicit \/ x = value
  BY <1>1, SerializingFacts
<1> HIDE DEF x
<1>3. CASE x.k = "newtype"
  <2> DEFINE fs == <<Serialize(x.v[1])>>
  <2>1. x.v[1] \in Values /\ Calls(x) = fs
    BY <1>1, <1>2, <1>3, CallsAreOneValue
  <2>2. IsOneValue(fs)
    BY <2>1, SerializeIsOneValue
  <2>3. fs # <<>> /\ fs[1].op = "serialize"
    BY FrameFacts
  <2> HIDE DEF fs
  <2>4. written = <<>> => Continues(fs, option_mode)
    BY <1>2, <1>3, <2>3 DEF Continues
  <2>5. calls' = Replace(calls, fs)
    BY <1>1, <2>1
  <2> QED
    BY <1>1, <1>2, <2>2, <2>4, <2>5, OneValueKeeps
<1>4. CASE x.k # "newtype"
  <2>1. IsWritten(Calls(x))
    BY <1>1, <1>2, <1>4, CallsAreOneValue
  <2>2. IsOneValue(Calls(x)) /\ Continues(Calls(x), option_mode)
    BY <2>1 DEF IsWritten, Continues
  <2> QED
    BY <1>1, <1>2, <2>2, OneValueKeeps
<1> QED
  BY <1>3, <1>4

(* An option where none may be.                                             *)
LEMMA PanicKeeps ==
  ASSUME SInv, Panic
  PROVE  SInv'
  BY DEF Panic, SInv, SerializerTypeOK, KeepsOptionMode, Deep, Begun, IsReading, Blank, OkIsEmpty,
         Outermost, Without

(* The unit that is in an Option that is not left out.                      *)
LEMMA NoneIsOneValue == IsWritten(ExplicitOption("None", SerializeUnit))
<1>1. "" \in Atoms /\ "None" \in Atoms
  BY ValuesAssumption
<1>2. IsWritten(SerializeUnit)
  BY <1>1, LeafIsOneValue DEF SerializeUnit
<1> QED
  BY <1>1, <1>2, ExplicitOptionIsOneValue

(* serialize_none.                                                          *)
LEMMA SerializeNoneKeeps ==
  ASSUME SInv, SerializeNone
  PROVE  SInv'
<1>1. Serializing /\ Top.arg.k = "none"
  BY DEF SerializeNone
<1>2. /\ outcome = "running" /\ calls # <<>> /\ Top.op = "serialize" /\ Top.arg \in Values
      /\ written = <<>> =>
           \/ value.k \in {"none", "newtype"} \/ option_mode = Explicit \/ Top.arg = value
  BY <1>1, SerializingFacts
<1>3. CASE /\ option_mode.mode \in {"Root", "StructField"}
           /\ calls' = Replace(calls, <<>>)
           /\ UNCHANGED <<value, option_mode, expects, written, outcome>>
  <2> DEFINE fs == <<>>
             q == [j \in 1..1 |-> 0]
  <2>1. fs \in Seq(Frames) /\ Len(fs) = 0
    BY EmptySeq
  <2> HIDE DEF fs
  <2>2. Balance(fs, q) /\ FirstOnly(fs, q) /\ Without(fs, "restore")
    BY <2>1 DEF Balance, FirstOnly, Without
  <2> HIDE DEF q
  <2>3. IsOneValue(fs)
    BY <2>1, <2>2 DEF IsOneValue
  <2>4. option_mode # Explicit
    BY <1>3, ModeFacts
  <2>5. written = <<>> => Continues(fs, option_mode)
    BY <1>1, <1>2, <2>4 DEF Continues
  <2>6. calls' = Replace(calls, fs)
    BY <1>3 DEF fs
  <2> QED
    BY <1>2, <1>3, <2>3, <2>5, <2>6, OneValueKeeps
<1>4. CASE Panic
  BY <1>4, PanicKeeps
<1>5. CASE /\ calls' = Replace(calls, ExplicitOption("None", SerializeUnit))
           /\ UNCHANGED <<value, option_mode, expects, written, outcome>>
  <2> DEFINE fs == ExplicitOption("None", SerializeUnit)
  <2>1. IsOneValue(fs) /\ Continues(fs, option_mode) /\ calls' = Replace(calls, fs)
    BY <1>5, NoneIsOneValue DEF IsWritten, Continues
  <2> HIDE DEF fs
  <2> QED
    BY <1>2, <1>5, <2>1, OneValueKeeps
<1> QED
  BY <1>3, <1>4, <1>5 DEF SerializeNone, Do, Replace

(* A field that is there: its name, and its value.                          *)
LEMMA FieldKeeps ==
  ASSUME SInv, Serializing, NEW x \in Values,
         option_mode.mode = "StructField", option_mode' = StructFieldNameWritten,
         calls' = Replace(calls, <<Write(Leaf(option_mode.field)), WithMode(Explicit, x)>>),
         UNCHANGED <<value, expects, written, outcome>>
  PROVE  SInv'
<1> DEFINE f1 == Write(Leaf(option_mode.field))
           f2 == WithMode(Explicit, x)
           fs == <<f1, f2>>
           q == [j \in 1..3 |-> 0]
<1>0. /\ outcome = "running" /\ calls # <<>> /\ Top.op = "serialize" /\ option_mode.field \in Atoms
  BY SerializingFacts DEF Modes
<1>1. f1 \in Frames /\ f1.op = "write" /\ Closed(f1) = 0
  BY <1>0, EventFacts, FrameFacts DEF Closed, Closes, Opens, Collections
<1>2. f2 \in Frames /\ f2.op = "with" /\ Closed(f2) = 0
  BY ModeFacts, WithModeFacts, FrameFacts
<1> HIDE DEF f1, f2
<1>3. fs \in Seq(Frames) /\ Len(fs) = 2 /\ fs[1] = f1 /\ fs[2] = f2 /\ fs # <<>>
  BY <1>1, <1>2
<1>4. calls' = Replace(calls, fs)
  BY DEF f1, f2
<1> HIDE DEF fs
<1>5. Balance(fs, q)
  BY <1>1, <1>2, <1>3 DEF Balance
<1> HIDE DEF q
<1>6. Without(fs, "restore")
  BY <1>1, <1>2, <1>3 DEF Without
<1>7. IsItem(Top) /\ Closed(Top) = 0
  BY <1>0 DEF IsItem, Closed, Closes, Opens
<1>8. expects # <<>>
  BY <1>0 DEF SInv, Deep, DepthOf
<1>9. Deep'
  BY <1>0, <1>3, <1>4, <1>5, <1>7, <1>8, DeepReplaced
<1>10. option_mode # Root /\ option_mode' \in Modes
  BY ModeFacts
<1>11. Continues(fs, option_mode')
  BY <1>1, <1>3 DEF Continues
<1> QED
  BY <1>0, <1>3, <1>4, <1>6, <1>9, <1>10, <1>11, ReplacedKeeps

(* serialize_some.                                                          *)
LEMMA SerializeSomeKeeps ==
  ASSUME SInv, SerializeSome
  PROVE  SInv'
<1> DEFINE x == Top.arg.v[1]
<1>1. Serializing /\ Top.arg.k = "some"
  BY DEF SerializeSome
<1>2. /\ outcome = "running" /\ calls # <<>> /\ Top.op = "serialize" /\ Top.arg \in Values
      /\ written = <<>> =>
           \/ value.k \in {"none", "newtype"} \/ option_mode = Explicit \/ Top.arg = value
  BY <1>1, SerializingFacts
<1>3. x \in Values
  BY <1>1, <1>2, ValuesAssumption DEF DataModel
<1>4. CASE /\ calls' = Replace(calls, <<WithMode(Explicit, x)>>)
           /\ UNCHANGED <<value, option_mode, expects, written, outcome>>
  <2> DEFINE fs == <<WithMode(Explicit, x)>>
  <2>1. IsOneValue(fs)
    BY <1>3, WithModeIsOneValue, ModeFacts
  <2>2. fs # <<>> /\ fs[1].op = "with" /\ fs[1].mode = Explicit
    BY FrameFacts
  <2>3. calls' = Replace(calls, fs)
    BY <1>4
  <2> HIDE DEF fs
  <2>4. Continues(fs, option_mode)
    BY <2>2 DEF Continues
  <2> QED
    BY <1>2, <1>4, <2>1, <2>3, <2>4, OneValueKeeps
<1>5. CASE /\ option_mode.mode = "StructField" /\ option_mode' = NameWritten
           /\ calls' = Replace(calls, <<Write(Leaf(option_mode.field)), WithMode(Explicit, x)>>)
           /\ UNCHANGED <<value, expects, written, outcome>>
  BY <1>1, <1>3, <1>5, FieldKeeps DEF NameWritten
<1>6. CASE Panic
  BY <1>6, PanicKeeps
<1>7. CASE /\ calls' = Replace(calls, ExplicitOption("Some", <<Serialize(x)>>))
           /\ UNCHANGED <<value, option_mode, expects, written, outcome>>
  <2> DEFINE one == <<Serialize(x)>>
             fs == ExplicitOption("Some", one)
  <2>1. IsOneValue(one) /\ "Some" \in Atoms
    BY <1>3, SerializeIsOneValue, ValuesAssumption
  <2> HIDE DEF one
  <2>2. IsWritten(fs)
    BY <2>1, ExplicitOptionIsOneValue
  <2>3. IsOneValue(fs) /\ Continues(fs, option_mode) /\ calls' = Replace(calls, fs)
    BY <1>7, <2>2 DEF IsWritten, Continues, one
  <2> HIDE DEF fs
  <2> QED
    BY <1>2, <1>7, <2>3, OneValueKeeps
<1> QED
  BY <1>4, <1>5, <1>6, <1>7 DEF SerializeSome, Do, Replace

(* The mode changes for a value, and the change is to be undone.            *)
LEMMA EnterModeKeeps ==
  ASSUME SInv, EnterMode
  PROVE  SInv'
<1> DEFINE f1 == Serialize(Top.arg)
           f2 == Restore(option_mode)
           fs == <<f1, f2>>
           q == [j \in 1..3 |-> 0]
           r == Replace(calls, fs)
<1>1. /\ calls \in Seq(Frames) /\ expects \in Seq(Expected) /\ SerializerTypeOK /\ KeepsOptionMode
      /\ outcome = "running" /\ calls # <<>> /\ Top.op = "with" /\ option_mode' = Top.mode
      /\ UNCHANGED <<value, expects, written, outcome>>
  BY DEF SInv, SerializerTypeOK, Expected, EnterMode, Running
<1>2. Top \in Frames /\ Last(calls) = calls[Len(calls)] /\ Len(calls) \in Nat \ {0}
  BY <1>1, FrontLast DEF Top
<1>3. Top.mode \in Modes /\ Top.arg \in Values
  BY <1>1, <1>2 DEF Frames
<1>4. f1 \in Frames /\ f1.op = "serialize" /\ Closed(f1) = 0 /\ ~AwaitsName(f1)
  BY <1>3, FrameFacts DEF Closed, Closes, Opens, AwaitsName
<1>5. /\ f2 \in Frames /\ f2.op = "restore" /\ Closed(f2) = 0 /\ ~IsItem(f2)
      /\ f2.mode = option_mode
  BY <1>1, FrameFacts DEF Closed, Closes, Opens, IsItem, SerializerTypeOK
<1>6. calls' = r
  BY DEF EnterMode, Do, Replace
<1> HIDE DEF f1, f2
<1>7. fs \in Seq(Frames) /\ Len(fs) = 2 /\ fs[1] = f1 /\ fs[2] = f2 /\ fs # <<>>
  BY <1>4, <1>5
<1> HIDE DEF fs
<1>8. Balance(fs, q)
  BY <1>4, <1>5, <1>7 DEF Balance
<1> HIDE DEF q
<1>9. SerializerTypeOK'
  <2>1. r \in Seq(Frames)
    BY <1>1, <1>7, Replaced, Zenon
  <2> QED
    BY <1>1, <1>3, <1>6, <2>1 DEF SerializerTypeOK
<1>10. KeepsOptionMode'
  <2>1. ~InnermostIs(calls, "restore") /\ EndsWith(fs, "restore")
    BY <1>1, <1>5, <1>7 DEF InnermostIs, EndsWith, Top
  <2>2. /\ ~Without(r, "restore")
        /\ \A i \in 1..Len(r) : Outermost(r, "restore", i) =>
             \/ i \in 1..Len(calls) /\ Outermost(calls, "restore", i) /\ r[i] = calls[i]
             \/ Without(calls, "restore") /\ r[i] = f2
    BY <1>1, <1>7, <2>1, Saving, SMTT(40)
  <2> HIDE DEF r
  <2>3. \A i \in 1..Len(r) : Outermost(r, "restore", i) => r[i].mode = Root
    BY <1>1, <1>5, <2>2 DEF KeepsOptionMode
  <2> QED
    BY <1>6, <2>2, <2>3 DEF KeepsOptionMode, Outermost, Without
<1>11. Deep'
  <2>1. IsItem(Top) /\ Closed(Top) = 0
    BY <1>1 DEF IsItem, Closed, Closes, Opens
  <2>2. PICK b : DepthOf(b)
    BY <1>1 DEF SInv, Deep
  <2>3. option_mode.mode = "StructField" => expects # <<>>
    BY <2>2 DEF DepthOf
  <2>4. Top.mode.mode = "StructField" => expects # <<>>
    <3>1. b[Len(calls)] = Len(expects) /\ Len(calls) \in 1..Len(calls)
      BY <1>2, <2>2 DEF DepthOf
    <3>2. AwaitsName(calls[Len(calls)]) => b[Len(calls)] # 0
      BY <2>2, <3>1 DEF DepthOf
    <3>3. expects = <<>> => Len(expects) = 0
      BY <1>1, EmptyIffZero
    <3> QED
      BY <1>1, <1>2, <3>1, <3>2, <3>3 DEF AwaitsName, Top
  <2>5. \A j \in 1..Len(fs) : q[j] = 0 /\ expects = <<>> =>
          (IsItem(fs[j]) => j = 1) /\ ~AwaitsName(fs[j])
    BY <1>4, <1>5, <1>7, <2>3 DEF AwaitsName
  <2> QED
    BY <1>1, <1>6, <1>7, <1>8, <2>1, <2>4, <2>5, DeepReplaced
<1>12. Blank'
  <2>1. calls' # <<>> /\ Last(calls') = f1
    BY <1>1, <1>6, <1>7, InnermostReplaced
  <2>2. Top'.op = "serialize"
    BY <1>4, <2>1 DEF Top
  <2>3. written = <<>> => value.k \in {"none", "newtype"} \/ Top.mode = Explicit
    BY <1>1, FrameFacts DEF SInv, Blank
  <2> QED
    BY <1>1, <2>1, <2>2, <2>3 DEF Blank
<1>13. Begun' /\ OkIsEmpty'
  BY <1>1 DEF SInv, Begun, IsReading, OkIsEmpty
<1> QED
  BY <1>9, <1>10, <1>11, <1>12, <1>13 DEF SInv

(* The mode is what it was before.                                          *)
LEMMA LeaveModeKeeps ==
  ASSUME SInv, LeaveMode
  PROVE  SInv'
<1> DEFINE k == Len(calls)
           r == Replace(calls, <<>>)
<1>1. /\ calls \in Seq(Frames) /\ expects \in Seq(Expected) /\ SerializerTypeOK /\ KeepsOptionMode
      /\ outcome \in {"running", "error"} /\ calls # <<>> /\ Top.op = "restore"
      /\ option_mode' = Top.mode
      /\ calls' = r
      /\ UNCHANGED <<value, expects, written, outcome>>
  BY DEF SInv, SerializerTypeOK, Expected, LeaveMode, Restored, Do, Replace
<1>2. /\ Len(r) = k - 1 /\ r \in Seq(Frames) /\ k \in Nat \ {0}
      /\ \A i \in 1..(k - 1) : r[i] = calls[i]
  BY <1>1, Returned
<1>3. Top \in Frames /\ Top = calls[k] /\ Top.mode \in Modes /\ Closed(Top) = 0
  <2>1. Top \in Frames /\ Top = calls[k]
    BY <1>1, FrontLast DEF Top
  <2> QED
    BY <1>1, <2>1 DEF Frames, Closed, Closes, Opens
<1>4. InnermostIs(calls, "restore")
  BY <1>1 DEF InnermostIs, Top
<1>5. /\ Without(r, "restore") => Outermost(calls, "restore", k)
      /\ \A i \in 1..Len(r) : Outermost(r, "restore", i) =>
           i \in 1..k /\ Outermost(calls, "restore", i) /\ r[i] = calls[i]
  BY <1>1, <1>4, Leaving
<1>6. SerializerTypeOK'
  BY <1>1, <1>2, <1>3 DEF SerializerTypeOK
<1>7. KeepsOptionMode'
  <2>1. \A i \in 1..k : Outermost(calls, "restore", i) => calls[i].mode = Root
    BY <1>1 DEF KeepsOptionMode
  <2> HIDE DEF k, r
  <2>2. Without(r, "restore") => option_mode' = Root
    BY <1>1, <1>2, <1>3, <1>5, <2>1
  <2>3. \A i \in 1..Len(r) : Outermost(r, "restore", i) => r[i].mode = Root
    BY <1>5, <2>1
  <2> QED
    BY <1>1, <2>2, <2>3 DEF KeepsOptionMode, Outermost, Without
<1>8. ASSUME outcome = "running"
      PROVE  Deep'
  <2>1. PICK b : DepthOf(b)
    BY <1>8 DEF SInv, Deep
  <2>2. PICK c : /\ HasDepth(r, c)
                 /\ c[k - 1] = b[k] - Closed(Top)
                 /\ \A i \in 1..(k - 1) : c[i] = b[i]
    BY <1>1, <2>1, DepthReturned DEF DepthOf, Top
  <2>3. /\ b[k] = Len(expects)
        /\ \A i \in 1..k : b[i] = 0 =>
             /\ IsItem(calls[i]) =>
                  written = <<>> /\ \A j \in 1..k : b[j] = 0 /\ IsItem(calls[j]) => j = i
             /\ ~AwaitsName(calls[i])
    BY <2>1 DEF DepthOf
  <2>4. Len(expects) \in Nat /\ ((expects = <<>>) <=> (Len(expects) = 0))
    BY <1>1, EmptyIffZero
  <2> HIDE DEF k, r
  <2>5. c[Len(r)] = Len(expects)
    BY <1>2, <1>3, <2>2, <2>3, <2>4
  <2>6. Top.mode.mode = "StructField" => expects # <<>>
    BY <1>1, <1>2, <1>3, <2>3, <2>4 DEF AwaitsName
  <2>7. \A i \in 1..Len(r) : c[i] = 0 =>
          /\ IsItem(r[i]) =>
               written = <<>> /\ \A j \in 1..Len(r) : c[j] = 0 /\ IsItem(r[j]) => j = i
          /\ ~AwaitsName(r[i])
    <3>1. \A i \in 1..Len(r) : i \in 1..k /\ c[i] = b[i] /\ r[i] = calls[i]
      BY <1>2, <2>2
    <3> QED
      BY <2>3, <3>1
  <2>8. DepthOf(c)'
    BY <1>1, <2>2, <2>5, <2>6, <2>7 DEF DepthOf, HasDepth
  <2> QED
    BY <2>8 DEF Deep
<1>9. Deep'
  BY <1>1, <1>8 DEF Deep
<1>10. Begun' /\ OkIsEmpty'
  BY <1>1 DEF SInv, Begun, IsReading, OkIsEmpty
<1>11. Blank'
  <2>1. written = <<>> /\ outcome = "running" => value.k \in {"none", "newtype"}
    BY <1>1, FrameFacts DEF SInv, Blank
  <2> QED
    BY <1>1, <2>1 DEF Blank
<1> QED
  BY <1>6, <1>7, <1>9, <1>10, <1>11 DEF SInv

(* An error goes past a call.                                               *)
LEMMA UnwindKeeps ==
  ASSUME SInv, Unwind
  PROVE  SInv'
<1> DEFINE none == <<>>
<1>1. /\ calls \in Seq(Frames) /\ SerializerTypeOK /\ KeepsOptionMode
      /\ outcome = "error" /\ calls # <<>> /\ Top.op # "restore"
      /\ calls' = Replace(calls, none)
      /\ UNCHANGED <<value, option_mode, expects, written, outcome>>
  BY DEF SInv, SerializerTypeOK, Unwind, Do, Replace
<1>2. Replace(calls, none) \in Seq(Frames)
  BY <1>1, Returned
<1>3. none \in Seq(Frames) /\ Without(none, "restore")
  BY EmptySeq DEF Without
<1> HIDE DEF none
<1>4. KeepsOptionMode'
  BY <1>1, <1>3, ReplacedKeepsMode
<1>5. SerializerTypeOK'
  BY <1>1, <1>2 DEF SerializerTypeOK
<1>6. Deep' /\ Blank' /\ OkIsEmpty' /\ Begun'
  BY <1>1 DEF SInv, Begun, IsReading, OkIsEmpty, Deep, Blank
<1> QED
  BY <1>4, <1>5, <1>6 DEF SInv

(* The serialization ends.                                                  *)
LEMMA FinishKeeps ==
  ASSUME SInv, Finish
  PROVE  SInv'
<1>1. /\ outcome = "running" /\ calls = <<>> /\ outcome' = "ok"
      /\ UNCHANGED <<value, option_mode, calls, expects, written>>
  BY DEF Finish
<1>2. SerializerTypeOK' /\ KeepsOptionMode'
  BY <1>1 DEF SInv, SerializerTypeOK, KeepsOptionMode, Outermost, Without
<1>3. Deep'
  <2>1. PICK b : DepthOf(b)
    BY <1>1 DEF SInv, Deep
  <2>2. DepthOf(b)'
    BY <1>1, <2>1 DEF DepthOf, HasDepth
  <2> QED
    BY <2>2 DEF Deep
<1>4. Begun' /\ Blank' /\ OkIsEmpty'
  BY <1>1 DEF SInv, Begun, IsReading, Blank, OkIsEmpty
<1> QED
  BY <1>2, <1>3, <1>4 DEF SInv

(* The invariant is inductive. *)
LEMMA NextKeepsSInv == SInv /\ [Next]_vars => SInv'
<1> SUFFICES ASSUME SInv, [Next]_vars
             PROVE  SInv'
  OBVIOUS
<1>1. CASE Next
  BY <1>1, WriteFieldNameKeeps, WriteEventKeeps, EnterModeKeeps, LeaveModeKeeps, UnwindKeeps,
     SerializeOtherKeeps, SerializeNoneKeeps, SerializeSomeKeeps, FinishKeeps DEF Next
<1>2. CASE UNCHANGED vars
  BY <1>2, ZenonT(60) DEF vars, SInv, SerializerTypeOK, KeepsOptionMode, Deep, DepthOf, HasDepth, Begun,
              IsReading, Blank, OkIsEmpty, Top, Outermost, Without
<1> QED
  BY <1>1, <1>2

(* The invariant always holds.                                              *)
LEMMA SInvAlways == Spec => []SInv
  BY InitSInv, NextKeepsSInv, PTL DEF Spec

(* Whatever the value, and wherever the writer refuses something: a         *)
(* serializer that succeeds has written one whole plist, unless the value   *)
(* is an Option that is left out at the root (ser.rs:190, 209).             *)
THEOREM WritesWhole == Spec => []WritesWholePlist
<1>1. SInv => WritesWholePlist
  <2> SUFFICES ASSUME SInv, outcome = "ok"
               PROVE  \/ Sink!WholePlist(written)
                      \/ written = <<>> /\ value.k \in {"none", "newtype"}
    BY DEF WritesWholePlist
  <2>1. calls = <<>> /\ written \in Seq(Events) /\ expects \in Seq(Expected)
    BY DEF SInv, OkIsEmpty, SerializerTypeOK, Expected
  <2>2. CASE written = <<>>
    BY <2>1, <2>2 DEF SInv, Blank
  <2>3. CASE written # <<>>
    <3>1. PICK b : DepthOf(b)
      BY DEF SInv, Deep
    <3>2. Len(calls) = 0
      BY <2>1, EmptySeq
    <3>3. Len(expects) = 0
      BY <3>1, <3>2 DEF DepthOf, HasDepth
    <3>4. expects = <<>>
      BY <2>1, <3>3, EmptyIffZero
    <3>5. PICK g : /\ IsReading(written, g)
                   /\ g[Len(written)] = [begun |-> written # <<>>, legal |-> TRUE, stack |-> expects]
      BY DEF SInv, Begun
    <3>6. g[Len(written)] = [begun |-> TRUE, legal |-> TRUE, stack |-> <<>>]
      BY <2>3, <3>4, <3>5
    <3>7. Sink!Complete(g[Len(written)])
      BY <3>6 DEF Sink!Complete
    <3> QED
      BY <2>1, <3>5, <3>7, ReadingDecides
  <2> QED
    BY <2>2, <2>3
<1> QED
  BY <1>1, SInvAlways, PTL

(* Whatever was nested in the value and wherever an error came, the option  *)
(* mode is that of the root again (serialize_with_option_mode).             *)
THEOREM ModesAreRestored == Spec => []ModeRestored
<1>1. SInv => ModeRestored
  <2> SUFFICES ASSUME SInv, calls = <<>>
               PROVE  option_mode = Root
    BY DEF ModeRestored
  <2>1. Without(calls, "restore")
    BY EmptySeq DEF Without
  <2> QED
    BY <2>1 DEF SInv, KeepsOptionMode
<1> QED
  BY <1>1, SInvAlways, PTL


(***************************************************************************)
(* The deserializer.                                                       *)
(***************************************************************************)
(* What each mode is set back to when no call is left.                      *)
KeepsMode(s, mode) ==
  /\ \A i \in 1..Len(s) : Outermost(s, "restore", i) => s[i].mode = D!Root
  /\ Without(s, "restore") => mode = D!Root

KeepsInValue(s, in) ==
  /\ \A i \in 1..Len(s) : Outermost(s, "leave", i) => s[i].prev = FALSE
  /\ Without(s, "leave") => in = FALSE

DeserializerInv ==
  IsStack(dCalls) /\ KeepsMode(dCalls, dMode) /\ KeepsInValue(dCalls, dInValue)

(* Calls that restore nothing.                                              *)
Plain(fs) == Without(fs, "restore") /\ Without(fs, "leave")

(* The steps that leave both modes as they are, and replace a call that     *)
(* restores nothing by such calls.                                          *)
PlainStep ==
  /\ dMode' = dMode /\ dInValue' = dInValue
  /\ \/ dCalls' = dCalls
     \/ /\ dCalls # <<>>
        /\ ~InnermostIs(dCalls, "restore") /\ ~InnermostIs(dCalls, "leave")
        /\ \E S : \E fs \in Seq(S) : Plain(fs) /\ dCalls' = Replace(dCalls, fs)

(* A plain step keeps the invariant.                                        *)
LEMMA PlainStepKeeps == DeserializerInv /\ PlainStep => DeserializerInv'
<1> SUFFICES ASSUME DeserializerInv, PlainStep
             PROVE  DeserializerInv'
  OBVIOUS
<1>1. CASE dCalls' = dCalls
  BY <1>1 DEF DeserializerInv, PlainStep, KeepsMode, KeepsInValue, IsStack
<1>2. CASE dCalls' # dCalls
  <2>1. /\ dMode' = dMode /\ dInValue' = dInValue
        /\ dCalls # <<>>
        /\ ~InnermostIs(dCalls, "restore") /\ ~InnermostIs(dCalls, "leave")
    BY <1>2 DEF PlainStep
  <2>2. PICK S0 : \E fs \in Seq(S0) : Plain(fs) /\ dCalls' = Replace(dCalls, fs)
    BY <1>2 DEF PlainStep
  <2>3. PICK fs \in Seq(S0) : Plain(fs) /\ dCalls' = Replace(dCalls, fs)
    BY <2>2
  <2>4. PICK S1 : dCalls \in Seq(S1)
    BY DEF DeserializerInv, IsStack
  <2> DEFINE S == S0 \cup S1
  <2>5. S0 \subseteq S /\ S1 \subseteq S
    OBVIOUS
  <2> HIDE DEF S
  <2>6. fs \in Seq(S)
    BY <2>3, <2>5, SeqMonotonic
  <2>7. dCalls \in Seq(S)
    BY <2>4, <2>5, SeqMonotonic
  <2>8. dCalls' \in Seq(S)
    BY <2>1, <2>3, <2>6, <2>7, Replaced
  <2>9. /\ Without(dCalls', "restore") => Without(dCalls, "restore")
        /\ \A i \in 1..Len(dCalls') : Outermost(dCalls', "restore", i) =>
             i \in 1..Len(dCalls) /\ Outermost(dCalls, "restore", i) /\ dCalls'[i] = dCalls[i]
    BY <2>1, <2>3, <2>6, <2>7, Keeping DEF Plain
  <2>10. /\ Without(dCalls', "leave") => Without(dCalls, "leave")
         /\ \A i \in 1..Len(dCalls') : Outermost(dCalls', "leave", i) =>
              i \in 1..Len(dCalls) /\ Outermost(dCalls, "leave", i) /\ dCalls'[i] = dCalls[i]
    BY <2>1, <2>3, <2>6, <2>7, Keeping DEF Plain
  <2>11. KeepsMode(dCalls', dMode')
    BY <2>1, <2>9 DEF DeserializerInv, KeepsMode
  <2>12. KeepsInValue(dCalls', dInValue')
    BY <2>1, <2>10 DEF DeserializerInv, KeepsInValue
  <2> QED
    BY <2>8, <2>11, <2>12 DEF DeserializerInv, IsStack
<1> QED
  BY <1>1, <1>2

(* A few calls are plain when each of them is.                              *)
IsPlain(f) == f.op \notin {"restore", "leave"}

(* The calls pushed by a step that pushes one, two or three.                *)
LEMMA FewCalls ==
  ASSUME NEW a, NEW b, NEW c, IsPlain(a), IsPlain(b), IsPlain(c)
  PROVE  /\ \E S : <<>> \in Seq(S) /\ Plain(<<>>)
         /\ \E S : <<a>> \in Seq(S) /\ Plain(<<a>>)
         /\ \E S : <<a, b>> \in Seq(S) /\ Plain(<<a, b>>)
         /\ \E S : <<a, b, c>> \in Seq(S) /\ Plain(<<a, b, c>>)
<1> DEFINE S == {a, b, c}
<1>0. a \in S /\ b \in S /\ c \in S
  OBVIOUS
<1>1. <<>> \in Seq(S) /\ Plain(<<>>)
  BY EmptySeq DEF Plain, Without
<1>2. <<a>> \in Seq(S) /\ Plain(<<a>>)
  BY DEF Plain, Without, IsPlain
<1>3. <<a, b>> \in Seq(S) /\ Plain(<<a, b>>)
  BY DEF Plain, Without, IsPlain
<1>4. <<a, b, c>> \in Seq(S) /\ Plain(<<a, b, c>>)
  BY DEF Plain, Without, IsPlain
<1> QED
  BY <1>1, <1>2, <1>3, <1>4

PlainDo ==
  \/ D!Do(<<>>)
  \/ \E a : IsPlain(a) /\ D!Do(<<a>>)
  \/ \E a, b : IsPlain(a) /\ IsPlain(b) /\ D!Do(<<a, b>>)
  \/ \E a, b, c : IsPlain(a) /\ IsPlain(b) /\ IsPlain(c) /\ D!Do(<<a, b, c>>)

(* Pushing calls that are not modes is plain.                               *)
LEMMA PlainDoIsPlain ==
  ASSUME dCalls # <<>>, IsPlain(Last(dCalls)), UNCHANGED D!modes, PlainDo
  PROVE  PlainStep
<1>1. dMode' = dMode /\ dInValue' = dInValue
  BY DEF D!modes
<1>2. ~InnermostIs(dCalls, "restore") /\ ~InnermostIs(dCalls, "leave")
  BY DEF IsPlain, InnermostIs
<1>3. ASSUME NEW fs, D!Do(fs)
      PROVE  dCalls' = Replace(dCalls, fs)
  BY <1>3, Zenon DEF D!Do, D!Front, D!Reverse, Front, Reverse, Replace
<1>4. \E S : \E fs \in Seq(S) : Plain(fs) /\ dCalls' = Replace(dCalls, fs)
  <2> DEFINE none == D!Expect("")
  <2>0. IsPlain(none)
    BY DEF IsPlain, D!Expect
  <2> HIDE DEF none
  <2>1. CASE D!Do(<<>>)
    BY <1>3, <2>0, <2>1, FewCalls, Zenon
  <2>2. CASE \E a : IsPlain(a) /\ D!Do(<<a>>)
    BY <1>3, <2>0, <2>2, FewCalls, Zenon
  <2>3. CASE \E a, b : IsPlain(a) /\ IsPlain(b) /\ D!Do(<<a, b>>)
    BY <1>3, <2>0, <2>3, FewCalls, Zenon
  <2>4. CASE \E a, b, c : IsPlain(a) /\ IsPlain(b) /\ IsPlain(c) /\ D!Do(<<a, b, c>>)
    BY <1>3, <2>4, FewCalls, Zenon
  <2> QED
    BY <2>1, <2>2, <2>3, <2>4 DEF PlainDo
<1> QED
  BY <1>1, <1>2, <1>4 DEF PlainStep

(* Nothing is called and nothing returns.                                   *)
LEMMA StillIsPlain ==
  ASSUME UNCHANGED <<D!modes, dCalls>>
  PROVE  PlainStep
  BY DEF PlainStep, D!modes

(* The error of a step.                                                     *)
LEMMA FailIsPlain == D!Fail => PlainStep
  BY StillIsPlain DEF D!Fail

(* A step that is replaced by other calls.                                  *)
LEMMA CallsIsPlain ==
  ASSUME D!Running \/ dCalls # <<>>, IsPlain(Last(dCalls))
  PROVE  /\ D!Calls(<<>>) => PlainStep
         /\ \A a : IsPlain(a) /\ D!Calls(<<a>>) => PlainStep
         /\ \A a, b : IsPlain(a) /\ IsPlain(b) /\ D!Calls(<<a, b>>) => PlainStep
         /\ \A a, b, c : IsPlain(a) /\ IsPlain(b) /\ IsPlain(c) /\ D!Calls(<<a, b, c>>) => PlainStep
         /\ \A v : D!Returns(v) => PlainStep
<1>1. dCalls # <<>>
  BY DEF D!Running
<1>2. UNCHANGED D!modes /\ PlainDo => PlainStep
  BY <1>1, PlainDoIsPlain
<1>3. D!Calls(<<>>) => PlainStep
  BY <1>2 DEF D!Calls, PlainDo
<1>4. ASSUME NEW a, IsPlain(a), D!Calls(<<a>>)
      PROVE  PlainStep
  BY <1>2, <1>4 DEF D!Calls, PlainDo
<1>5. ASSUME NEW a, NEW b, IsPlain(a), IsPlain(b), D!Calls(<<a, b>>)
      PROVE  PlainStep
  BY <1>2, <1>5 DEF D!Calls, PlainDo
<1>6. ASSUME NEW a, NEW b, NEW c, IsPlain(a), IsPlain(b), IsPlain(c), D!Calls(<<a, b, c>>)
      PROVE  PlainStep
  BY <1>2, <1>6 DEF D!Calls, PlainDo
<1>7. ASSUME NEW v, D!Returns(v)
      PROVE  PlainStep
  BY <1>2, <1>7 DEF D!Returns, PlainDo
<1> QED
  BY <1>3, <1>4, <1>5, <1>6, <1>7

(* What is called depends on the call, but never restores a mode.           *)
LEMMA FramesArePlain ==
  /\ \A ty : IsPlain(D!Deserialize(ty))
  /\ \A k : IsPlain(D!Expect(k))
  /\ \A m, ty : IsPlain(D!WithMode(m, ty))
  /\ \A ty, n : IsPlain(D!VisitSeq(ty, n)) /\ IsPlain(D!VisitMap(ty, n))
  /\ \A k, name, fields, got : IsPlain(D!VisitStruct(k, name, fields, got))
  /\ \A k, n : IsPlain(D!Make(k, n))
  /\ \A k, name, n : IsPlain(D!MakeVariant(k, name, n))
  BY DEF IsPlain, D!Deserialize, D!Expect, D!WithMode, D!VisitSeq, D!VisitMap,
         D!VisitStruct, D!Make, D!MakeVariant

(* A call that leaves the events alone.                                     *)
LEMMA DeserializingIsPlain ==
  ASSUME NEW kinds, D!Deserializing(kinds)
  PROVE  D!Running /\ IsPlain(Last(dCalls))
  BY DEF D!Deserializing, D!Top, D!Last, Last, IsPlain

(* An event that is expected and taken.                                     *)
LEMMA ExpectEventIsPlain == D!ExpectEvent => PlainStep
<1> SUFFICES ASSUME D!ExpectEvent
             PROVE  PlainStep
  OBVIOUS
<1>1. D!Running /\ IsPlain(Last(dCalls))
  BY DEF D!ExpectEvent, D!Top, D!Last, Last, IsPlain
<1> QED
  BY <1>1, CallsIsPlain, FailIsPlain DEF D!ExpectEvent

(* The return through the frames after an error.                            *)
LEMMA UnwindIsPlain == D!Unwind => PlainStep
<1> SUFFICES ASSUME D!Unwind
             PROVE  PlainStep
  OBVIOUS
<1>1. dCalls # <<>> /\ IsPlain(Last(dCalls)) /\ UNCHANGED D!modes /\ D!Do(<<>>)
  BY DEF D!Unwind, D!Top, D!Last, Last, IsPlain
<1> QED
  BY <1>1, PlainDoIsPlain DEF PlainDo

(* Scalars and units.                                                       *)
LEMMA LeavesArePlain == D!DeserializeLeaf \/ D!DeserializeUnit => PlainStep
<1>1. ASSUME D!DeserializeLeaf
      PROVE  PlainStep
  <2>1. D!Running /\ IsPlain(Last(dCalls))
    BY <1>1, DeserializingIsPlain DEF D!DeserializeLeaf
  <2>2. \/ D!Returns(D!Val(D!Top.ty.k, <<D!Peek.arg>>))
        \/ D!Fail
    BY <1>1 DEF D!DeserializeLeaf
  <2> QED
    BY <2>1, <2>2, CallsIsPlain, FailIsPlain
<1>2. ASSUME D!DeserializeUnit
      PROVE  PlainStep
  <2>1. D!Running /\ IsPlain(Last(dCalls))
    BY <1>2, DeserializingIsPlain DEF D!DeserializeUnit
  <2>2. D!Returns(D!Val("unit", <<>>)) \/ D!Fail
    BY <1>2 DEF D!DeserializeUnit
  <2> QED
    BY <2>1, <2>2, CallsIsPlain, FailIsPlain
<1> QED
  BY <1>1, <1>2

(* Sequences and maps.                                                      *)
LEMMA CollectionsArePlain ==
  D!DeserializeSeq \/ D!DeserializeMap \/ D!DeserializeIgnored => PlainStep
<1>1. ASSUME D!DeserializeSeq \/ D!DeserializeMap \/ D!DeserializeIgnored
      PROVE  PlainStep
  <2>1. D!Running /\ IsPlain(Last(dCalls))
    BY <1>1, DeserializingIsPlain DEF D!DeserializeSeq, D!DeserializeMap, D!DeserializeIgnored
  <2>2. \/ D!Calls(<<D!VisitSeq(D!Top.ty, 0), D!Expect("end")>>)
        \/ D!Calls(<<D!VisitMap(D!Top.ty, 0), D!Expect("end")>>)
        \/ D!Returns(D!Val("ignored", <<>>))
        \/ D!Fail
    BY <1>1 DEF D!DeserializeSeq, D!DeserializeMap, D!DeserializeIgnored
  <2> QED
    BY <2>1, <2>2, CallsIsPlain, FailIsPlain, FramesArePlain
<1> QED
  BY <1>1

(* deserialize_any.                                                         *)
LEMMA AnyIsPlain == D!DeserializeAny => PlainStep
<1> SUFFICES ASSUME D!DeserializeAny
             PROVE  PlainStep
  OBVIOUS
<1>1. D!Running /\ IsPlain(Last(dCalls))
  BY DeserializingIsPlain DEF D!DeserializeAny
<1>2. \/ \E v : D!Returns(v)
      \/ D!Calls(<<D!VisitSeq(D!Type("seq", <<D!Value>>), 0), D!Expect("end")>>)
      \/ D!Calls(<<D!VisitMap(D!Type("map", <<D!Value>>), 0), D!Expect("end")>>)
      \/ D!Fail
  BY DEF D!DeserializeAny
<1> QED
  BY <1>1, <1>2, CallsIsPlain, FailIsPlain, FramesArePlain

(* Options.                                                                 *)
LEMMA OptionIsPlain == D!DeserializeOption \/ D!ExplicitOption => PlainStep
<1>1. ASSUME D!DeserializeOption \/ D!ExplicitOption
      PROVE  PlainStep
  <2>1. D!Running /\ IsPlain(Last(dCalls))
    BY <1>1, DeserializingIsPlain DEF D!DeserializeOption, D!ExplicitOption
  <2>2. \/ D!Returns(D!Val("none", <<>>))
        \/ D!Calls(<<D!WithMode(D!Explicit, D!Top.ty.of[1]), D!Make("some", 1)>>)
        \/ D!Calls(<<D!Deserialize([D!Top.ty EXCEPT !.k = "explicit"]), D!Expect("end")>>)
        \/ D!Calls(<<D!Deserialize(D!Top.ty.of[1]), D!Make("some", 1)>>)
        \/ D!Calls(<<D!Deserialize(D!Type("unit", <<>>)), D!Make("none", 1)>>)
        \/ D!Fail
    BY <1>1 DEF D!DeserializeOption, D!ExplicitOption
  <2> QED
    BY <2>1, <2>2, CallsIsPlain, FailIsPlain, FramesArePlain
<1> QED
  BY <1>1

(* Newtype structs and structs.                                             *)
LEMMA NamedArePlain == D!DeserializeNewtypeStruct \/ D!DeserializeStruct => PlainStep
<1>1. ASSUME D!DeserializeNewtypeStruct \/ D!DeserializeStruct
      PROVE  PlainStep
  <2>1. D!Running /\ IsPlain(Last(dCalls))
    BY <1>1, DeserializingIsPlain DEF D!DeserializeNewtypeStruct, D!DeserializeStruct
  <2>2. \/ D!Calls(<<D!Deserialize(D!Top.ty.of[1]), D!Make("newtype", 1)>>)
        \/ D!Calls(<<D!Expect("dict"), D!VisitStruct("struct", "", D!Top.ty.of, <<>>), D!Expect("end")>>)
    BY <1>1 DEF D!DeserializeNewtypeStruct, D!DeserializeStruct
  <2> QED
    BY <2>1, <2>2, CallsIsPlain, FramesArePlain
<1> QED
  BY <1>1

(* Enums and their variants.                                                *)
LEMMA EnumIsPlain == D!DeserializeEnum \/ D!DeserializeVariant => PlainStep
<1>1. ASSUME D!DeserializeEnum
      PROVE  PlainStep
  <2>1. D!Running /\ IsPlain(Last(dCalls))
    BY <1>1, DeserializingIsPlain DEF D!DeserializeEnum
  <2>2. \/ D!Returns(D!VariantVal("unit_variant", D!Peek.arg, <<>>))
        \/ D!Calls(<<D!Deserialize([D!Top.ty EXCEPT !.k = "variant"]), D!Expect("end")>>)
        \/ D!Fail
    BY <1>1 DEF D!DeserializeEnum
  <2> QED
    BY <2>1, <2>2, CallsIsPlain, FailIsPlain, FramesArePlain
<1>2. ASSUME D!DeserializeVariant
      PROVE  PlainStep
  <2>1. D!Running /\ IsPlain(Last(dCalls))
    BY <1>2, DeserializingIsPlain DEF D!DeserializeVariant
  <2>2. \/ D!Fail
        \/ \E a, b : IsPlain(a) /\ IsPlain(b) /\ D!Calls(<<a, b>>)
        \/ \E a, b, c : IsPlain(a) /\ IsPlain(b) /\ IsPlain(c) /\ D!Calls(<<a, b, c>>)
    BY <1>2, FramesArePlain DEF D!DeserializeVariant
  <2> QED
    BY <2>1, <2>2, CallsIsPlain, FailIsPlain
<1> QED
  BY <1>1, <1>2

(* The accesses handed to a visitor.                                        *)
LEMMA VisitsArePlain == D!NextElement \/ D!NextEntry \/ D!NextField \/ D!MakeValue => PlainStep
<1>1. ASSUME D!NextElement
      PROVE  PlainStep
  <2>1. D!Running /\ IsPlain(Last(dCalls))
    BY <1>1 DEF D!NextElement, D!Top, D!Last, Last, IsPlain
  <2>2. \/ D!Fail
        \/ \E a : IsPlain(a) /\ D!Calls(<<a>>)
        \/ \E a, b : IsPlain(a) /\ IsPlain(b) /\ D!Calls(<<a, b>>)
    BY <1>1, FramesArePlain DEF D!NextElement
  <2> QED
    BY <2>1, <2>2, CallsIsPlain, FailIsPlain
<1>2. ASSUME D!NextEntry
      PROVE  PlainStep
  <2>1. D!Running /\ IsPlain(Last(dCalls))
    BY <1>2 DEF D!NextEntry, D!Top, D!Last, Last, IsPlain
  <2>2. \/ \E a : IsPlain(a) /\ D!Calls(<<a>>)
        \/ \E a, b, c : IsPlain(a) /\ IsPlain(b) /\ IsPlain(c) /\ D!Calls(<<a, b, c>>)
    BY <1>2, FramesArePlain DEF D!NextEntry
  <2> QED
    BY <2>1, <2>2, CallsIsPlain
<1>3. ASSUME D!NextField
      PROVE  PlainStep
  <2>1. D!Running /\ IsPlain(Last(dCalls))
    BY <1>3 DEF D!NextField, D!Top, D!Last, Last, IsPlain
  <2>2. \/ D!Fail
        \/ D!Do(<<>>) /\ UNCHANGED D!modes
        \/ \E a, b : IsPlain(a) /\ IsPlain(b) /\ D!Calls(<<a, b>>)
    BY <1>3, FramesArePlain DEF D!NextField
  <2>3. D!Do(<<>>) /\ UNCHANGED D!modes => PlainStep
    BY <2>1, PlainDoIsPlain DEF PlainDo, D!Running
  <2> QED
    BY <2>1, <2>2, <2>3, CallsIsPlain, FailIsPlain
<1>4. ASSUME D!MakeValue
      PROVE  PlainStep
  <2>1. D!Running /\ IsPlain(Last(dCalls))
    BY <1>4 DEF D!MakeValue, D!Top, D!Last, Last, IsPlain
  <2>2. D!Do(<<>>) /\ UNCHANGED D!modes
    BY <1>4 DEF D!MakeValue
  <2> QED
    BY <2>1, <2>2, PlainDoIsPlain DEF PlainDo, D!Running
<1> QED
  BY <1>1, <1>2, <1>3, <1>4

(* with_option_mode and enter_plist_value: the call saves what it replaces. *)
LEMMA EnterKeeps ==
  ASSUME DeserializerInv, dCalls # <<>>, IsPlain(Last(dCalls)), NEW a, IsPlain(a), NEW b,
         D!Do(<<a, b>>)
  PROVE  /\ IsStack(dCalls')
         /\ b.op # "restore" /\ UNCHANGED dMode => KeepsMode(dCalls', dMode')
         /\ b.op # "leave" /\ UNCHANGED dInValue => KeepsInValue(dCalls', dInValue')
         /\ b = D!Restore(dMode) => KeepsMode(dCalls', dMode')
         /\ b = D!LeaveValue(dInValue) => KeepsInValue(dCalls', dInValue')
<1> DEFINE fs == <<a, b>>
<1>1. dCalls' = Replace(dCalls, fs)
  BY Zenon DEF D!Do, D!Front, D!Reverse, Front, Reverse, Replace
<1>2. ~InnermostIs(dCalls, "restore") /\ ~InnermostIs(dCalls, "leave")
  BY DEF IsPlain, InnermostIs
<1>3. PICK S0 : dCalls \in Seq(S0)
  BY DEF DeserializerInv, IsStack
<1> DEFINE S == S0 \cup {a, b}
<1>4. fs \in Seq(S) /\ fs # <<>> /\ Len(fs) = 2 /\ fs[1] = a /\ fs[2] = b
  OBVIOUS
<1>5. S0 \subseteq S
  OBVIOUS
<1> HIDE DEF S, fs
<1>6. dCalls \in Seq(S)
  BY <1>3, <1>5, SeqMonotonic
<1>7. dCalls' \in Seq(S)
  BY <1>1, <1>4, <1>6, Replaced
<1>8. ASSUME NEW o \in {"restore", "leave"}, b.op # o
      PROVE  /\ Without(dCalls', o) => Without(dCalls, o)
             /\ \A i \in 1..Len(dCalls') : Outermost(dCalls', o, i) =>
                  i \in 1..Len(dCalls) /\ Outermost(dCalls, o, i) /\ dCalls'[i] = dCalls[i]
  <2>1. Without(fs, o)
    BY <1>4, <1>8 DEF Without, IsPlain
  <2> QED
    BY <1>1, <1>2, <1>4, <1>6, <2>1, Keeping
<1>9. ASSUME NEW o \in {"restore", "leave"}, b.op = o
      PROVE  /\ ~Without(dCalls', o)
             /\ \A i \in 1..Len(dCalls') : Outermost(dCalls', o, i) =>
                  \/ i \in 1..Len(dCalls) /\ Outermost(dCalls, o, i) /\ dCalls'[i] = dCalls[i]
                  \/ Without(dCalls, o) /\ dCalls'[i] = b
  <2>1. EndsWith(fs, o)
    BY <1>4, <1>9 DEF EndsWith
  <2>2. fs[Len(fs)] = b
    BY <1>4
  <2>3. /\ ~Without(dCalls', o)
        /\ \A i \in 1..Len(dCalls') : Outermost(dCalls', o, i) =>
             \/ i \in 1..Len(dCalls) /\ Outermost(dCalls, o, i) /\ dCalls'[i] = dCalls[i]
             \/ Without(dCalls, o) /\ dCalls'[i] = fs[Len(fs)]
    <3>1. fs \in Seq(S) /\ fs # <<>> /\ dCalls # <<>> /\ ~InnermostIs(dCalls, o)
      BY <1>2, <1>4
    <3> QED
      BY <1>1, <1>6, <2>1, <3>1, Saving, SMTT(60)
  <2> QED
    BY <2>2, <2>3
<1>10. ASSUME b.op # "restore", UNCHANGED dMode
       PROVE  KeepsMode(dCalls', dMode')
  BY <1>8, <1>10 DEF KeepsMode, DeserializerInv
<1>11. ASSUME b.op # "leave", UNCHANGED dInValue
       PROVE  KeepsInValue(dCalls', dInValue')
  BY <1>8, <1>11 DEF KeepsInValue, DeserializerInv
<1>12. ASSUME b = D!Restore(dMode)
       PROVE  KeepsMode(dCalls', dMode')
  <2>1. b.op = "restore" /\ b.mode = dMode
    BY <1>12 DEF D!Restore
  <2> QED
    BY <1>9, <2>1 DEF KeepsMode, DeserializerInv
<1>13. ASSUME b = D!LeaveValue(dInValue)
       PROVE  KeepsInValue(dCalls', dInValue')
  <2>1. b.op = "leave" /\ b.prev = dInValue
    BY <1>13 DEF D!LeaveValue
  <2> QED
    BY <1>9, <2>1 DEF KeepsInValue, DeserializerInv
<1> QED
  BY <1>7, <1>10, <1>11, <1>12, <1>13 DEF IsStack

(* with_option_mode is entered.                                             *)
LEMMA DeserializerEnterModeKeeps == DeserializerInv /\ D!EnterMode => DeserializerInv'
<1> SUFFICES ASSUME DeserializerInv, D!EnterMode
             PROVE  DeserializerInv'
  OBVIOUS
<1> DEFINE a == D!Deserialize(D!Top.ty)
           b == D!Restore(dMode)
<1>1. /\ dCalls # <<>> /\ IsPlain(Last(dCalls))
      /\ D!Do(<<a, b>>) /\ UNCHANGED dInValue
  BY DEF D!EnterMode, D!Running, D!Top, D!Last, Last, IsPlain
<1>2. b.op = "restore"
  BY DEF D!Restore
<1>3. IsPlain(a)
  BY FramesArePlain
<1> HIDE DEF a
<1> QED
  BY <1>1, <1>2, <1>3, EnterKeeps DEF DeserializerInv

(* enter_plist_value is entered.                                            *)
LEMMA EnterValueKeeps == DeserializerInv /\ D!EnterPlistValue => DeserializerInv'
<1> SUFFICES ASSUME DeserializerInv, D!EnterPlistValue
             PROVE  DeserializerInv'
  OBVIOUS
<1> DEFINE a == D!Deserialize(D!Type("any", <<>>))
           b == D!LeaveValue(dInValue)
<1>1. /\ dCalls # <<>> /\ IsPlain(Last(dCalls))
      /\ D!Do(<<a, b>>) /\ UNCHANGED dMode
  BY DEF D!EnterPlistValue, D!Running, D!Top, D!Last, Last, IsPlain
<1>2. b.op = "leave"
  BY DEF D!LeaveValue
<1>3. IsPlain(a)
  BY FramesArePlain
<1> HIDE DEF a
<1> QED
  BY <1>1, <1>2, <1>3, EnterKeeps DEF DeserializerInv

(* The returns: what was saved is taken back.                               *)
LEMMA LeaveFacts ==
  ASSUME DeserializerInv, dCalls # <<>>, D!Do(<<>>), NEW o, NEW p, o # p,
         InnermostIs(dCalls, o)
  PROVE  /\ IsStack(dCalls')
         /\ Without(dCalls', o) => Outermost(dCalls, o, Len(dCalls))
         /\ Without(dCalls', p) => Without(dCalls, p)
         /\ \A i \in 1..Len(dCalls'), q \in {o, p} : Outermost(dCalls', q, i) =>
              i \in 1..Len(dCalls) /\ Outermost(dCalls, q, i) /\ dCalls'[i] = dCalls[i]
         /\ Len(dCalls) \in 1..Len(dCalls) /\ Last(dCalls) = dCalls[Len(dCalls)]
<1> DEFINE none == <<>>
<1>1. PICK S : dCalls \in Seq(S)
  BY DEF DeserializerInv, IsStack
<1>2. none \in Seq(S) /\ Len(none) = 0
  BY EmptySeq
<1>3. dCalls' = Replace(dCalls, none)
  BY Zenon DEF D!Do, D!Front, D!Reverse, Front, Reverse, Replace
<1>4. dCalls' \in Seq(S)
  BY <1>1, <1>3, Returned
<1>5. /\ Without(dCalls', o) => Outermost(dCalls, o, Len(dCalls))
      /\ \A i \in 1..Len(dCalls') : Outermost(dCalls', o, i) =>
           i \in 1..Len(dCalls) /\ Outermost(dCalls, o, i) /\ dCalls'[i] = dCalls[i]
  BY <1>1, <1>3, Leaving
<1> HIDE DEF none
<1>6. Without(none, p) /\ ~InnermostIs(dCalls, p)
  BY <1>2 DEF Without, InnermostIs
<1>7. /\ Without(dCalls', p) => Without(dCalls, p)
      /\ \A i \in 1..Len(dCalls') : Outermost(dCalls', p, i) =>
           i \in 1..Len(dCalls) /\ Outermost(dCalls, p, i) /\ dCalls'[i] = dCalls[i]
  <2>1. ~InnermostIs(dCalls, p) /\ Without(none, p) /\ none \in Seq(S) /\ dCalls # <<>>
    BY <1>2, <1>6
  <2> QED
    BY <1>1, <1>3, <2>1, Keeping, ZenonT(60)
<1>8. Last(dCalls) = dCalls[Len(dCalls)] /\ Len(dCalls) \in Nat \ {0}
  BY <1>1, FrontLast
<1> QED
  BY <1>4, <1>5, <1>7, <1>8 DEF IsStack

(* with_option_mode is left.                                                *)
LEMMA DeserializerLeaveModeKeeps == DeserializerInv /\ D!LeaveMode => DeserializerInv'
<1> SUFFICES ASSUME DeserializerInv, D!LeaveMode
             PROVE  DeserializerInv'
  OBVIOUS
<1>1. /\ dCalls # <<>> /\ InnermostIs(dCalls, "restore")
      /\ dMode' = Last(dCalls).mode /\ D!Do(<<>>) /\ UNCHANGED dInValue
  BY DEF D!LeaveMode, D!Restored, D!Top, D!Last, Last, InnermostIs
<1>2. /\ IsStack(dCalls')
      /\ Without(dCalls', "restore") => Outermost(dCalls, "restore", Len(dCalls))
      /\ Without(dCalls', "leave") => Without(dCalls, "leave")
      /\ \A i \in 1..Len(dCalls'), q \in {"restore", "leave"} : Outermost(dCalls', q, i) =>
           i \in 1..Len(dCalls) /\ Outermost(dCalls, q, i) /\ dCalls'[i] = dCalls[i]
      /\ Len(dCalls) \in 1..Len(dCalls) /\ Last(dCalls) = dCalls[Len(dCalls)]
  BY <1>1, LeaveFacts
<1>3. KeepsMode(dCalls', dMode')
  BY <1>1, <1>2 DEF KeepsMode, DeserializerInv
<1>4. KeepsInValue(dCalls', dInValue')
  BY <1>1, <1>2 DEF KeepsInValue, DeserializerInv
<1> QED
  BY <1>2, <1>3, <1>4 DEF DeserializerInv

(* enter_plist_value is left.                                               *)
LEMMA LeaveValueKeeps == DeserializerInv /\ D!LeavePlistValue => DeserializerInv'
<1> SUFFICES ASSUME DeserializerInv, D!LeavePlistValue
             PROVE  DeserializerInv'
  OBVIOUS
<1>1. /\ dCalls # <<>> /\ InnermostIs(dCalls, "leave")
      /\ dInValue' = Last(dCalls).prev /\ D!Do(<<>>) /\ UNCHANGED dMode
  BY DEF D!LeavePlistValue, D!Left, D!Top, D!Last, Last, InnermostIs
<1>2. /\ IsStack(dCalls')
      /\ Without(dCalls', "leave") => Outermost(dCalls, "leave", Len(dCalls))
      /\ Without(dCalls', "restore") => Without(dCalls, "restore")
      /\ \A i \in 1..Len(dCalls'), q \in {"leave", "restore"} : Outermost(dCalls', q, i) =>
           i \in 1..Len(dCalls) /\ Outermost(dCalls, q, i) /\ dCalls'[i] = dCalls[i]
      /\ Len(dCalls) \in 1..Len(dCalls) /\ Last(dCalls) = dCalls[Len(dCalls)]
  BY <1>1, LeaveFacts
<1>3. KeepsMode(dCalls', dMode')
  BY <1>1, <1>2 DEF KeepsMode, DeserializerInv
<1>4. KeepsInValue(dCalls', dInValue')
  BY <1>1, <1>2 DEF KeepsInValue, DeserializerInv
<1> QED
  BY <1>2, <1>3, <1>4 DEF DeserializerInv

(* Every step of the deserializer keeps the invariant.                      *)
LEMMA StepKeeps == DeserializerInv /\ D!Step => DeserializerInv'
<1>1. D!Finish => PlainStep
  BY StillIsPlain DEF D!Finish
<1> QED
  BY <1>1, PlainStepKeeps, DeserializerEnterModeKeeps, DeserializerLeaveModeKeeps, EnterValueKeeps, LeaveValueKeeps,
     ExpectEventIsPlain, UnwindIsPlain, LeavesArePlain, CollectionsArePlain, AnyIsPlain,
     OptionIsPlain, NamedArePlain, EnumIsPlain, VisitsArePlain
     DEF D!Step

(* Before it is used nothing has been called.                               *)
IdleInv == dOutcome = "idle" => dMode = D!Root /\ dInValue = FALSE

(* A step is one of a deserializer in use, and leaves it in use.            *)
LEMMA StepInUse == D!Step => dOutcome' # "idle"
<1>1. D!Running => dOutcome = "running"
  BY DEF D!Running
<1>2. \A kinds : D!Deserializing(kinds) => dOutcome = "running"
  BY <1>1 DEF D!Deserializing
<1>3. D!Fail => dOutcome' = "error"
  BY DEF D!Fail
<1>4. D!Stay \/ D!Consume => dOutcome' = dOutcome
  BY DEF D!Stay, D!Consume
<1>5. D!ExpectEvent => dOutcome' # "idle"
  BY <1>1, <1>3, <1>4 DEF D!ExpectEvent
<1>6. D!EnterMode \/ D!LeaveMode \/ D!Unwind => dOutcome' # "idle"
  BY <1>1, <1>4 DEF D!EnterMode, D!LeaveMode, D!Unwind
<1>7. D!EnterPlistValue \/ D!LeavePlistValue => dOutcome' # "idle"
  BY <1>1, <1>4 DEF D!EnterPlistValue, D!LeavePlistValue
<1>8. D!DeserializeLeaf \/ D!DeserializeSeq \/ D!DeserializeMap => dOutcome' # "idle"
  BY <1>2, <1>3, <1>4 DEF D!DeserializeLeaf, D!DeserializeSeq, D!DeserializeMap
<1>9. D!DeserializeAny \/ D!DeserializeIgnored => dOutcome' # "idle"
  BY <1>2, <1>3, <1>4 DEF D!DeserializeAny, D!DeserializeIgnored
<1>10. D!NextElement \/ D!NextEntry \/ D!NextField \/ D!MakeValue => dOutcome' # "idle"
  BY <1>1, <1>3, <1>4 DEF D!NextElement, D!NextEntry, D!NextField, D!MakeValue
<1>11. D!DeserializeUnit \/ D!DeserializeNewtypeStruct \/ D!DeserializeStruct => dOutcome' # "idle"
  BY <1>2, <1>3, <1>4 DEF D!DeserializeUnit, D!DeserializeNewtypeStruct, D!DeserializeStruct
<1>12. D!DeserializeOption \/ D!ExplicitOption => dOutcome' # "idle"
  BY <1>2, <1>3, <1>4 DEF D!DeserializeOption, D!ExplicitOption
<1>13. D!DeserializeEnum \/ D!DeserializeVariant => dOutcome' # "idle"
  BY <1>2, <1>3, <1>4 DEF D!DeserializeEnum, D!DeserializeVariant
<1>14. D!Finish => dOutcome' # "idle"
  BY DEF D!Finish
<1> QED
  BY <1>5, <1>6, <1>7, <1>8, <1>9, <1>10, <1>11, <1>12, <1>13, <1>14 DEF D!Step

(* The deserializer is given its events.                                    *)
LEMMA FromStreamKeeps ==
  ASSUME NEW es, IdleInv, dOutcome = "idle", D!FromStream(es)
  PROVE  DeserializerInv' /\ dOutcome' # "idle"
<1> DEFINE f == D!Deserialize(dType)
<1>1. /\ dCalls' = <<f>> /\ dOutcome' = "running"
      /\ dMode' = D!Root /\ dInValue' = FALSE
  BY DEF D!FromStream, D!modes, IdleInv
<1>2. IsPlain(f)
  BY FramesArePlain
<1> HIDE DEF f
<1>3. <<f>> \in Seq({f}) /\ Len(<<f>>) = 1 /\ <<f>>[1] = f
  OBVIOUS
<1>4. IsStack(dCalls')
  BY <1>1, <1>3 DEF IsStack
<1>5. Without(dCalls', "restore") /\ Without(dCalls', "leave")
  BY <1>1, <1>2, <1>3 DEF Without, IsPlain
<1>6. KeepsMode(dCalls', dMode') /\ KeepsInValue(dCalls', dInValue')
  BY <1>1, <1>5 DEF KeepsMode, KeepsInValue, Without, Outermost
<1> QED
  BY <1>1, <1>4, <1>6 DEF DeserializerInv

(* Whatever the type asked for and whatever the events, good or bad: when   *)
(* the outermost call of a deserializer has returned, with or without an    *)
(* error, it takes Options as at the root and dates and uids for no part of *)
(* a Value.                                                                 *)
THEOREM DeserializerModesAreRestored == RoundTripSpec => []DeserializerModeRestored
<1> DEFINE Inv == DeserializerInv /\ IdleInv
<1>1. RoundTripInit => Inv
  <2> SUFFICES ASSUME D!Idle
               PROVE  Inv
    BY DEF RoundTripInit
  <2>1. dCalls = <<>> /\ dMode = D!Root /\ dInValue = FALSE
    BY DEF D!Idle
  <2>2. dCalls \in Seq({}) /\ Len(dCalls) = 0
    BY <2>1, EmptySeq
  <2> QED
    BY <2>1, <2>2 DEF DeserializerInv, IdleInv, IsStack, KeepsMode, KeepsInValue
<1>2. Inv /\ [RoundTripNext]_allVars => Inv'
  <2> SUFFICES ASSUME Inv, [RoundTripNext]_allVars
               PROVE  Inv'
    OBVIOUS
  <2>1. CASE UNCHANGED deserializer
    BY <2>1 DEF deserializer, DeserializerInv, IdleInv, IsStack, KeepsMode, KeepsInValue
  <2>2. CASE Turn
    <3>1. dOutcome = "idle" /\ \E es : D!FromStream(es)
      BY <2>2 DEF Turn
    <3> QED
      BY <3>1, FromStreamKeeps DEF IdleInv
  <2>3. CASE Read
    BY <2>3, StepKeeps, StepInUse DEF Read, IdleInv
  <2>4. Run \/ Rest \/ UNCHANGED allVars => UNCHANGED deserializer
    BY DEF Run, Rest, allVars
  <2> QED
    BY <2>1, <2>2, <2>3, <2>4 DEF RoundTripNext
<1>3. Inv => DeserializerModeRestored
  <2> SUFFICES ASSUME DeserializerInv, dCalls = <<>>
               PROVE  dMode = D!Root /\ ~dInValue
    BY DEF DeserializerModeRestored, D!ModeRestored
  <2>1. Len(dCalls) = 0
    BY EmptySeq
  <2>2. Without(dCalls, "restore") /\ Without(dCalls, "leave")
    BY <2>1 DEF Without
  <2> QED
    BY <2>2 DEF DeserializerInv, KeepsMode, KeepsInValue
<1> QED
  BY <1>1, <1>2, <1>3, PTL DEF RoundTripSpec

(* The serializer's theorems hold of it in the round trip: to it, reading   *)
(* back is stuttering.                                                      *)
THEOREM SerializerInRoundTrip == RoundTripSpec => []WritesWholePlist /\ []ModeRestored
<1>1. RoundTripInit => Init
  BY DEF RoundTripInit
<1>2. [RoundTripNext]_allVars => [Next]_vars
  BY DEF RoundTripNext, Run, Turn, Read, Rest, allVars, vars
<1> QED
  BY <1>1, <1>2, WritesWhole, ModesAreRestored, PTL DEF RoundTripSpec, Spec

=============================================================================
