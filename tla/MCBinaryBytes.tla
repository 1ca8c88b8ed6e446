---------------------------- MODULE MCBinaryBytes ----------------------------
(***************************************************************************)
(* Files for BinaryBytes: what the writer makes of values and tables at    *)
(* the boundaries of every width, what other encoders may make of some of  *)
(* them, and those that are one byte, or their end, away from one.         *)
(***************************************************************************)
EXTENDS BinaryBytes, FiniteSets

MCUnpaired == {13}
MCNotFinite == {7}

Value(type, content) == [type |-> type, content |-> content]
Leaf(v) == [kind |-> "value", value |-> v, refs |-> <<>>]
Nothing == Value("none", 0)
Array(refs) == [kind |-> "array", value |-> Nothing, refs |-> refs]
Dict(refs) == [kind |-> "dict", value |-> Nothing, refs |-> refs]

(***************************************************************************)
(* Tables of objects, the root first.                                      *)
(***************************************************************************)
(* Both sides of every power of the base that ends a width.                 *)
Boundaries ==
  UNION { {Base ^ w - 1, Base ^ w} : w \in {1, 2, 4} } \cup {0, Base ^ 8 - 1}
Ints64 == Boundaries \cup {Base ^ 8 \div 2 - 1, Base ^ 8 \div 2}
               \cup { -n : n \in {1, Base, Base ^ 8 \div 2} }
Lengths == {0, 1, 2, 3, 4, 15, 16, 17}

Scalars ==
  { Value("integer", n) : n \in Ints64 } \cup { Value("uid", n) : n \in Boundaries }
    \cup { Value("real", n) : n \in {0, Base ^ 8 - 1} } \cup {Value("date", 9)}
    \cup { Value("boolean", b) : b \in BOOLEAN }
Texts ==
  { Value(t, [i \in 1..n |-> i % Base]) : t \in {"data", "ascii"}, n \in Lengths }
    \cup { Value("utf16", [i \in 1..n |-> 12 - (i % 8)]) : n \in Lengths \ {17} }
    \cup {Value("data", [i \in 1..256 |-> 0])}

(* A root that refers to each of n leaves, in order.                        *)
Upto(n) == [i \in 1..n |-> i]
Leaves(n) == [i \in 1..n |-> Leaf(Value("uid", i))]
Wide ==
  { <<Array(Upto(n))>> \o Leaves(n) : n \in Lengths \cup {5, MaxObjects - 1} }
    \cup { <<Dict(Upto(2 * n))>> \o Leaves(2 * n) : n \in {0, 1, 2, 3, 8} }

(* Nested, shared, empty, recursive.                                        *)
Nested ==
  { <<Dict(<<1, 2, 2, 3>>), Leaf(Value("ascii", <<1>>)), Leaf(Value("ascii", <<>>)),
      Array(<<4, 1, 4>>), Array(<<>>)>>,
    <<Array(<<1, 1, 2>>), Dict(<<2, 2>>), Leaf(Value("integer", 5))>>,
    <<Array(<<1>>), Dict(<<2, 0>>), Leaf(Value("ascii", <<2>>))>> }

Tables == { <<Leaf(v)>> : v \in Scalars \cup Texts } \cup Wide \cup Nested

(***************************************************************************)
(* The writer's files: objects in the order of their numbers, or not.      *)
(***************************************************************************)
InOrder(t) == [r \in 0..(Len(t) - 1) |-> r + 1]
Backwards(t) == [r \in 0..(Len(t) - 1) |-> Len(t) - r]

Written ==
  { [bytes |-> WritePlist(t, InOrder(t)), table |-> t] : t \in Tables }
    \cup { [bytes |-> WritePlist(Reverse(t), Backwards(t)), table |-> t] : t \in Nested }

(***************************************************************************)
(* Other encoders' files: wider numbers than necessary, 24-bit offsets.    *)
(***************************************************************************)
Longer(type, n) == <<Token(type, Inline), Token(1, 3)>> \o Digits(8, n)
WideBytes(o, rs) ==
  CASE o.kind = "array" -> Longer(10, Len(o.refs)) \o PlistRefs(rs, o.refs)
    [] o.kind = "dict" -> Longer(13, Len(o.refs) \div 2) \o PlistRefs(rs, o.refs)
    [] o.kind = "value" -> ObjectBytes(o, rs)

Encoded(t, ObjectBytes_(_, _), os, rs) ==
  FileBytes([k \in 1..Len(t) |-> ObjectBytes_(t[k], rs)], InOrder(t), os, rs)

Others ==
  { f \in { [bytes |-> Encoded(t, ObjectBytes, os, rs), table |-> t] :
              t \in Nested, os \in {3, 4, 8}, rs \in {2, 4, 8} } :
      Len(f.bytes) < 64 + 32 }
    \cup { [bytes |-> Encoded(t, WideBytes, 8, rs), table |-> t] :
             t \in Nested, rs \in {2, 4} }

(***************************************************************************)
(* What nobody wrote: a byte is changed, or the end is missing.            *)
(***************************************************************************)
Originals ==
  { WritePlist(t, InOrder(t)) : t \in Nested }
    \cup { WritePlist(<<Leaf(v)>>, [r \in {0} |-> 1]) :
             v \in {Value("data", <<1, 2, 3>>), Value("utf16", <<3, 12>>),
                    Value("ascii", <<1>>), Value("integer", Base ^ 8 - 1),
                    Value("date", 5)} }
    \cup { Encoded(t, WideBytes, 4, 2) : t \in Nested }

NewBytes ==
  {0, 1, 2, 3, 8, 15, Token(1, 0), Token(1, 4), Token(2, 2), Token(3, 3), Token(4, 2),
   Token(5, 3), Token(6, 2), Token(8, 7), Token(10, 2), Token(13, 1), Token(13, 2)}

Changed ==
  UNION { { [bs EXCEPT ![i] = b] : i \in 1..Len(bs), b \in NewBytes } : bs \in Originals }
Cut == UNION { { SubSeq(bs, i, Len(bs)) : i \in 2..Len(bs) }
                 \cup { SubSeq(bs, 1, i) : i \in 0..(Len(bs) - 1) } : bs \in Originals }

MCFiles ==
  Written \cup Others \cup { [bytes |-> bs, table |-> <<>>] : bs \in Changed \cup Cut }

=============================================================================
