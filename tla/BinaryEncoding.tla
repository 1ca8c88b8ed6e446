--------------------------- MODULE BinaryEncoding ---------------------------
(***************************************************************************)
(* The bytes of a binary plist, as stream/binary_writer.rs writes them.    *)
(*                                                                         *)
(* Numbers are scaled: a byte of a number has Base values, not 256, so     *)
(* that every width (u8, u16, u32, u64, i64, i128) has its boundary within *)
(* reach, and lengths below Inline, not 0x0f, fit in an object's token.    *)
(* The other bytes are what they are: tokens are 0x00..0xff, as are the    *)
(* two sizes of the trailer.                                               *)
(***************************************************************************)
EXTENDS Integers, Sequences, SequencesExt

CONSTANTS Base, Inline

ASSUME BaseAssumption == Base \in Nat \ {0, 1} /\ Base % 2 = 0
ASSUME InlineAssumption == Inline \in 1..15 /\ Inline < Base

(***************************************************************************)
(* Numbers.                                                                *)
(***************************************************************************)
Limit(width) == Base ^ width
Fits(n, width) == n >= 0 /\ n < Limit(width)

(* to_be_bytes, in two's complement; `as u8` and the like drop high digits. *)
Digits(width, n) == [i \in 1..width |-> (n \div Base ^ (width - i)) % Base]

(* A token read as a byte of a number is a large one.                       *)
Digit(byte) == IF byte < Base THEN byte ELSE Base - 1

(* from_be_bytes *)
Unsigned(bs) ==
  LET upto[k \in 0..Len(bs)] == IF k = 0 THEN 0 ELSE upto[k - 1] * Base + Digit(bs[k])
  IN  upto[Len(bs)]
Signed(bs) ==
  LET n == Unsigned(bs)
      range == Limit(Len(bs))
  IN  IF n < range \div 2 THEN n ELSE n - range

(* An Integer is an i64 or a u64: as_signed, as_unsigned.                   *)
AsSigned(n) == n >= -(Limit(8) \div 2) /\ n < Limit(8) \div 2
AsUnsigned(n) == Fits(n, 8)

(***************************************************************************)
(* The sizes of references, of lengths, of integers.                       *)
(***************************************************************************)
(* Mutant: the number of bytes is not rounded up. *)
PlistRefSize_Unrounded(max_value) ==
  CHOOSE w \in 1..8 : Fits(max_value, w) /\ \A u \in 1..(w - 1) : ~Fits(max_value, u)

(* Bytes that have a digit, at least one, up to the next power of two.      *)
PlistRefSize(max_value) ==
  LET significant_bytes ==
        CHOOSE w \in 0..8 : Fits(max_value, w) /\ \A u \in 0..(w - 1) : ~Fits(max_value, u)
  IN  CHOOSE w \in {1, 2, 4, 8} :
        w >= significant_bytes /\ \A u \in {1, 2, 4, 8} : u >= significant_bytes => w <= u

Token(ty, size) == 16 * ty + size

(* The exponent p of the first of 1, 2, 4 and 8 bytes to hold n.            *)
Exponent(n) == CHOOSE p \in 0..3 : Fits(n, 2 ^ p) /\ \A q \in 0..(p - 1) : ~Fits(n, 2 ^ q)

(* Mutant: the length that announces a length is itself put in the token. *)
TyAndSize_AtMost(ty, n) ==
  IF n <= Inline
  THEN <<Token(ty, n)>>
  ELSE <<Token(ty, Inline), Token(1, Exponent(n))>> \o Digits(2 ^ Exponent(n), n)

(* write_plist_value_ty_and_size *)
TyAndSize(ty, n) ==
  IF n < Inline
  THEN <<Token(ty, n)>>
  ELSE <<Token(ty, Inline), Token(1, Exponent(n))>> \o Digits(2 ^ Exponent(n), n)

(***************************************************************************)
(* Objects.  A value is [type, content]; the bits of a real and of the     *)
(* seconds of a date are a number, a string is what is_ascii makes of it.  *)
(***************************************************************************)
(* Mutant: what does not fit an i64 is written as one all the same. *)
IntegerBytes_Truncated(n) ==
  LET p == IF n >= 0 THEN Exponent(n) ELSE 3
  IN  <<Token(1, p)>> \o Digits(2 ^ p, n)

IntegerBytes(n) ==
  IF AsSigned(n)
  THEN LET p == IF n >= 0 THEN Exponent(n) ELSE 3
       IN  <<Token(1, p)>> \o Digits(2 ^ p, n)
  ELSE <<Token(1, 4)>> \o Digits(16, n)

UidBytes(n) ==
  LET width == 2 ^ Exponent(n) IN <<Token(8, width - 1)>> \o Digits(width, n)

ValueBytes(v) ==
  LET c == v.content IN
  CASE v.type = "boolean" -> <<IF c THEN Token(0, 9) ELSE Token(0, 8)>>
    [] v.type = "integer" -> IntegerBytes(c)
    [] v.type = "real"    -> <<Token(2, 3)>> \o Digits(8, c)
    [] v.type = "date"    -> <<Token(3, 3)>> \o Digits(8, c)
    [] v.type = "data"    -> TyAndSize(4, Len(c)) \o c
    [] v.type = "ascii"   -> TyAndSize(5, Len(c)) \o c
    [] v.type = "utf16"   -> TyAndSize(6, Len(c))
                               \o FlattenSeq([i \in 1..Len(c) |-> Digits(2, c[i])])
    [] v.type = "uid"     -> UidBytes(c)

(* A list of references or offsets. *)
PlistRefs(size, refs) == FlattenSeq([i \in 1..Len(refs) |-> Digits(size, refs[i])])

ObjectBytes(o, ref_size) ==
  CASE o.kind = "value" -> ValueBytes(o.value)
    [] o.kind = "array" -> TyAndSize(10, Len(o.refs)) \o PlistRefs(ref_size, o.refs)
    [] o.kind = "dict"  -> TyAndSize(13, Len(o.refs) \div 2) \o PlistRefs(ref_size, o.refs)

(***************************************************************************)
(* The file.                                                               *)
(***************************************************************************)
Magic == <<98, 112, 108, 105, 115, 116, 48, 48>>    \* b"bplist00"

Trailer(offset_size, ref_size, num_objects, offset_table_offset) ==
  <<0, 0, 0, 0, 0, 0, offset_size, ref_size>>
    \o Digits(8, num_objects) \o Digits(8, 0) \o Digits(8, offset_table_offset)

(* The position in the file of part k of the parts that follow the magic.   *)
Position(parts, k) == Len(Magic) + Len(FlattenSeq(SubSeq(parts, 1, k - 1)))

(* The file with the given bytes of its objects, in that order, the object  *)
(* numbered r being part offsets[r].                                        *)
FileBytes(parts, offsets, offset_size, ref_size) ==
  Magic \o FlattenSeq(parts)
    \o PlistRefs(offset_size, [i \in 1..Len(parts) |-> Position(parts, offsets[i - 1])])
    \o Trailer(offset_size, ref_size, Len(parts), Position(parts, Len(parts) + 1))

(* Mutant: as many references as there are objects, not one less. *)
WritePlist_RefSize(objects, offsets) ==
  LET ref_size == PlistRefSize(IF Len(objects) > 1 THEN Len(objects) - 2 ELSE 0)
      parts == [k \in 1..Len(objects) |-> ObjectBytes(objects[k], ref_size)]
  IN  FileBytes(parts, offsets, PlistRefSize(Position(parts, Len(parts) + 1)), ref_size)

(* What write_plist writes.  References are as wide as the last one needs,  *)
(* which is known before any is written; offsets as wide as that of the     *)
(* table, which is beyond them all.                                         *)
WritePlist(objects, offsets) ==
  LET ref_size == PlistRefSize(Len(objects) - 1)
      parts == [k \in 1..Len(objects) |-> ObjectBytes(objects[k], ref_size)]
  IN  FileBytes(parts, offsets, PlistRefSize(Position(parts, Len(parts) + 1)), ref_size)

=============================================================================
