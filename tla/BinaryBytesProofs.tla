--------------------------- MODULE BinaryBytesProofs ---------------------------
(***************************************************************************)
(* Whatever the bytes: no vector is larger than the file, no object runs   *)
(* into the trailer by more than its token and length, and no flag is      *)
(* looked up that is not there.                                            *)
(***************************************************************************)
EXTENDS BinaryBytes, SequenceLemmas

(***************************************************************************)
(* Numbers.                                                                *)
(***************************************************************************)
(* A digit is a number. *)
LEMMA DigitType ==
  ASSUME NEW b \in Nat
  PROVE  Digit(b) \in Nat
<1>1. Base \in Nat /\ Base # 0
  BY BaseAssumption
<1> QED
  BY <1>1 DEF Digit

(* Bytes make a number. *)
LEMMA UnsignedType ==
  ASSUME NEW bs \in Seq(Nat)
  PROVE  Unsigned(bs) \in Nat
<1> DEFINE h == [x \in Nat \X Nat |-> x[1] * Base + Digit(x[2])]
           n == Len(bs)
           Counts(f) == f = [k \in 0..n |-> IF k = 0 THEN 0
                                            ELSE f[k - 1] * Base + Digit(bs[k])]
           upto == CHOOSE f : Counts(f)
<1>1. n \in Nat /\ Base \in Nat /\ \A k \in 1..n : bs[k] \in Nat
  BY BaseAssumption, SeqElements
<1>2. h \in [Nat \X Nat -> Nat]
  <2>1. ASSUME NEW x \in Nat \X Nat
        PROVE  x[1] * Base + Digit(x[2]) \in Nat
    <3>1. x[1] \in Nat /\ x[2] \in Nat /\ Digit(x[2]) \in Nat
      BY DigitType
    <3> QED
      BY <1>1, <3>1
  <2> QED
    BY <2>1
<1>3. PICK g \in [0..n -> Nat] : g[0] = 0 /\ \A k \in 1..n : g[k] = h[<<g[k - 1], bs[k]>>]
  <2> HIDE DEF h
  <2>1. 0 \in Nat /\ bs \in Seq(Nat)
    OBVIOUS
  <2>2. \E g \in [0..Len(bs) -> Nat] : Scans(g, bs, 0, h)
    BY <1>2, <2>1, ScanExists, ZenonT(30)
  <2> QED
    BY <2>2 DEF Scans
<1>4. \A k \in 1..n : g[k] = g[k - 1] * Base + Digit(bs[k])
  <2> SUFFICES ASSUME NEW k \in 1..n
               PROVE  g[k] = g[k - 1] * Base + Digit(bs[k])
    OBVIOUS
  <2>1. k - 1 \in 0..n
    BY <1>1
  <2>2. g[k - 1] \in Nat /\ bs[k] \in Nat
    BY <1>1, <2>1
  <2>3. \A x \in Nat, y \in Nat : h[<<x, y>>] = x * Base + Digit(y)
    OBVIOUS
  <2> HIDE DEF h
  <2> QED
    BY <1>3, <2>2, <2>3
<1> HIDE DEF h
<1>5. Counts(g)
  <2> DEFINE f == [k \in 0..n |-> IF k = 0 THEN 0 ELSE g[k - 1] * Base + Digit(bs[k])]
  <2>1. ASSUME NEW k \in 0..n
        PROVE  g[k] = f[k]
    BY <1>1, <1>3, <1>4
  <2> HIDE DEF f
  <2>2. g = f
    <3>1. f = [k \in 0..n |-> f[k]]
      BY DEF f
    <3> QED
      BY <1>3, <2>1, <3>1
  <2> QED
    BY <2>2 DEF f
<1>6. Counts(upto)
  <2> HIDE DEF Counts
  <2> QED
    BY <1>5
<1>7. 0..n \subseteq {k \in 0..n : upto[k] \in Nat}
  <2> DEFINE T == {k \in 0..n : upto[k] \in Nat}
  <2> HIDE DEF upto
  <2>1. upto[0] = 0 /\ \A k \in 1..n : upto[k] = upto[k - 1] * Base + Digit(bs[k])
    BY <1>1, <1>6
  <2>2. 0 \in T
    BY <1>1, <2>1
  <2>3. ASSUME NEW k \in 1..n, k - 1 \in T
        PROVE  k \in T
    <3>1. upto[k - 1] \in Nat /\ Digit(bs[k]) \in Nat
      BY <1>1, <2>3, DigitType
    <3>2. upto[k - 1] * Base \in Nat
      BY <1>1, <3>1
    <3>3. upto[k] = upto[k - 1] * Base + Digit(bs[k])
      BY <2>1, ZenonT(30)
    <3>4. upto[k] \in Nat
      <4> HIDE DEF upto
      <4> QED
        BY <3>1, <3>2, <3>3
    <3> QED
      BY <2>3, <3>4
  <2> HIDE DEF T
  <2>4. 0..n \subseteq T
    BY <1>1, <2>2, <2>3, BoundedInduction
  <2> QED
    BY <2>4 DEF T
<1>8. Unsigned(bs) = upto[n]
  BY DEF Unsigned
<1> HIDE DEF upto
<1> QED
  BY <1>1, <1>7, <1>8

(* A byte is a number. *)
LEMMA ByteType ==
  \A b \in Byte : b \in Nat /\ b \div 16 \in 0..15 /\ b % 16 \in Nat
    /\ (b % 4) + 1 \in 1..4
  BY DEF Byte

(* The bytes of a part of a file, and the number that they make. *)
LEMMA NumberType ==
  ASSUME bytes \in Seq(Byte), NEW from \in Nat, NEW n \in Nat, from + n <= Len(bytes)
  PROVE  Slice(from, n) \in Seq(Nat) /\ Number(from, n) \in Nat
<1>1. Len(bytes) \in Nat /\ \A i \in 1..Len(bytes) : bytes[i] \in Byte
  BY SeqElements
<1>2. ASSUME NEW i \in (from + 1)..(from + n)
      PROVE  bytes[i] \in Nat
  <2> DEFINE m == Len(bytes)
  <2>1. m \in Nat /\ from + n <= m /\ \A k \in 1..m : bytes[k] \in Byte
    BY <1>1
  <2> HIDE DEF m
  <2>2. i \in 1..m
    BY <2>1
  <2>3. bytes[i] \in Byte
    BY <2>1, <2>2, Zenon
  <2> QED
    BY <2>3, ByteType
<1>3. SubSeq(bytes, from + 1, from + n) \in Seq(Nat)
  BY <1>2, SubSeqProperties
<1> QED
  BY <1>3, UnsignedType DEF Number, Slice

(* The numbers of a list. *)
LEMMA IntsType ==
  ASSUME bytes \in Seq(Byte), NEW from \in Nat, NEW n \in Nat, NEW size \in Nat,
         from + n * size <= Len(bytes)
  PROVE  Ints(from, n, size) \in Seq(Nat) /\ Len(Ints(from, n, size)) = n
<1>1. ASSUME NEW i \in 1..n
      PROVE  Number(from + (i - 1) * size, size) \in Nat
  <2> DEFINE k == i - 1
  <2>1. k \in Nat /\ k + 1 <= n
    OBVIOUS
  <2> HIDE DEF k
  <2>2. k * size \in Nat /\ k * size + size <= n * size
    <3>1. \A a \in Nat, b \in Nat : a <= b => a * size <= b * size
      OBVIOUS
    <3>2. (k + 1) * size <= n * size
      BY <2>1, <3>1
    <3>3. (k + 1) * size = k * size + size /\ k * size \in Nat
      BY <2>1
    <3> QED
      BY <3>2, <3>3
  <2>3. n * size \in Nat /\ Len(bytes) \in Nat
    OBVIOUS
  <2> DEFINE x == k * size
             y == n * size
  <2>4. x \in Nat /\ y \in Nat /\ x + size <= y /\ from + y <= Len(bytes)
    BY <2>2, <2>3
  <2> HIDE DEF x, y
  <2>5. from + x \in Nat /\ (from + x) + size <= Len(bytes)
    BY <2>3, <2>4
  <2>6. Number(from + x, size) \in Nat
    BY <2>5, NumberType, ZenonT(30)
  <2> QED
    BY <2>6 DEF x, k
<1>2. Ints(from, n, size) \in [1..n -> Nat]
  BY <1>1 DEF Ints
<1> QED
  BY <1>2

(***************************************************************************)
(* The inductive invariant.                                                *)
(***************************************************************************)
Phases == {"idle", "offsets", "object", "scalar", "length", "payload", "values",
           "double", "push"}

Items == [object_ref : Nat, ty : {"array", "dict"}, child_object_refs : Seq(Nat)]

(* A sequence, whatever it holds.                                           *)
IsSequence(s) == \E R : s \in Seq(R)

Types ==
  /\ bytes \in Seq(Byte)
  /\ at \in Nat /\ pos \in Nat
  /\ trailer_start_offset \in Nat /\ ref_size \in Nat /\ root_object \in Nat
  /\ object_offsets \in Seq(Nat)
  /\ pc \in Phases
  /\ object_ref \in Nat /\ ty \in 0..15 /\ len \in Nat /\ key_refs \in Seq(Nat)
  /\ stack \in Seq(Items)
  /\ DOMAIN object_on_stack = 0..(Len(object_offsets) - 1)
  /\ IsSequence(events)
  /\ allocated \in Nat

(* Until the trailer has been read, nothing else has.                       *)
TrailerFirst ==
  /\ ref_size = 0 => /\ pc = "idle" /\ stack = <<>> /\ returned # "event"
                     /\ allocated = 0
  /\ pc = "offsets" =>
       /\ stack = <<>>
       /\ trailer_start_offset + 32 <= Len(bytes)
       /\ OffsetSize \in {1, 2, 3, 4, 8}
  /\ trailer_start_offset <= Len(bytes)

(* An object that is being read has been looked up.                         *)
InTable ==
  /\ pc \in {"scalar", "length", "payload", "values", "double", "push"} =>
       object_ref < Len(object_offsets)
  /\ \A d \in 1..Len(stack) : stack[d].object_ref < Len(object_offsets)

(* How far from the start of the object, pos, reading has got.              *)
Reach ==
  /\ pc \in {"length", "payload", "values", "double"} => pos < trailer_start_offset
  /\ pc = "length" => at = pos + 1
  /\ pc = "payload" => at <= pos + 10
  /\ pc = "values" => at <= pos + 10 + len * ref_size
  /\ pc = "double" => at <= pos + 10 + 2 * (len * ref_size)
  /\ OverrunIsHeader

(* The references that have been read.                                      *)
RefsRead ==
  /\ pc \in {"values", "double"} => ty = 13
  /\ pc = "values" => Len(key_refs) = len
  /\ pc = "double" \/ (pc = "push" /\ ty # 10) => Len(key_refs) = 2 * len

BInv == Types /\ TrailerFirst /\ InTable /\ Reach /\ RefsRead /\ AllocationsBounded

(* What an event appended to others is. *)
LEMMA LastEvent ==
  ASSUME NEW s, IsSequence(s), NEW e, NEW t, t = Append(s, e)
  PROVE  IsSequence(t) /\ Last(t) = e
<1>1. PICK R : s \in Seq(R)
  BY DEF IsSequence
<1>2. s \in Seq(R \cup {e})
  <2> DEFINE n == Len(s)
  <2>1. s \in [1..n -> R] /\ n \in Nat
    BY <1>1
  <2>2. s \in [1..n -> R \cup {e}]
    BY <2>1
  <2> HIDE DEF n
  <2> QED
    BY <2>1, <2>2
<1>3. t \in Seq(R \cup {e}) /\ Len(t) = Len(s) + 1 /\ t[Len(s) + 1] = e
  BY <1>2
<1> QED
  BY <1>3 DEF Last, IsSequence

(* The invariant holds at first.                                            *)
LEMMA InitBInv == Init => BInv
<1> SUFFICES ASSUME Init
             PROVE  BInv
  OBVIOUS
<1>1. PICK f \in Files : bytes = f.bytes /\ table = f.table
  BY DEF Init
<1>2. bytes \in Seq(Byte)
  BY <1>1, FilesAssumption
<1>3. Types
  <2>1. /\ object_offsets \in Seq(Nat) /\ key_refs \in Seq(Nat) /\ stack \in Seq(Items)
        /\ events \in Seq(Nat)
    BY EmptySeq DEF Init
  <2>2. IsSequence(events)
    BY <2>1 DEF IsSequence
  <2>3. DOMAIN object_on_stack = 0..(Len(object_offsets) - 1)
    <3>1. Len(<<>>) = 0 /\ 0..(0 - 1) = {}
      BY EmptySeq
    <3>2. DOMAIN << >> = {}
      OBVIOUS
    <3> QED
      BY <3>1, <3>2 DEF Init
  <2> QED
    BY <1>2, <2>1, <2>2, <2>3 DEF Init, Types, Phases
<1>4. TrailerFirst /\ RefsRead /\ AllocationsBounded
  BY DEF Init, TrailerFirst, RefsRead, AllocationsBounded
<1>5. InTable /\ Reach
  <2>1. Len(stack) = 0
    BY EmptySeq DEF Init
  <2> QED
    BY <2>1 DEF Init, InTable, Reach, OverrunIsHeader, PiecesRead
<1> QED
  BY <1>3, <1>4, <1>5 DEF BInv

(* A call that fails leaves nothing open.                                   *)
LEMMA FailKeeps ==
  ASSUME BInv, Fail, bytes' = bytes, at' \in Nat, pos' \in Nat,
         trailer_start_offset' \in Nat, ref_size' \in Nat, root_object' \in Nat,
         object_offsets' = object_offsets, allocated' \in Nat,
         allocated' <= trailer_start_offset', ref_size' = 0 => allocated' = 0,
         trailer_start_offset' <= Len(bytes)
  PROVE  BInv'
<1>1. /\ returned' = "err" /\ stack' = <<>> /\ pc' = "idle"
      /\ object_on_stack' = object_on_stack /\ events' = events
      /\ object_ref' = object_ref /\ ty' = ty /\ len' = len /\ key_refs' = key_refs
  BY DEF Fail, object
<1>2. Types'
  <2>1. stack' \in Seq(Items)
    BY <1>1, EmptySeq
  <2>2. pc' \in Phases
    BY <1>1 DEF Phases
  <2> QED
    BY <1>1, <2>1, <2>2 DEF BInv, Types, IsSequence
<1>3. TrailerFirst' /\ RefsRead' /\ AllocationsBounded'
  BY <1>1 DEF TrailerFirst, RefsRead, AllocationsBounded
<1>4. InTable' /\ Reach'
  <2>1. Len(stack') = 0
    BY <1>1, EmptySeq
  <2> QED
    BY <1>1, <2>1 DEF InTable, Reach, OverrunIsHeader, PiecesRead
<1> QED
  BY <1>2, <1>3, <1>4 DEF BInv

(* The bytes of the trailer are numbers.                                    *)
LEMMA TrailerBytes ==
  ASSUME Types, Len(bytes) >= 32
  PROVE  /\ Len(bytes) \in Nat /\ Start \in Nat /\ Start + 32 = Len(bytes)
         /\ Start <= Len(bytes)
         /\ \A i \in 1..32 : bytes[Start + i] \in Byte
         /\ \A k \in {8, 16, 24} : Number(Start + k, 8) \in Nat
<1> DEFINE n == Len(bytes)
<1>1. bytes \in Seq(Byte) /\ n \in Nat /\ \A i \in 1..n : bytes[i] \in Byte
  BY SeqElements DEF Types
<1>2. Start = n - 32 /\ n >= 32
  BY DEF Start
<1> HIDE DEF n
<1>3. Start \in Nat /\ Start + 32 = n /\ Start <= n
  BY <1>1, <1>2
<1>4. \A i \in 1..32 : bytes[Start + i] \in Byte
  <2> SUFFICES ASSUME NEW i \in 1..32
               PROVE  bytes[Start + i] \in Byte
    OBVIOUS
  <2>1. Start + i \in 1..n
    BY <1>1, <1>3
  <2> QED
    BY <1>1, <2>1
<1>5. ASSUME NEW k \in {8, 16, 24}
      PROVE  Number(Start + k, 8) \in Nat
  <2>1. Start + k \in Nat /\ 8 \in Nat /\ (Start + k) + 8 <= n
    BY <1>3
  <2> QED
    BY <1>1, <2>1, NumberType, ZenonT(30) DEF n
<1> QED
  BY <1>1, <1>3, <1>4, <1>5 DEF n

(* No header, no trailer.                                                   *)
LEMMA HeaderFailsKeeps == BInv /\ HeaderFails => BInv'
<1> SUFFICES ASSUME BInv, HeaderFails
             PROVE  BInv'
  OBVIOUS
<1>1. trailer_start_offset' \in Nat /\ trailer_start_offset' <= Len(bytes)
  <2>1. CASE Len(bytes) >= 32 /\ trailer_start_offset' = Start
    BY <2>1, TrailerBytes DEF BInv
  <2>2. CASE trailer_start_offset' = trailer_start_offset
    BY <2>2 DEF BInv, Types, TrailerFirst
  <2> QED
    BY <2>1, <2>2 DEF HeaderFails
<1>2. allocated = 0
  BY DEF HeaderFails, BInv, TrailerFirst
<1> QED
  BY <1>1, <1>2, FailKeeps DEF HeaderFails, BInv, Types, input

(* The trailer is read, or has no such size of a reference.                 *)
LEMMA ReadTrailerKeeps == BInv /\ ReadTrailer => BInv'
<1> SUFFICES ASSUME BInv, ReadTrailer
             PROVE  BInv'
  OBVIOUS
<1>1. /\ Types /\ pc = "idle" /\ ref_size = 0 /\ stack = <<>> /\ allocated = 0
      /\ returned # "event"
  BY DEF ReadTrailer, BInv, TrailerFirst
<1>2. Len(bytes) >= 32 /\ bytes[Start + 7] \in {1, 2, 3, 4, 8}
  BY DEF ReadTrailer, HeaderGood
<1>3. /\ Start \in Nat /\ Start + 32 = Len(bytes) /\ bytes[Start + 8] \in Nat
      /\ Number(Start + 16, 8) \in Nat /\ Number(Start + 24, 8) \in Nat
  <2>1. /\ Start \in Nat /\ Start + 32 = Len(bytes)
        /\ \A i \in 1..32 : bytes[Start + i] \in Byte
        /\ \A k \in {8, 16, 24} : Number(Start + k, 8) \in Nat
    BY <1>1, <1>2, TrailerBytes, Zenon
  <2>2. bytes[Start + 8] \in Byte
    BY <2>1
  <2> QED
    BY <2>1, <2>2, ByteType
<1>a. Start <= Len(bytes)
  BY <1>1, <1>2, TrailerBytes
<1>4. /\ trailer_start_offset' = Start /\ ref_size' = bytes[Start + 8]
      /\ bytes' = bytes /\ object_offsets' = object_offsets /\ allocated' = allocated
  BY DEF ReadTrailer, input
<1>5. CASE Fail /\ UNCHANGED <<at, pos, root_object>>
  BY <1>1, <1>a, <1>3, <1>4, <1>5, FailKeeps DEF BInv, Types
<1>6. CASE /\ ref_size' \in {1, 2, 4, 8}
           /\ root_object' = Number(Start + 16, 8)
           /\ at' = Number(Start + 24, 8) /\ Seek(at')
           /\ Goto("offsets")
           /\ UNCHANGED object
  <2>1. /\ pc' = "offsets" /\ stack' = stack /\ object_on_stack' = object_on_stack
        /\ events' = events /\ returned' = returned
        /\ object_ref' = object_ref /\ ty' = ty /\ len' = len /\ key_refs' = key_refs
        /\ pos' = at' /\ ref_size' # 0 /\ at' \in Nat /\ root_object' \in Nat
        /\ ref_size' \in Nat /\ trailer_start_offset' \in Nat
    BY <1>3, <1>4, <1>6 DEF Goto, walk, object, Seek
  <2>2. Types'
    BY <1>1, <1>4, <2>1 DEF Types, Phases
  <2>3. TrailerFirst'
    BY <1>1, <1>a, <1>2, <1>3, <1>4, <2>1 DEF TrailerFirst, OffsetSize
  <2>4. InTable' /\ RefsRead'
    BY <1>4, <2>1 DEF InTable, RefsRead, BInv
  <2>5. Reach' /\ AllocationsBounded'
    BY <1>1, <1>3, <1>4, <2>1 DEF Reach, AllocationsBounded, OverrunIsHeader, PiecesRead
  <2> QED
    BY <2>2, <2>3, <2>4, <2>5 DEF BInv
<1> QED
  BY <1>5, <1>6 DEF ReadTrailer

(* What a vector that may be made is bounded by.                            *)
LEMMA AllocationBounded ==
  ASSUME BInv, NEW n \in Nat, NEW size \in Nat, Allocatable(n, size), Allocate(n, size),
         trailer_start_offset' = trailer_start_offset
  PROVE  allocated' \in Nat /\ allocated' <= trailer_start_offset'
<1> DEFINE x == n * size
<1>1. x \in Nat /\ pos \in Nat /\ trailer_start_offset \in Nat /\ allocated \in Nat
  BY DEF BInv, Types
<1>2. pos + x <= trailer_start_offset /\ allocated <= trailer_start_offset
  BY DEF Allocatable, BInv, AllocationsBounded
<1>3. allocated' = IF x > allocated THEN x ELSE allocated
  BY DEF Allocate
<1> HIDE DEF x
<1> QED
  BY <1>1, <1>2, <1>3

(* The offset table is read, with a flag for each object.                   *)
LEMMA ReadOffsetsKeeps == BInv /\ ReadOffsets => BInv'
<1> SUFFICES ASSUME BInv, ReadOffsets
             PROVE  BInv'
  OBVIOUS
<1> DEFINE n == Number(trailer_start_offset + 8, 8)
<1>1. /\ Types /\ pc = "offsets" /\ stack = <<>> /\ ref_size # 0
      /\ trailer_start_offset + 32 <= Len(bytes) /\ OffsetSize \in {1, 2, 3, 4, 8}
      /\ bytes \in Seq(Byte) /\ Len(bytes) \in Nat
      /\ at \in Nat /\ pos \in Nat /\ trailer_start_offset \in Nat /\ ref_size \in Nat
      /\ root_object \in Nat /\ object_offsets \in Seq(Nat) /\ allocated \in Nat
      /\ ty \in 0..15 /\ len \in Nat /\ key_refs \in Seq(Nat) /\ object_ref \in Nat
      /\ IsSequence(events) /\ allocated <= trailer_start_offset
      /\ trailer_start_offset <= Len(bytes)
  BY DEF ReadOffsets, BInv, TrailerFirst, Types, AllocationsBounded
<1>2. n \in Nat /\ OffsetSize \in Nat
  <2> DEFINE m == Len(bytes)
             from == trailer_start_offset + 8
  <2>1. m \in Nat /\ from \in Nat /\ from + 8 <= m
    BY <1>1
  <2> HIDE DEF from
  <2>2. Number(from, 8) \in Nat
    BY <1>1, <2>1, NumberType
  <2> QED
    BY <1>1, <2>2 DEF from
<1>3. /\ bytes' = bytes /\ at' = at /\ pos' = pos /\ ref_size' = ref_size
      /\ trailer_start_offset' = trailer_start_offset /\ root_object' = root_object
  BY DEF ReadOffsets, input
<1>4. \/ Fail /\ UNCHANGED <<object_offsets, allocated>>
      \/ /\ Allocatable(n, OffsetSize) /\ Allocate(n, OffsetSize)
         /\ Fail /\ UNCHANGED object_offsets
      \/ /\ Allocatable(n, OffsetSize) /\ Allocate(n, OffsetSize)
         /\ Available(n * OffsetSize)
         /\ object_offsets' = Ints(at, n, OffsetSize)
         /\ object_on_stack' = NoneOnStack(n)
         /\ object_ref' = root_object
         /\ pc' = "object"
         /\ UNCHANGED <<stack, events, returned, ty, len, key_refs>>
  BY DEF ReadOffsets
<1> HIDE DEF n
<1>5. CASE Fail /\ UNCHANGED <<object_offsets, allocated>>
  BY <1>1, <1>3, <1>5, FailKeeps
<1>6. CASE /\ Allocatable(n, OffsetSize) /\ Allocate(n, OffsetSize)
           /\ Fail /\ UNCHANGED object_offsets
  <2>1. allocated' \in Nat /\ allocated' <= trailer_start_offset'
    BY <1>2, <1>3, <1>6, AllocationBounded
  <2> QED
    BY <1>1, <1>3, <1>6, <2>1, FailKeeps
<1>7. CASE /\ Allocatable(n, OffsetSize) /\ Allocate(n, OffsetSize)
           /\ Available(n * OffsetSize)
           /\ object_offsets' = Ints(at, n, OffsetSize)
           /\ object_on_stack' = NoneOnStack(n)
           /\ object_ref' = root_object
           /\ pc' = "object"
           /\ UNCHANGED <<stack, events, returned, ty, len, key_refs>>
  <2>1. allocated' \in Nat /\ allocated' <= trailer_start_offset'
    BY <1>2, <1>3, <1>7, AllocationBounded
  <2>2. object_offsets' \in Seq(Nat) /\ Len(object_offsets') = n
    <3>1. at + n * OffsetSize <= Len(bytes)
      BY <1>7 DEF Available
    <3> HIDE DEF OffsetSize
    <3> QED
      BY <1>1, <1>2, <1>7, <3>1, IntsType
  <2>3. DOMAIN object_on_stack' = 0..(n - 1)
    BY <1>7 DEF NoneOnStack
  <2>4. Types'
    BY <1>1, <1>3, <1>7, <2>1, <2>2, <2>3 DEF Types, Phases
  <2>5. Len(stack') = 0
    BY <1>1, <1>7, EmptySeq
  <2>6. TrailerFirst' /\ InTable' /\ RefsRead' /\ AllocationsBounded'
    BY <1>1, <1>3, <1>7, <2>1, <2>5
    DEF TrailerFirst, InTable, RefsRead, AllocationsBounded
  <2>7. Reach'
    BY <1>7 DEF Reach, OverrunIsHeader, PiecesRead
  <2> QED
    BY <2>4, <2>6, <2>7 DEF BInv
<1> QED
  BY <1>4, <1>5, <1>6, <1>7

(* The innermost collection that is open.                                   *)
LEMMA InnermostItem ==
  ASSUME Types, stack # <<>>
  PROVE  /\ Len(stack) \in Nat \ {0} /\ Last(stack) = stack[Len(stack)]
         /\ Last(stack) \in Items /\ Front(stack) \in Seq(Items)
         /\ Len(Front(stack)) = Len(stack) - 1
         /\ \A d \in 1..(Len(stack) - 1) : Front(stack)[d] = stack[d]
<1>1. stack \in Seq(Items)
  BY DEF Types
<1> QED
  BY <1>1, FrontLast DEF Last

(* The next element is taken.                                               *)
LEMMA NextChildKeeps == BInv /\ NextChild => BInv'
<1> SUFFICES ASSUME BInv, NextChild
             PROVE  BInv'
  OBVIOUS
<1> DEFINE n == Len(stack)
           refs == Last(stack).child_object_refs
           item == [stack[n] EXCEPT !.child_object_refs = Front(@)]
<1>1. /\ Types /\ pc = "idle" /\ stack # <<>> /\ refs # <<>>
      /\ object_ref' = Last(refs)
      /\ stack' = [stack EXCEPT ![n].child_object_refs = Front(@)]
      /\ pc' = "object"
      /\ UNCHANGED <<input, at, pos, trailer, ty, len, key_refs, object_on_stack,
                     events, returned, allocated>>
  BY DEF NextChild, BInv
<1>2. n \in Nat \ {0} /\ Last(stack) = stack[n] /\ stack[n] \in Items /\ stack \in Seq(Items)
  BY <1>1, InnermostItem DEF Types
<1>3. refs \in Seq(Nat)
  BY <1>2 DEF Items
<1>4. Front(refs) \in Seq(Nat) /\ Last(refs) \in Nat
  BY <1>1, <1>3, FrontLast
<1>5. item \in Items /\ item.object_ref = stack[n].object_ref
  <2>1. Front(stack[n].child_object_refs) \in Seq(Nat)
    BY <1>2, <1>4
  <2> QED
    BY <1>2, <2>1 DEF Items
<1>6. stack' = [stack EXCEPT ![n] = item]
  BY <1>1, <1>2
<1> HIDE DEF item, refs
<1>7. /\ stack' \in Seq(Items) /\ Len(stack') = n
      /\ \A d \in 1..n : stack'[d].object_ref = stack[d].object_ref
  <2>1. stack' \in Seq(Items) /\ Len(stack') = n
    BY <1>2, <1>5, <1>6
  <2>2. \A d \in 1..n : stack'[d] = IF d = n THEN item ELSE stack[d]
    BY <1>2, <1>6
  <2> QED
    BY <1>5, <2>1, <2>2
<1> HIDE DEF n
<1>8. Types'
  BY <1>1, <1>4, <1>7 DEF Types, Phases, input, trailer
<1>9. TrailerFirst' /\ RefsRead' /\ AllocationsBounded'
  BY <1>1 DEF BInv, TrailerFirst, RefsRead, AllocationsBounded, input, trailer
<1>10. InTable'
  <2>1. \A d \in 1..n : stack[d].object_ref < Len(object_offsets)
    BY DEF BInv, InTable, n
  <2> QED
    BY <1>1, <1>7, <2>1 DEF InTable, trailer
<1>11. Reach'
  BY <1>1 DEF Reach, OverrunIsHeader, PiecesRead
<1> QED
  BY <1>8, <1>9, <1>10, <1>11 DEF BInv

(* A collection is closed.                                                  *)
LEMMA EndCollectionKeeps == BInv /\ EndCollection => BInv'
<1> SUFFICES ASSUME BInv, EndCollection
             PROVE  BInv'
  OBVIOUS
<1> DEFINE n == Len(stack)
           e == [kind |-> "end", arg |-> 0]
<1>1. /\ Types /\ pc = "idle" /\ stack # <<>>
      /\ stack' = Front(stack)
      /\ object_on_stack' = [object_on_stack EXCEPT ![Last(stack).object_ref] = FALSE]
      /\ events' = Append(events, e) /\ returned' = "event" /\ pc' = "idle"
      /\ UNCHANGED <<input, at, pos, trailer, object, allocated>>
  BY DEF EndCollection, Return, BInv
<1>2. /\ n \in Nat \ {0} /\ stack' \in Seq(Items) /\ Len(stack') = n - 1
      /\ \A d \in 1..(n - 1) : stack'[d] = stack[d]
  BY <1>1, InnermostItem
<1>3. IsSequence(events') /\ Last(events') = e
  BY <1>1, LastEvent DEF Types
<1>4. DOMAIN object_on_stack' = DOMAIN object_on_stack
  BY <1>1
<1>5. Types'
  BY <1>1, <1>2, <1>3, <1>4 DEF Types, Phases, input, trailer, object
<1>6. ref_size' # 0 /\ pc' = "idle"
  BY <1>1 DEF BInv, TrailerFirst, trailer
<1>7. TrailerFirst' /\ RefsRead' /\ AllocationsBounded'
  BY <1>1, <1>6 DEF BInv, TrailerFirst, RefsRead, AllocationsBounded, trailer, input
<1>8. InTable'
  <2>1. \A d \in 1..n : stack[d].object_ref < Len(object_offsets)
    BY DEF BInv, InTable
  <2> HIDE DEF n
  <2> QED
    BY <1>1, <1>2, <2>1, SMTT(40) DEF InTable, trailer
<1>9. Reach'
  BY <1>1, <1>3 DEF Reach, OverrunIsHeader, PiecesRead
<1> QED
  BY <1>5, <1>7, <1>8, <1>9 DEF BInv

(* Nothing is left to read.                                                 *)
LEMMA FinishedKeeps == BInv /\ Finished => BInv'
<1> SUFFICES ASSUME BInv, Finished
             PROVE  BInv'
  OBVIOUS
<1>1. /\ returned' = "none" /\ pc = "idle"
      /\ UNCHANGED <<input, at, pos, trailer, pc, object, stack, object_on_stack,
                     events, allocated>>
  BY DEF Finished
<1>2. Types'
  BY <1>1 DEF BInv, Types, input, trailer, object, IsSequence
<1>3. TrailerFirst' /\ InTable' /\ RefsRead' /\ AllocationsBounded'
  BY <1>1 DEF BInv, TrailerFirst, InTable, RefsRead, AllocationsBounded, input, trailer, object
<1>4. Reach'
  BY <1>1 DEF Reach, OverrunIsHeader, PiecesRead
<1> QED
  BY <1>2, <1>3, <1>4 DEF BInv

(* An object is looked up and its token is read.                            *)
LEMMA SeekToObjectKeeps == BInv /\ SeekToObject => BInv'
<1> SUFFICES ASSUME BInv, SeekToObject
             PROVE  BInv'
  OBVIOUS
<1> DEFINE offset == object_offsets[object_ref + 1]
           token == bytes[offset + 1]
<1>1. /\ Types /\ pc = "object" /\ ref_size # 0 /\ allocated <= trailer_start_offset
      /\ trailer_start_offset <= Len(bytes)
      /\ object_offsets \in Seq(Nat) /\ bytes \in Seq(Byte) /\ object_ref \in Nat
      /\ at \in Nat /\ pos \in Nat /\ trailer_start_offset \in Nat /\ ref_size \in Nat
      /\ root_object \in Nat /\ allocated \in Nat /\ len \in Nat /\ stack \in Seq(Items)
      /\ DOMAIN object_on_stack = 0..(Len(object_offsets) - 1) /\ IsSequence(events)
  BY DEF SeekToObject, BInv, TrailerFirst, Types, AllocationsBounded
<1>2. /\ bytes' = bytes /\ allocated' = allocated
      /\ trailer_start_offset' = trailer_start_offset /\ ref_size' = ref_size
      /\ root_object' = root_object /\ object_offsets' = object_offsets
  BY DEF SeekToObject, input, trailer
<1>3. CASE Fail /\ UNCHANGED <<at, pos>>
  BY <1>1, <1>2, <1>3, FailKeeps
<1>4. CASE /\ object_ref < Len(object_offsets) /\ offset < trailer_start_offset
           /\ pos' = offset /\ at' = offset + 1
           /\ ty' = token \div 16 /\ len' = token % 16
           /\ key_refs' = <<>>
           /\ pc' = IF ty' \in {4, 5, 6, 10, 13} THEN "length" ELSE "scalar"
           /\ UNCHANGED walk
           /\ UNCHANGED object_ref
  <2>1. offset \in Nat
    <3> DEFINE n == Len(object_offsets)
    <3>1. n \in Nat /\ object_ref < n /\ \A i \in 1..n : object_offsets[i] \in Nat
      BY <1>1, <1>4, SeqElements, SMTT(40)
    <3> HIDE DEF n
    <3>2. object_ref + 1 \in 1..n
      BY <1>1, <3>1
    <3> QED
      BY <3>1, <3>2
  <2>2. ty' \in 0..15 /\ len' \in Nat
    <3>1. token \in Byte
      <4> DEFINE m == Len(bytes)
      <4>1. m \in Nat /\ \A i \in 1..m : bytes[i] \in Byte
        BY <1>1, SeqElements
      <4> HIDE DEF m, offset
      <4>2. offset < m
        BY <1>1, <1>4, <2>1, <4>1 DEF m
      <4>3. offset + 1 \in 1..m
        BY <2>1, <4>1, <4>2
      <4> QED
        BY <4>1, <4>3
    <3> HIDE DEF token
    <3> QED
      BY <1>4, <3>1, ByteType
  <2> HIDE DEF offset, token
  <2>3. /\ stack' = stack /\ object_on_stack' = object_on_stack /\ events' = events
        /\ returned' = returned /\ object_ref' = object_ref
    BY <1>4 DEF walk
  <2>4. Types'
    BY <1>1, <1>2, <1>4, <2>1, <2>2, <2>3, EmptySeq DEF Types, Phases
  <2>5. TrailerFirst' /\ RefsRead' /\ AllocationsBounded'
    BY <1>1, <1>2, <1>4 DEF TrailerFirst, RefsRead, AllocationsBounded
  <2>6. InTable'
    BY <1>2, <1>4, <2>3 DEF BInv, InTable
  <2>7. Reach'
    BY <1>2, <1>4 DEF Reach, OverrunIsHeader, PiecesRead
  <2> QED
    BY <2>4, <2>5, <2>6, <2>7 DEF BInv
<1> QED
  BY <1>3, <1>4 DEF SeekToObject, Seek, Goto

(***************************************************************************)
(* Inside an object.                                                       *)
(***************************************************************************)
(* What all these steps rely on, and what they leave alone.                 *)
InObject ==
  /\ pc \in {"scalar", "length", "payload", "values", "double", "push"}
  /\ bytes' = bytes /\ pos' = pos
  /\ trailer_start_offset' = trailer_start_offset /\ ref_size' = ref_size
  /\ root_object' = root_object /\ object_offsets' = object_offsets

(* The trailer has been read, and the object is one of the table. *)
LEMMA InObjectFacts ==
  ASSUME BInv, InObject
  PROVE  /\ Types /\ ref_size # 0 /\ allocated <= trailer_start_offset
         /\ trailer_start_offset <= Len(bytes)
         /\ at \in Nat /\ pos \in Nat /\ len \in Nat /\ ref_size \in Nat
         /\ trailer_start_offset \in Nat /\ allocated \in Nat
         /\ bytes \in Seq(Byte) /\ Len(bytes) \in Nat /\ key_refs \in Seq(Nat)
         /\ object_ref \in Nat /\ object_ref < Len(object_offsets) /\ ty \in 0..15
         /\ root_object \in Nat
<1>1. Types /\ TrailerFirst /\ InTable /\ AllocationsBounded
  BY DEF BInv
<1> QED
  BY <1>1 DEF InObject, Types, TrailerFirst, InTable, AllocationsBounded

(* A call that fails there.                                                 *)
LEMMA FailInObject ==
  ASSUME BInv, InObject, Fail, at' \in Nat, allocated' \in Nat,
         allocated' <= trailer_start_offset'
  PROVE  BInv'
<1>1. /\ bytes' = bytes /\ pos' \in Nat /\ trailer_start_offset' \in Nat
      /\ ref_size' \in Nat /\ root_object' \in Nat /\ object_offsets' = object_offsets
      /\ ref_size' # 0 /\ trailer_start_offset' <= Len(bytes)
  BY InObjectFacts DEF InObject
<1> QED
  BY <1>1, FailKeeps

(* A value is delivered: what is read of it in one piece ends in time.      *)
LEMMA DeliverInObject ==
  ASSUME BInv, InObject, NEW type, NEW content, Deliver(type, content),
         at' \in Nat, allocated' \in Nat, allocated' <= trailer_start_offset',
         type \in {"data", "ascii", "utf16"} => at' <= trailer_start_offset + 10
  PROVE  BInv'
<1> DEFINE v == [type |-> type, content |-> content]
           e == [kind |-> "value", arg |-> object_ref, value |-> v]
<1>1. /\ events' = Append(events, e) /\ returned' = "event" /\ pc' = "idle"
      /\ stack' = stack /\ object_on_stack' = object_on_stack
      /\ object_ref' = object_ref /\ ty' = ty /\ len' = len /\ key_refs' = key_refs
  BY DEF Deliver, Return, object
<1>2. IsSequence(events') /\ Last(events') = e
  <2>1. IsSequence(events)
    BY DEF BInv, Types
  <2> HIDE DEF e
  <2> QED
    BY <1>1, <2>1, LastEvent
<1>3. Last(events').value.type = type
  BY <1>2
<1>4. Types'
  BY <1>1, <1>2, InObjectFacts DEF InObject, Types, Phases
<1> HIDE DEF e
<1>5. TrailerFirst' /\ RefsRead' /\ AllocationsBounded'
  BY <1>1, InObjectFacts DEF InObject, TrailerFirst, RefsRead, AllocationsBounded
<1>6. InTable'
  BY <1>1 DEF BInv, InTable, InObject
<1>7. Reach'
  BY <1>1, <1>3 DEF Reach, OverrunIsHeader, PiecesRead, InObject
<1> QED
  BY <1>4, <1>5, <1>6, <1>7 DEF BInv

(* An object of a fixed size has one of these tokens.                       *)
ScalarToken ==
  \/ ty = 0
  \/ ty = 1 /\ len \in 0..4
  \/ ty = 2 /\ len \in {2, 3}
  \/ ty = 3
  \/ ty = 8

(* Its size is a number.                                                    *)
LEMMA WidthType ==
  ASSUME Types, Width # -1
  PROVE  Width \in Nat /\ ScalarToken
<1>1. len \in Nat /\ ty \in 0..15
  BY DEF Types
<1> DEFINE power == 2 ^ len
<1>2. len \in 0..4 => power \in Nat
  <2>1. 2 ^ 0 \in Nat /\ 2 ^ 1 \in Nat /\ 2 ^ 2 \in Nat /\ 2 ^ 3 \in Nat /\ 2 ^ 4 \in Nat
    OBVIOUS
  <2>2. len \in 0..4 => len \in {0, 1, 2, 3, 4}
    OBVIOUS
  <2> QED
    BY <2>1, <2>2, Zenon
<1>3. Width = CASE ty = 0 /\ len \in {8, 9} -> 0
                [] ty = 1 /\ len \in 0..4 -> power
                [] ty = 2 /\ len \in {2, 3} -> power
                [] ty = 3 /\ len = 3 -> 8
                [] ty = 8 /\ len < 8 -> len + 1
                [] OTHER -> -1
  BY DEF Width
<1> HIDE DEF power
<1> QED
  BY <1>1, <1>2, <1>3 DEF ScalarToken

(* A value of a fixed size.                                                 *)
LEMMA ReadScalarKeeps == BInv /\ ReadScalar => BInv'
<1> SUFFICES ASSUME BInv, ReadScalar
             PROVE  BInv'
  OBVIOUS
<1>1. /\ pc = "scalar" /\ bytes' = bytes /\ allocated' = allocated
      /\ trailer_start_offset' = trailer_start_offset /\ ref_size' = ref_size
      /\ root_object' = root_object /\ object_offsets' = object_offsets
  BY DEF ReadScalar, input, trailer
<1>2. CASE Fail /\ UNCHANGED <<at, pos>>
  <2>1. InObject
    BY <1>1, <1>2 DEF InObject
  <2> QED
    BY <1>1, <1>2, <2>1, InObjectFacts, FailInObject
<1> DEFINE ScalarTypes == {"boolean", "integer", "single", "real", "date", "uid"}
<1>3. CASE ~(Width = -1 \/ ~Available(Width))
  <2>1. /\ at' = at + Width /\ pos' = pos
        /\ \/ Fail
           \/ \E type \in ScalarTypes : \E content : Deliver(type, content)
    <3> DEFINE bs == Slice(at, Width)
    <3>1. /\ Read(Width)
          /\ CASE ty = 0 -> Deliver("boolean", len = 9)
               [] ty = 1 /\ len < 3 -> Deliver("integer", Unsigned(bs))
               [] ty = 1 /\ len = 3 -> Deliver("integer", Signed(bs))
               [] ty = 1 /\ len = 4 ->
                    IF \A i \in 1..8 : Digit(bs[i]) = 0
                    THEN Deliver("integer", Unsigned(bs)) ELSE Fail
               [] ty = 2 /\ len = 2 -> Deliver("single", Unsigned(bs))
               [] ty = 2 /\ len = 3 -> Deliver("real", Unsigned(bs))
               [] ty = 3 -> IF Unsigned(bs) \in NotFinite THEN Fail
                            ELSE Deliver("date", Unsigned(bs))
               [] ty = 8 -> Deliver("uid", Unsigned(bs))
      BY <1>3 DEF ReadScalar
    <3> HIDE DEF bs
    <3>2. ScalarToken
      BY <1>3, WidthType DEF BInv
    <3>3. len \in Nat
      BY DEF BInv, Types
    <3> DEFINE D(type) == \E content : Deliver(type, content)
               Some == Fail \/ \E type \in ScalarTypes : D(type)
    <3>4. ty = 0 => D("boolean")
      BY <3>1
    <3>5. ty = 1 => Fail \/ D("integer")
      <4>1. ty = 1 => len < 3 \/ len = 3 \/ len = 4
        BY <3>2, <3>3 DEF ScalarToken
      <4>2. ty = 1 /\ len < 3 => D("integer")
        <5>1. ty = 1 /\ len < 3 => /\ len # 3 /\ len # 4 /\ ty # 0 /\ ty # 2
                                   /\ ty # 3 /\ ty # 8
          BY <3>3
        <5>2. ty = 1 /\ len < 3 => Deliver("integer", Unsigned(bs))
          BY <3>1, <5>1, Zenon
        <5> QED
          BY <5>2
      <4>3. ty = 1 /\ len = 3 => D("integer")
        BY <3>1, <3>3
      <4>4. ty = 1 /\ len = 4 => Fail \/ D("integer")
        BY <3>1, <3>3
      <4> QED
        BY <4>1, <4>2, <4>3, <4>4, Zenon
    <3>6. ty = 2 => D("single") \/ D("real")
      <4>1. ty = 2 => len = 2 \/ len = 3
        BY <3>2 DEF ScalarToken
      <4>2. ty = 2 /\ len = 2 => D("single")
        BY <3>1
      <4>3. ty = 2 /\ len = 3 => D("real")
        BY <3>1
      <4> QED
        BY <4>1, <4>2, <4>3, Zenon
    <3>7. ty = 3 => Fail \/ D("date")
      BY <3>1
    <3>8. ty = 8 => D("uid")
      BY <3>1
    <3>9. Some
      <4> HIDE DEF D
      <4> QED
        BY <3>2, <3>4, <3>5, <3>6, <3>7, <3>8 DEF ScalarToken
    <3> QED
      BY <3>1, <3>9 DEF Read
  <2>2. InObject
    BY <1>1, <2>1 DEF InObject
  <2>3. at' \in Nat
    <3>1. Width \in Nat /\ at \in Nat
      BY <1>3, WidthType DEF BInv, Types
    <3> QED
      BY <2>1, <3>1
  <2>4. allocated' \in Nat /\ allocated' <= trailer_start_offset'
    BY <1>1, <2>2, InObjectFacts
  <2>5. CASE Fail
    BY <2>2, <2>3, <2>4, <2>5, FailInObject
  <2>6. ASSUME NEW type \in ScalarTypes, NEW content, Deliver(type, content)
        PROVE  BInv'
    BY <2>2, <2>3, <2>4, <2>6, DeliverInObject
  <2> QED
    BY <2>1, <2>5, <2>6
<1> QED
  BY <1>2, <1>3 DEF ReadScalar

(* The length of an object: ten bytes at most, with the token.              *)
LEMMA ReadLengthKeeps == BInv /\ ReadLength => BInv'
<1> SUFFICES ASSUME BInv, ReadLength
             PROVE  BInv'
  OBVIOUS
<1>1. /\ pc = "length" /\ bytes' = bytes /\ allocated' = allocated
      /\ trailer_start_offset' = trailer_start_offset /\ ref_size' = ref_size
      /\ root_object' = root_object /\ object_offsets' = object_offsets
  BY DEF ReadLength, input, trailer
<1>2. at = pos + 1 /\ pos < trailer_start_offset
  BY <1>1 DEF BInv, Reach
<1>3. CASE Fail /\ UNCHANGED <<at, pos>>
  <2>1. InObject
    BY <1>1, <1>3 DEF InObject
  <2> QED
    BY <1>1, <1>3, <2>1, InObjectFacts, FailInObject
<1>4. ASSUME pc' = "payload", UNCHANGED walk, pos' = pos,
             len' \in Nat, at' \in Nat, at' <= pos + 10,
             UNCHANGED <<object_ref, ty, key_refs>>
      PROVE  BInv'
  <2>1. InObject
    BY <1>1, <1>4 DEF InObject
  <2>2. /\ stack' = stack /\ object_on_stack' = object_on_stack /\ events' = events
        /\ returned' = returned /\ object_ref' = object_ref
    BY <1>4 DEF walk
  <2>3. Types'
    BY <1>1, <1>4, <2>1, <2>2 DEF BInv, InObject, Types, Phases
  <2>4. TrailerFirst' /\ RefsRead' /\ AllocationsBounded'
    BY <1>1, <1>4, <2>1, InObjectFacts DEF TrailerFirst, RefsRead, AllocationsBounded
  <2>5. InTable'
    BY <1>1, <2>1, <2>2, InObjectFacts DEF BInv, InTable
  <2>6. Reach'
    BY <1>1, <1>2, <1>4, <2>1 DEF Reach, OverrunIsHeader, PiecesRead, InObject
  <2> QED
    BY <2>3, <2>4, <2>5, <2>6 DEF BInv
<1>5. CASE Goto("payload") /\ UNCHANGED <<at, pos, object>>
  <2>1. InObject
    BY <1>1, <1>5 DEF InObject
  <2>2. pos \in Nat /\ len \in Nat
    BY <2>1, InObjectFacts
  <2> QED
    BY <1>2, <1>4, <1>5, <2>2 DEF Goto, object
<1> DEFINE width == IF Available(1) THEN <<1, 2, 4, 8>>[(bytes[at + 1] % 4) + 1] ELSE 0
<1>6. CASE /\ Available(1) /\ Available(1 + width)
           /\ len' = Number(at + 1, width)
           /\ Read(1 + width)
           /\ Goto("payload")
           /\ UNCHANGED <<object_ref, ty, key_refs>>
  <2>1. InObject
    BY <1>1, <1>6 DEF InObject, Read
  <2>2. /\ at \in Nat /\ pos \in Nat /\ bytes \in Seq(Byte) /\ Len(bytes) \in Nat
    BY <2>1, InObjectFacts
  <2>3. width \in {1, 2, 4, 8}
    <3>1. bytes[at + 1] \in Byte
      <4> DEFINE m == Len(bytes)
      <4>1. m \in Nat /\ at + 1 <= m /\ \A i \in 1..m : bytes[i] \in Byte
        BY <1>6, <2>2, SeqElements DEF Available
      <4> HIDE DEF m
      <4>2. at + 1 \in 1..m
        BY <2>2, <4>1
      <4> QED
        BY <4>1, <4>2
    <3> DEFINE k == (bytes[at + 1] % 4) + 1
    <3>2. k \in 1..4
      BY <3>1, ByteType
    <3> HIDE DEF k
    <3>3. <<1, 2, 4, 8>>[k] \in {1, 2, 4, 8}
      BY <3>2
    <3> QED
      BY <1>6, <3>3 DEF k
  <2> HIDE DEF width
  <2>4. /\ at' = at + (1 + width) /\ pos' = pos /\ (at + 1) + width <= Len(bytes)
        /\ at + 1 \in Nat /\ width \in Nat
    BY <1>6, <2>2, <2>3 DEF Read, Available
  <2>5. Number(at + 1, width) \in Nat
    BY <2>2, <2>4, NumberType, ZenonT(30)
  <2>6. at' \in Nat /\ at' <= pos + 10
    BY <1>2, <2>2, <2>3, <2>4
  <2> QED
    BY <1>4, <1>6, <2>4, <2>5, <2>6 DEF Goto
<1> QED
  BY <1>3, <1>5, <1>6 DEF ReadLength

(***************************************************************************)
(* A number of pieces is read.                                             *)
(***************************************************************************)
(* The pieces are read, len of them: what is read moves on by as much as    *)
(* may be allocated from the start of the object.                           *)
PiecesMade(size) ==
  /\ bytes' = bytes /\ pos' = pos /\ at' = at + len * size
  /\ Available(len * size)
  /\ pos + len * size <= trailer_start_offset
  /\ allocated' \in Nat /\ allocated' <= trailer_start_offset'

(* Either they are, and Found follows, or the call fails.                   *)
LEMMA PiecesOutcome ==
  ASSUME BInv, pc \in {"payload", "values"}, NEW size \in Nat,
         NEW ACTION Found, ReadPieces(size, Found),
         bytes' = bytes, UNCHANGED trailer
  PROVE  BInv' \/ (InObject /\ PiecesMade(size) /\ Found)
<1>1. /\ bytes' = bytes /\ trailer_start_offset' = trailer_start_offset
      /\ ref_size' = ref_size /\ root_object' = root_object
      /\ object_offsets' = object_offsets
  BY DEF trailer
<1>2. /\ at \in Nat /\ pos \in Nat /\ len \in Nat /\ allocated \in Nat
      /\ trailer_start_offset \in Nat /\ allocated <= trailer_start_offset
  BY DEF BInv, Types, AllocationsBounded
<1> DEFINE x == len * size
<1>3. x \in Nat
  BY <1>2
<1>4. CASE ~Allocatable(len, size)
  <2>1. Fail /\ UNCHANGED <<at, pos, allocated>>
    BY <1>4 DEF ReadPieces
  <2>2. InObject
    BY <1>1, <2>1 DEF InObject
  <2> QED
    BY <1>1, <1>2, <2>1, <2>2, FailInObject
<1>5. CASE Allocatable(len, size) /\ ~Available(x)
  <2>1. Allocate(len, size) /\ Fail /\ UNCHANGED <<at, pos>>
    BY <1>5 DEF ReadPieces
  <2>2. InObject
    BY <1>1, <2>1 DEF InObject
  <2>3. allocated' \in Nat /\ allocated' <= trailer_start_offset'
    BY <1>1, <1>2, <1>5, <2>1, AllocationBounded
  <2> QED
    BY <1>1, <1>2, <2>1, <2>2, <2>3, FailInObject
<1>6. CASE Allocatable(len, size) /\ Available(x)
  <2>1. Allocate(len, size) /\ Read(x) /\ Found
    BY <1>6 DEF ReadPieces
  <2>2. at' = at + x /\ pos' = pos
    BY <2>1 DEF Read
  <2>3. InObject
    BY <1>1, <2>2 DEF InObject
  <2>4. allocated' \in Nat /\ allocated' <= trailer_start_offset'
    BY <1>1, <1>2, <1>6, <2>1, AllocationBounded
  <2>5. pos + x <= trailer_start_offset
    BY <1>6 DEF Allocatable
  <2>6. PiecesMade(size)
    BY <1>1, <1>6, <2>2, <2>4, <2>5 DEF PiecesMade
  <2> QED
    BY <2>1, <2>3, <2>6
<1> QED
  BY <1>4, <1>5, <1>6

(* Where they end.                                                          *)
LEMMA PiecesEnd ==
  ASSUME BInv, InObject, NEW size \in Nat, PiecesMade(size)
  PROVE  /\ at' \in Nat /\ len * size \in Nat
         /\ pc = "payload" => /\ at' <= pos + 10 + len * size
                              /\ at' <= trailer_start_offset + 10
<1> DEFINE x == len * size
<1>1. /\ at \in Nat /\ pos \in Nat /\ len \in Nat /\ trailer_start_offset \in Nat
  BY InObjectFacts
<1>2. x \in Nat
  BY <1>1
<1>3. at' = at + x /\ pos + x <= trailer_start_offset
  BY DEF PiecesMade
<1>4. pc = "payload" => at <= pos + 10
  BY DEF BInv, Reach
<1> HIDE DEF x
<1> QED
  BY <1>1, <1>2, <1>3, <1>4 DEF x

(* Data, or a string.                                                       *)
LEMMA ReadDataKeeps == BInv /\ ReadData => BInv'
<1> SUFFICES ASSUME BInv, ReadData
             PROVE  BInv'
  OBVIOUS
<1>1. pc = "payload" /\ bytes' = bytes /\ UNCHANGED trailer
  BY DEF ReadData, input
<1> DEFINE Known(type) == \E content : Deliver(type, content)
           Found == Fail \/ \E type \in {"data", "ascii", "utf16"} : Known(type)
<1>2. ASSUME NEW size \in Nat, InObject, PiecesMade(size), Found
      PROVE  BInv'
  <2>1. /\ at' \in Nat /\ at' <= trailer_start_offset + 10
        /\ allocated' \in Nat /\ allocated' <= trailer_start_offset'
    BY <1>1, <1>2, PiecesEnd DEF PiecesMade
  <2>2. CASE Fail
    BY <1>2, <2>1, <2>2, FailInObject
  <2>3. ASSUME NEW type, NEW content, Deliver(type, content)
        PROVE  BInv'
    BY <1>2, <2>1, <2>3, DeliverInObject
  <2> QED
    BY <1>2, <2>2, <2>3
<1>3. ASSUME NEW size \in {1, 2}, NEW ACTION Then, ReadPieces(size, Then), Then => Found
      PROVE  BInv'
  <2>1. size \in Nat /\ pc \in {"payload", "values"}
    BY <1>1
  <2>2. BInv' \/ (InObject /\ PiecesMade(size) /\ Then)
    BY <1>1, <1>3, <2>1, PiecesOutcome
  <2> HIDE DEF Found
  <2> QED
    BY <1>2, <1>3, <2>1, <2>2
<1> DEFINE units == Ints(at, len, 2)
           Data == Deliver("data", Slice(at, len))
           Ascii == IF \A i \in 1..len : bytes[at + i] < 128
                    THEN Deliver("ascii", Slice(at, len)) ELSE Fail
           Utf16 == IF \A i \in 1..len : units[i] \notin Unpaired
                    THEN Deliver("utf16", units) ELSE Fail
<1>4. \/ ReadPieces(1, Data)
      \/ ReadPieces(1, Ascii)
      \/ ReadPieces(2, Utf16)
  BY DEF ReadData
<1>5. (Data => Found) /\ (Ascii => Found) /\ (Utf16 => Found)
  <2>1. Data => Known("data")
    OBVIOUS
  <2>2. Ascii => Fail \/ Known("ascii")
    OBVIOUS
  <2>3. Utf16 => Fail \/ Known("utf16")
    OBVIOUS
  <2> HIDE DEF Data, Ascii, Utf16, Known
  <2> QED
    BY <2>1, <2>2, <2>3
<1> HIDE DEF Data, Ascii, Utf16, Found
<1> QED
  BY <1>3, <1>4, <1>5

(* The references that a step reads.                                        *)
LEMMA RefsFound ==
  ASSUME BInv, InObject, PiecesMade(ref_size)
  PROVE  Ints(at, len, ref_size) \in Seq(Nat) /\ Len(Ints(at, len, ref_size)) = len
<1>1. /\ bytes \in Seq(Byte) /\ at \in Nat /\ len \in Nat /\ ref_size \in Nat
  BY InObjectFacts
<1>2. at + len * ref_size <= Len(bytes)
  BY DEF PiecesMade, Available
<1> QED
  BY <1>1, <1>2, IntsType

(* A step that goes on to read, or to push, the same collection.            *)
LEMMA GoesOn ==
  ASSUME BInv, InObject, pc' \in {"push", "values", "double"}, UNCHANGED walk,
         UNCHANGED <<object_ref, ty, len>>, key_refs' \in Seq(Nat),
         at' \in Nat, allocated' \in Nat, allocated' <= trailer_start_offset',
         Reach', RefsRead'
  PROVE  BInv'
<1>1. /\ stack' = stack /\ object_on_stack' = object_on_stack /\ events' = events
      /\ returned' = returned /\ object_ref' = object_ref /\ ty' = ty /\ len' = len
  BY DEF walk
<1>2. Types'
  BY <1>1 DEF BInv, InObject, Types, Phases
<1>3. TrailerFirst' /\ AllocationsBounded'
  BY InObjectFacts DEF InObject, TrailerFirst, AllocationsBounded
<1>4. InTable'
  BY <1>1, InObjectFacts DEF InObject, BInv, InTable
<1> QED
  BY <1>2, <1>3, <1>4 DEF BInv

(* The references of an array, or of the keys of a dictionary.              *)
LEMMA ReadRefsKeeps == BInv /\ ReadRefs => BInv'
<1> SUFFICES ASSUME BInv, ReadRefs
             PROVE  BInv'
  OBVIOUS
<1> DEFINE Found == /\ key_refs' = Ints(at, len, ref_size)
                    /\ Goto(IF ty = 10 THEN "push" ELSE "values")
                    /\ UNCHANGED <<object_ref, ty, len>>
<1>1. /\ pc = "payload" /\ ty \in {10, 13} /\ bytes' = bytes /\ UNCHANGED trailer
      /\ ReadPieces(ref_size, Found)
  BY DEF ReadRefs, input
<1>2. ASSUME InObject, PiecesMade(ref_size), Found
      PROVE  BInv'
  <2>1. /\ UNCHANGED walk /\ UNCHANGED <<object_ref, ty, len>>
        /\ pc' = IF ty = 10 THEN "push" ELSE "values"
        /\ key_refs' \in Seq(Nat) /\ Len(key_refs') = len
    BY <1>2, RefsFound DEF Goto
  <2>2. /\ at' \in Nat /\ at' <= pos + 10 + len * ref_size
        /\ at' <= trailer_start_offset + 10
    BY <1>1, <1>2, PiecesEnd, InObjectFacts
  <2>3. pos < trailer_start_offset
    BY <1>1 DEF BInv, Reach
  <2>4. Reach'
    BY <1>1, <1>2, <2>1, <2>2, <2>3 DEF InObject, Reach, OverrunIsHeader, PiecesRead
  <2>5. RefsRead'
    BY <1>1, <2>1 DEF RefsRead
  <2> QED
    BY <1>2, <2>1, <2>2, <2>4, <2>5, GoesOn DEF PiecesMade
<1> HIDE DEF Found
<1>3. ref_size \in Nat
  BY DEF BInv, Types
<1>4. BInv' \/ (InObject /\ PiecesMade(ref_size) /\ Found)
  BY <1>1, <1>3, PiecesOutcome
<1> QED
  BY <1>2, <1>4

(* Those of its values.                                                     *)
LEMMA ReadValueRefsKeeps == BInv /\ ReadValueRefs => BInv'
<1> SUFFICES ASSUME BInv, ReadValueRefs
             PROVE  BInv'
  OBVIOUS
<1> DEFINE Found == /\ key_refs' = key_refs \o Ints(at, len, ref_size)
                    /\ Goto("double")
                    /\ UNCHANGED <<object_ref, ty, len>>
<1>1. /\ pc = "values" /\ bytes' = bytes /\ UNCHANGED trailer
      /\ ReadPieces(ref_size, Found)
  BY DEF ReadValueRefs, input
<1>2. ASSUME InObject, PiecesMade(ref_size), Found
      PROVE  BInv'
  <2>1. /\ UNCHANGED walk /\ UNCHANGED <<object_ref, ty, len>> /\ pc' = "double"
        /\ key_refs' = key_refs \o Ints(at, len, ref_size)
    BY <1>2 DEF Goto
  <2>2. /\ key_refs \in Seq(Nat) /\ Len(key_refs) = len /\ ty = 13 /\ len \in Nat
    BY <1>1, <1>2, InObjectFacts DEF BInv, RefsRead
  <2>3. key_refs' \in Seq(Nat) /\ Len(key_refs') = 2 * len
    <3> DEFINE more == Ints(at, len, ref_size)
    <3>1. more \in Seq(Nat) /\ Len(more) = len
      BY <1>2, RefsFound
    <3> HIDE DEF more
    <3>2. key_refs \o more \in Seq(Nat) /\ Len(key_refs \o more) = len + len
      <4>1. key_refs \o more \in Seq(Nat) /\ Len(key_refs \o more) = Len(key_refs) + Len(more)
        BY <2>2, <3>1, ConcatFacts, ZenonT(30)
      <4> QED
        BY <2>2, <3>1, <4>1
    <3> QED
      BY <2>1, <2>2, <3>2 DEF more
  <2>4. at' \in Nat /\ at' <= pos + 10 + 2 * (len * ref_size)
    <3> DEFINE x == len * ref_size
    <3>1. at' = at + x /\ at <= pos + 10 + x
      BY <1>1, <1>2 DEF PiecesMade, BInv, Reach
    <3>2. at \in Nat /\ pos \in Nat /\ x \in Nat
      BY <1>2, InObjectFacts, PiecesEnd
    <3> HIDE DEF x
    <3> QED
      BY <3>1, <3>2 DEF x
  <2>5. pos < trailer_start_offset
    BY <1>1 DEF BInv, Reach
  <2>6. Reach'
    BY <1>2, <2>1, <2>4, <2>5 DEF InObject, Reach, OverrunIsHeader, PiecesRead
  <2>7. RefsRead'
    BY <2>1, <2>2, <2>3 DEF RefsRead
  <2> QED
    BY <1>2, <2>1, <2>3, <2>4, <2>6, <2>7, GoesOn DEF PiecesMade
<1> HIDE DEF Found
<1>3. ref_size \in Nat
  BY DEF BInv, Types
<1>4. BInv' \/ (InObject /\ PiecesMade(ref_size) /\ Found)
  BY <1>1, <1>3, PiecesOutcome
<1> QED
  BY <1>2, <1>4

(* The vector for both: it bounds what has been read, too.                  *)
LEMMA DoubleLengthKeeps == BInv /\ DoubleLength => BInv'
<1> SUFFICES ASSUME BInv, DoubleLength
             PROVE  BInv'
  OBVIOUS
<1>1. /\ pc = "double" /\ bytes' = bytes /\ at' = at /\ pos' = pos
      /\ trailer_start_offset' = trailer_start_offset /\ ref_size' = ref_size
      /\ root_object' = root_object /\ object_offsets' = object_offsets
  BY DEF DoubleLength, input, trailer
<1>2. InObject
  BY <1>1 DEF InObject
<1>3. /\ at \in Nat /\ pos \in Nat /\ len \in Nat /\ ref_size \in Nat
      /\ trailer_start_offset \in Nat
  BY <1>2, InObjectFacts
<1>4. CASE Fail /\ UNCHANGED allocated
  BY <1>1, <1>2, <1>3, <1>4, InObjectFacts, FailInObject
<1>5. CASE /\ Allocatable(2 * len, ref_size) /\ Allocate(2 * len, ref_size)
           /\ Goto("push") /\ UNCHANGED object
  <2>1. allocated' \in Nat /\ allocated' <= trailer_start_offset'
    BY <1>1, <1>3, <1>5, AllocationBounded
  <2>2. at <= trailer_start_offset + 10
    <3> DEFINE x == len * ref_size
    <3>1. x \in Nat /\ (2 * len) * ref_size = 2 * x
      BY <1>3
    <3>2. pos + (2 * len) * ref_size <= trailer_start_offset
      BY <1>5 DEF Allocatable
    <3>3. at <= pos + 10 + 2 * x
      BY <1>1 DEF BInv, Reach
    <3>4. pos + 2 * x <= trailer_start_offset
      BY <3>1, <3>2
    <3> HIDE DEF x
    <3> QED
      BY <1>3, <3>1, <3>3, <3>4
  <2>3. /\ pc' = "push" /\ UNCHANGED walk /\ object_ref' = object_ref /\ ty' = ty
        /\ len' = len /\ key_refs' = key_refs
    BY <1>5 DEF Goto, object
  <2>4. Reach' /\ RefsRead'
    BY <1>1, <2>2, <2>3 DEF BInv, Reach, RefsRead, OverrunIsHeader, PiecesRead
  <2> QED
    BY <1>1, <1>2, <1>3, <2>1, <2>3, <2>4, InObjectFacts, GoesOn
<1> QED
  BY <1>4, <1>5 DEF DoubleLength, Doubled

(***************************************************************************)
(* The collection is pushed.                                               *)
(***************************************************************************)
(* What a list is in reverse.                                               *)
LEMMA ReverseType ==
  ASSUME NEW s \in Seq(Nat)
  PROVE  Reverse(s) \in Seq(Nat)
<1> DEFINE n == Len(s)
<1>1. n \in Nat /\ \A i \in 1..n : s[i] \in Nat
  BY SeqElements
<1>2. Reverse(s) = [i \in 1..n |-> s[(n - i) + 1]]
  BY DEF Reverse
<1> HIDE DEF n
<1>3. ASSUME NEW i \in 1..n
      PROVE  s[(n - i) + 1] \in Nat
  <2>1. (n - i) + 1 \in 1..n
    BY <1>1
  <2> QED
    BY <1>1, <2>1
<1>4. [i \in 1..n |-> s[(n - i) + 1]] \in [1..n -> Nat]
  BY <1>3
<1> QED
  BY <1>1, <1>2, <1>4

(* The elements of a collection are references.                             *)
LEMMA ChildRefsType ==
  ASSUME BInv, pc = "push"
  PROVE  ChildRefs \in Seq(Nat)
<1>1. key_refs \in Seq(Nat) /\ len \in Nat /\ (ty # 10 => Len(key_refs) = 2 * len)
  BY DEF BInv, Types, RefsRead
<1>2. CASE ty = 10
  BY <1>1, <1>2, ReverseType DEF ChildRefs
<1>3. CASE ty # 10
  <2> DEFINE n == 2 * len
  <2>1. n \in Nat /\ \A i \in 1..n : key_refs[i] \in Nat
    <3>1. \A i \in 1..Len(key_refs) : key_refs[i] \in Nat
      BY <1>1, SeqElements
    <3> QED
      BY <1>1, <1>3, <3>1
  <2>2. ASSUME NEW i \in 1..n
        PROVE  (IF i % 2 = 1 THEN key_refs[(i + 1) \div 2] ELSE key_refs[len + i \div 2]) \in Nat
    <3>1. i % 2 = 1 => (i + 1) \div 2 \in 1..n
      BY <1>1
    <3>2. i % 2 # 1 => len + i \div 2 \in 1..n
      BY <1>1
    <3> QED
      BY <2>1, <3>1, <3>2
  <2>3. KeysAndValues \in [1..n -> Nat]
    BY <2>2 DEF KeysAndValues
  <2>4. KeysAndValues \in Seq(Nat)
    BY <2>1, <2>3
  <2> QED
    BY <1>3, <2>4, ReverseType DEF ChildRefs
<1> QED
  BY <1>2, <1>3

(* A collection that is open already is an error, another one is opened.    *)
LEMMA PushStackItemKeeps == BInv /\ PushStackItem => BInv'
<1> SUFFICES ASSUME BInv, PushStackItem
             PROVE  BInv'
  OBVIOUS
<1> DEFINE n == Len(stack)
           item == [object_ref |-> object_ref, ty |-> Type, child_object_refs |-> ChildRefs]
           e == [kind |-> Type, arg |-> len]
<1>1. /\ pc = "push" /\ bytes' = bytes /\ at' = at /\ pos' = pos
      /\ trailer_start_offset' = trailer_start_offset /\ ref_size' = ref_size
      /\ root_object' = root_object /\ object_offsets' = object_offsets
      /\ allocated' = allocated
  BY DEF PushStackItem, input, trailer
<1>2. InObject
  BY <1>1 DEF InObject
<1>3. CASE Fail
  BY <1>1, <1>2, <1>3, InObjectFacts, FailInObject
<1>4. CASE /\ object_on_stack' = [object_on_stack EXCEPT ![object_ref] = TRUE]
           /\ stack' = Append(stack, item)
           /\ Return(e)
           /\ UNCHANGED object
  <2>1. Type \in {"array", "dict"}
    BY DEF Type
  <2>2. item \in Items /\ item.object_ref = object_ref
    BY <1>1, <1>2, <2>1, InObjectFacts, ChildRefsType DEF Items
  <2>3. /\ stack \in Seq(Items) /\ n \in Nat /\ IsSequence(events)
    BY DEF BInv, Types
  <2> HIDE DEF item
  <2>4. /\ stack' \in Seq(Items) /\ Len(stack') = n + 1 /\ stack'[n + 1] = item
        /\ \A d \in 1..n : stack'[d] = stack[d]
    BY <1>4, <2>2, <2>3, AppendFacts
  <2>5. events' = Append(events, e) /\ returned' = "event" /\ pc' = "idle"
    BY <1>4 DEF Return
  <2>6. IsSequence(events') /\ Last(events') = e
    <3> HIDE DEF e
    <3> QED
      BY <2>3, <2>5, LastEvent
  <2>7. DOMAIN object_on_stack' = DOMAIN object_on_stack
    BY <1>4
  <2>8. object_ref' = object_ref /\ ty' = ty /\ len' = len /\ key_refs' = key_refs
    BY <1>4 DEF object
  <2>9. Types'
    BY <1>1, <2>4, <2>5, <2>6, <2>7, <2>8 DEF BInv, Types, Phases
  <2>10. TrailerFirst' /\ RefsRead' /\ AllocationsBounded'
    BY <1>1, <1>2, <2>5, InObjectFacts DEF TrailerFirst, RefsRead, AllocationsBounded
  <2>11. InTable'
    <3>1. \A d \in 1..n : stack[d].object_ref < Len(object_offsets)
      BY DEF BInv, InTable
    <3>2. object_ref < Len(object_offsets)
      BY <1>2, InObjectFacts
    <3> HIDE DEF n
    <3> QED
      BY <1>1, <2>2, <2>3, <2>4, <2>5, <3>1, <3>2 DEF InTable
  <2>12. Last(events').kind # "value"
    BY <2>1, <2>6
  <2>13. Reach'
    BY <2>5, <2>12 DEF Reach, OverrunIsHeader, PiecesRead
  <2> QED
    BY <2>9, <2>10, <2>11, <2>13 DEF BInv
<1> QED
  BY <1>3, <1>4 DEF PushStackItem

(***************************************************************************)
(* The theorems.                                                           *)
(***************************************************************************)
(* A step that changes nothing.                                             *)
LEMMA StutterKeeps == BInv /\ UNCHANGED vars => BInv'
<1> SUFFICES ASSUME BInv, UNCHANGED vars
             PROVE  BInv'
  OBVIOUS
<1>1. /\ UNCHANGED <<bytes, at, pos, trailer_start_offset, ref_size, root_object>>
      /\ UNCHANGED <<object_offsets, pc, object_ref, ty, len, key_refs>>
      /\ UNCHANGED <<stack, object_on_stack, events, returned, allocated>>
  BY DEF vars, input, trailer, object, walk
<1>2. Types'
  BY <1>1 DEF BInv, Types, IsSequence
<1> QED
  BY <1>1, <1>2 DEF BInv, TrailerFirst, InTable, Reach, RefsRead, AllocationsBounded,
                    OverrunIsHeader, PiecesRead, OffsetSize

(* Every step keeps the invariant.                                          *)
LEMMA NextBInv == BInv /\ [Next]_vars => BInv'
  BY HeaderFailsKeeps, ReadTrailerKeeps, ReadOffsetsKeeps, NextChildKeeps,
     EndCollectionKeeps, FinishedKeeps, SeekToObjectKeeps, ReadScalarKeeps,
     ReadLengthKeeps, ReadDataKeeps, ReadRefsKeeps, ReadValueRefsKeeps,
     DoubleLengthKeeps, PushStackItemKeeps, StutterKeeps
  DEF Next

(* allocate_vec does its work: whatever lengths a file states, no vector is *)
(* made for more than the bytes before the trailer could hold.              *)
THEOREM NoLargeAllocation == Spec => []AllocationsBounded
<1>1. BInv => AllocationsBounded
  BY DEF BInv
<1> QED
  BY <1>1, InitBInv, NextBInv, PTL DEF Spec

(* No object that is accepted runs into the trailer by more than its token  *)
(* and its length.                                                          *)
THEOREM SmallOverrun == Spec => []OverrunIsHeader
<1>1. BInv => OverrunIsHeader
  BY DEF BInv, Reach
<1> QED
  BY <1>1, InitBInv, NextBInv, PTL DEF Spec

(* Whatever the bytes, no flag is looked up that the table does not have.   *)
THEOREM NoFlagMissing == Spec => []FlagsWithinTable
<1>1. BInv => FlagsWithinTable
  <2> SUFFICES ASSUME BInv
               PROVE  FlagsWithinTable
    OBVIOUS
  <2> DEFINE n == Len(object_offsets)
  <2>1. /\ DOMAIN object_on_stack = 0..(n - 1) /\ n \in Nat /\ object_ref \in Nat
        /\ stack \in Seq(Items)
    BY DEF BInv, Types
  <2>2. /\ pc = "push" => object_ref < n
        /\ \A d \in 1..Len(stack) : stack[d].object_ref < n
    BY DEF BInv, InTable
  <2> HIDE DEF n
  <2>3. ASSUME NEW d \in 1..Len(stack)
        PROVE  stack[d].object_ref \in 0..(n - 1)
    <3>1. stack[d] \in Items
      BY <2>1
    <3>2. stack[d].object_ref \in Nat
      BY <3>1 DEF Items
    <3>3. stack[d].object_ref < n
      BY <2>2
    <3> QED
      BY <2>1, <3>2, <3>3
  <2>4. pc = "push" => object_ref \in 0..(n - 1)
    BY <2>1, <2>2
  <2> QED
    BY <2>1, <2>3, <2>4 DEF FlagsWithinTable
<1> QED
  BY <1>1, InitBInv, NextBInv, PTL DEF Spec

=============================================================================
