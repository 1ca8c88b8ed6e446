------------------------- MODULE BinaryReaderProofs -------------------------
(***************************************************************************)
(* Theorems about BinaryReader, for every set of files and every size of   *)
(* the object table.                                                       *)
(***************************************************************************)
EXTENDS BinaryReader, FiniteSets, FiniteSetTheorems, SequenceTheorems, TLAPS

(***************************************************************************)
(* Sequences: dropping and taking the last element.                        *)
(***************************************************************************)
(* What Front and Last return. *)
LEMMA FrontLast ==
  ASSUME NEW S, NEW s \in Seq(S), s # <<>>
  PROVE  /\ Front(s) \in Seq(S)
         /\ Len(Front(s)) = Len(s) - 1
         /\ \A i \in 1..(Len(s) - 1) : Front(s)[i] = s[i]
         /\ Last(s) \in S
         /\ Len(s) \in Nat \ {0}
<1>1. Len(s) \in Nat \ {0} /\ \A i \in 1..Len(s) : s[i] \in S
  BY EmptySeq, ElementOfSeq
<1>2. \A i \in 1..(Len(s) - 1) : s[i] \in S
  BY <1>1
<1>3. /\ Front(s) \in Seq(S)
      /\ Len(Front(s)) = IF 1 <= Len(s) - 1 THEN (Len(s) - 1) - 1 + 1 ELSE 0
      /\ \A i \in 1..((Len(s) - 1) - 1 + 1) : Front(s)[i] = s[1 + i - 1]
  BY <1>1, <1>2, SubSeqProperties DEF Front
<1>4. Len(Front(s)) = Len(s) - 1
  <2> DEFINE n == Len(s)
             m == Len(Front(s))
  <2>1. n \in Nat /\ n # 0 /\ m = IF 1 <= n - 1 THEN (n - 1) - 1 + 1 ELSE 0
    BY <1>1, <1>3
  <2> HIDE DEF n, m
  <2>2. m = n - 1
    BY <2>1
  <2> QED
    BY <2>2 DEF n, m
<1>5. \A i \in 1..(Len(s) - 1) : Front(s)[i] = s[i]
  BY <1>1, <1>3
<1>6. Last(s) \in S
  BY <1>1 DEF Last
<1> QED
  BY <1>1, <1>3, <1>4, <1>5, <1>6

(* What Append returns. *)
LEMMA AppendFacts ==
  ASSUME NEW S, NEW s \in Seq(S), NEW e \in S
  PROVE  /\ Append(s, e) \in Seq(S)
         /\ Len(Append(s, e)) = Len(s) + 1
         /\ \A i \in 1..Len(s) : Append(s, e)[i] = s[i]
         /\ Append(s, e)[Len(s) + 1] = e
         /\ Append(s, e) # <<>>
  BY AppendProperties

(***************************************************************************)
(* The children of an object are references, whatever its kind, and the    *)
(* length announced is a natural number.                                   *)
(***************************************************************************)
(* The positions read_next reads references from are those of the object.   *)
LEMMA ReversedPositions ==
  ASSUME NEW n \in Nat, NEW i \in 1..n
  PROVE  /\ n - i + 1 \in 1..n
         /\ i % 2 = 1 => n - (i - 1) \div 2 \in 1..n
         /\ n % 2 = 0 /\ i % 2 # 1 => n \div 2 - (i - 2) \div 2 \in 1..n
  OBVIOUS

(* ChildRefs returns as many references as the object has.                  *)
LEMMA ChildRefsType ==
  ASSUME NEW o \in Object
  PROVE  ChildRefs(o) \in Seq(Ref) /\ Len(ChildRefs(o)) = Len(o.refs)
<1> DEFINE n == Len(o.refs)
<1>1. o.refs \in Seq(Ref) /\ (o.kind = "dict" => n % 2 = 0)
  BY DEF Object
<1>2. n \in Nat /\ \A i \in 1..n : o.refs[i] \in Ref
  BY <1>1, LenProperties, ElementOfSeq
<1> HIDE DEF n
<1>3. CASE o.kind = "dict"
  <2> DEFINE c == [i \in 1..n |-> IF i % 2 = 1 THEN o.refs[n - (i - 1) \div 2]
                                              ELSE o.refs[n \div 2 - (i - 2) \div 2]]
  <2>1. ASSUME NEW i \in 1..n
        PROVE  c[i] \in Ref
    BY <1>1, <1>2, <1>3, ReversedPositions
  <2>2. c \in [1..n -> Ref]
    BY <2>1
  <2>3. c \in Seq(Ref) /\ Len(c) = n
    BY <1>2, <2>2
  <2>4. ChildRefs(o) = c
    BY <1>3 DEF ChildRefs, n
  <2> QED
    BY <2>3, <2>4 DEF n
<1>4. CASE o.kind # "dict"
  <2> DEFINE c == [i \in 1..n |-> o.refs[n - i + 1]]
  <2>1. c \in [1..n -> Ref]
    BY <1>2, ReversedPositions
  <2>2. c \in Seq(Ref) /\ Len(c) = n
    BY <1>2, <2>1
  <2>3. ChildRefs(o) = c
    BY <1>4 DEF ChildRefs, n
  <2> QED
    BY <2>2, <2>3 DEF n
<1> QED
  BY <1>3, <1>4

(* ObjectLen is a length.                                                   *)
LEMMA ObjectLenType ==
  ASSUME NEW o \in Object
  PROVE  ObjectLen(o) \in Nat
<1> DEFINE n == Len(o.refs)
<1>1. n \in Nat
  BY LenProperties DEF Object
<1> HIDE DEF n
<1>2. n \div 2 \in Nat
  BY <1>1
<1> QED
  BY <1>1, <1>2 DEF ObjectLen, n

(***************************************************************************)
(* The stack: taking the next reference of the innermost collection leaves *)
(* the open collections what they are.                                     *)
(***************************************************************************)
(* The stack NextChild works on holds the same objects as before.           *)
LEMMA PoppedStack ==
  ASSUME stack \in Seq(StackItems), stack # <<>>,
         Last(stack).child_object_refs # <<>>,
         NEW stk, stk = Append(Front(stack), Popped(Last(stack)))
  PROVE  /\ stk \in Seq(StackItems)
         /\ stk # <<>>
         /\ Len(stk) = Len(stack)
         /\ \A i \in 1..Len(stack) : stk[i].object_ref = stack[i].object_ref
         /\ Last(Last(stack).child_object_refs) \in Ref
<1> DEFINE top == Last(stack)
           n == Len(stack)
<1>1. /\ Front(stack) \in Seq(StackItems)
      /\ Len(Front(stack)) = n - 1
      /\ \A i \in 1..(n - 1) : Front(stack)[i] = stack[i]
      /\ top \in StackItems
      /\ n \in Nat \ {0}
  BY FrontLast
<1>2. top = stack[n]
  BY DEF Last
<1>3. top.child_object_refs \in Seq(Ref)
  BY <1>1 DEF StackItems
<1>4. Front(top.child_object_refs) \in Seq(Ref) /\ Last(top.child_object_refs) \in Ref
  BY <1>3, FrontLast
<1>5. Popped(top) \in StackItems /\ Popped(top).object_ref = top.object_ref
  BY <1>1, <1>4 DEF Popped, StackItems
<1> HIDE DEF top, n
<1>6. /\ stk \in Seq(StackItems)
      /\ stk # <<>>
      /\ Len(stk) = (n - 1) + 1
      /\ \A i \in 1..(n - 1) : stk[i] = stack[i]
      /\ stk[(n - 1) + 1] = Popped(top)
  BY <1>1, <1>5, AppendFacts DEF top
<1>7. Len(stk) = n
  BY <1>1, <1>6
<1>8. ASSUME NEW i \in 1..n
      PROVE  stk[i].object_ref = stack[i].object_ref
  <2>1. CASE i = n
    <3>1. stk[n] = Popped(top)
      BY <1>1, <1>6
    <3> QED
      BY <2>1, <3>1, <1>2, <1>5
  <2>2. CASE i # n
    <3>1. i \in 1..(n - 1)
      BY <2>2, <1>1
    <3> QED
      BY <3>1, <1>6
  <2> QED
    BY <2>1, <2>2
<1> QED
  BY <1>4, <1>6, <1>7, <1>8 DEF top, n

(* So the flags match afterwards as well as before. *)
LEMMA PoppedFlags ==
  ASSUME stack \in Seq(StackItems), stack # <<>>, FlagsMatchStack,
         Last(stack).child_object_refs # <<>>,
         NEW stk, stk = Append(Front(stack), Popped(Last(stack)))
  PROVE  Distinct(stk) /\ FlagsMatch(stk, object_on_stack)
<1>1. /\ Len(stk) = Len(stack)
      /\ \A i \in 1..Len(stack) : stk[i].object_ref = stack[i].object_ref
  BY PoppedStack
<1>2. Distinct(stk)
  BY <1>1 DEF FlagsMatchStack, Distinct
<1>3. FlagsMatch(stk, object_on_stack)
  BY <1>1 DEF FlagsMatchStack, FlagsMatch
<1> QED
  BY <1>2, <1>3

(***************************************************************************)
(* Pushing a collection that is not on the stack, and popping one.         *)
(***************************************************************************)
(* Raising the flag of an object that is pushed keeps the flags matching.   *)
LEMMA PushFlags ==
  ASSUME NEW stk \in Seq(StackItems), NEW onStack,
         Distinct(stk), FlagsMatch(stk, onStack),
         NEW r \in ObjectRef, ~onStack[r],
         NEW item \in StackItems, item.object_ref = r
  PROVE  /\ Distinct(Append(stk, item))
         /\ FlagsMatch(Append(stk, item), Raised(r, onStack))
<1> DEFINE n == Len(stk)
           new == Append(stk, item)
<1>1. /\ n \in Nat
      /\ Len(new) = n + 1
      /\ \A i \in 1..n : new[i] = stk[i]
      /\ new[n + 1] = item
  BY AppendFacts, LenProperties
<1>2. \A i \in 1..n : stk[i].object_ref # r
  BY DEF FlagsMatch
<1>3. \A i, j \in 1..n : stk[i].object_ref = stk[j].object_ref => i = j
  BY DEF Distinct
<1>4. \A i \in 1..n : stk[i].object_ref \in ObjectRef
  BY DEF FlagsMatch
<1>5. \A q \in ObjectRef : onStack[q] <=> \E i \in 1..n : stk[i].object_ref = q
  BY DEF FlagsMatch
<1> HIDE DEF n, new
<1>6. \A i \in 1..(n + 1) : i \in 1..n \/ i = n + 1
  BY <1>1
<1>7. Distinct(new)
  BY <1>1, <1>2, <1>3, <1>6 DEF Distinct
<1>8. Raised(r, onStack) \in [ObjectRef -> BOOLEAN]
  BY DEF Raised, FlagsMatch
<1>9. ASSUME NEW q \in ObjectRef
      PROVE  Raised(r, onStack)[q] <=> \E i \in 1..(n + 1) : new[i].object_ref = q
  <2>1. 1..n \subseteq 1..(n + 1) /\ n + 1 \in 1..(n + 1)
    BY <1>1
  <2>2. CASE q = r
    BY <2>1, <2>2, <1>1 DEF Raised, FlagsMatch
  <2>3. CASE q # r
    <3>1. Raised(r, onStack)[q] = onStack[q]
      BY <2>3 DEF Raised, FlagsMatch
    <3> QED
      BY <3>1, <2>1, <2>3, <1>1, <1>5, <1>6
  <2> QED
    BY <2>2, <2>3
<1>10. FlagsMatch(new, Raised(r, onStack))
  BY <1>1, <1>4, <1>6, <1>8, <1>9 DEF FlagsMatch
<1> QED
  BY <1>7, <1>10 DEF new

(* Lowering the flag of the object that is popped does too, as no other     *)
(* entry of the stack is that object.                                       *)
LEMMA PopFlags ==
  ASSUME stack \in Seq(StackItems), stack # <<>>, FlagsMatchStack
  PROVE  /\ Distinct(Front(stack))
         /\ FlagsMatch(Front(stack), Lowered(Last(stack).object_ref, object_on_stack))
<1> DEFINE n == Len(stack)
           rest == Front(stack)
           r == Last(stack).object_ref
<1>1. /\ n \in Nat \ {0}
      /\ Len(rest) = n - 1
      /\ \A i \in 1..(n - 1) : rest[i] = stack[i]
      /\ r = stack[n].object_ref
  BY FrontLast DEF Last
<1>2. \A i, j \in 1..n : stack[i].object_ref = stack[j].object_ref => i = j
  BY DEF FlagsMatchStack, Distinct
<1>3. /\ object_on_stack \in [ObjectRef -> BOOLEAN]
      /\ \A i \in 1..n : stack[i].object_ref \in ObjectRef
      /\ \A q \in ObjectRef : object_on_stack[q] <=> \E i \in 1..n : stack[i].object_ref = q
  BY DEF FlagsMatchStack, FlagsMatch
<1> HIDE DEF n, rest, r
<1>4. /\ 1..(n - 1) \subseteq 1..n
      /\ n \in 1..n
      /\ \A i \in 1..n : i \in 1..(n - 1) \/ i = n
      /\ n \notin 1..(n - 1)
  BY <1>1
<1>5. Distinct(rest)
  BY <1>1, <1>2, <1>4 DEF Distinct
<1>6. Lowered(r, object_on_stack) \in [ObjectRef -> BOOLEAN]
  BY <1>3 DEF Lowered
<1>7. ASSUME NEW q \in ObjectRef
      PROVE  Lowered(r, object_on_stack)[q] <=> \E i \in 1..(n - 1) : rest[i].object_ref = q
  <2>1. CASE q = r
    BY <2>1, <1>1, <1>2, <1>3, <1>4 DEF Lowered
  <2>2. CASE q # r
    <3>1. Lowered(r, object_on_stack)[q] = object_on_stack[q]
      BY <2>2, <1>3 DEF Lowered
    <3> QED
      BY <3>1, <2>2, <1>1, <1>3, <1>4
  <2> QED
    BY <2>1, <2>2
<1>8. FlagsMatch(rest, Lowered(r, object_on_stack))
  BY <1>1, <1>3, <1>4, <1>6, <1>7 DEF FlagsMatch
<1> QED
  BY <1>5, <1>8 DEF rest, r

(***************************************************************************)
(* The inductive invariant: types and the agreement of flags and stack.    *)
(***************************************************************************)
IInv == TypeOK /\ FlagsMatchStack

(* Before an error empties it and afterwards, the empty stack matches.      *)
LEMMA EmptyStack ==
  /\ <<>> \in Seq(StackItems)
  /\ Distinct(<<>>)
  /\ FlagsMatch(<<>>, NoneOnStack)
  BY DEF Distinct, FlagsMatch, NoneOnStack

(* What read_next needs when it arrives at an object.                       *)
LEMMA ReadObjectInv ==
  ASSUME TypeOK, NEW r \in Ref, NEW stk \in Seq(StackItems),
         NEW onStack, Distinct(stk), FlagsMatch(stk, onStack),
         ReadObject(r, stk, onStack), file' = file, initialised' \in BOOLEAN
  PROVE  IInv'
<1>1. /\ onStack \in [ObjectRef -> BOOLEAN]
      /\ file \in Files
      /\ file.objects \in [ObjectRef -> Object]
      /\ events \in Seq(Events)
  BY FilesAssumption DEF TypeOK, FlagsMatch
<1>2. ASSUME Fail(onStack)
      PROVE  IInv'
  BY <1>1, <1>2, EmptyStack DEF Fail, IInv, TypeOK, FlagsMatchStack
<1>3. ASSUME NEW e \in Events, Return(e),
             stack' \in Seq(StackItems), Distinct(stack'),
             FlagsMatch(stack', object_on_stack')
      PROVE  IInv'
  <2>1. events' \in Seq(Events)
    BY <1>1, <1>3, AppendFacts DEF Return
  <2>2. object_on_stack' \in [ObjectRef -> BOOLEAN]
    BY <1>3 DEF FlagsMatch
  <2> QED
    BY <1>1, <1>3, <2>1, <2>2 DEF Return, IInv, TypeOK, FlagsMatchStack
<1>4. CASE /\ Readable(r, onStack)
           /\ file.objects[r].kind = "value"
           /\ Return(ValueEvent(r))
           /\ stack' = stk
           /\ object_on_stack' = onStack
  <2>1. ValueEvent(r) \in Events
    BY DEF ValueEvent, Events, Ref
  <2> QED
    BY <1>3, <1>4, <2>1
<1>5. CASE /\ Readable(r, onStack)
           /\ file.objects[r].kind \in Type
           /\ ~Recursive(r, onStack)
           /\ stack' = Append(stk, StackItem(r, file.objects[r]))
           /\ object_on_stack' = Raised(r, onStack)
           /\ Return(StartEvent(file.objects[r]))
  <2> DEFINE o == file.objects[r]
             item == StackItem(r, o)
  <2>1. r \in ObjectRef /\ ~onStack[r]
    BY <1>1, <1>5 DEF Readable, Recursive
  <2>2. o \in Object /\ o.kind \in Type
    BY <1>1, <1>5, <2>1
  <2>3. item \in StackItems /\ item.object_ref = r
    BY <2>2, ChildRefsType DEF StackItem, StackItems
  <2>4. StartEvent(o) \in Events
    BY <2>2, ObjectLenType DEF StartEvent, Events
  <2>5. Append(stk, item) \in Seq(StackItems)
    BY <2>3, AppendFacts
  <2>6. Distinct(stack') /\ FlagsMatch(stack', object_on_stack')
    BY <1>5, <2>1, <2>3, PushFlags
  <2> QED
    BY <1>3, <1>5, <2>4, <2>5, <2>6
<1> QED
  BY <1>2, <1>4, <1>5 DEF ReadObject

(* A reader that has not been called yet satisfies the invariant.           *)
THEOREM InitIInv == Init => IInv
<1> SUFFICES ASSUME Init
             PROVE  IInv
  OBVIOUS
<1>1. events \in Seq(Events)
  BY EmptySeq DEF Init
<1>2. stack \in Seq(StackItems)
  BY EmptySeq DEF Init
<1>3. object_on_stack \in {<< >>} \cup [ObjectRef -> BOOLEAN]
  BY DEF Init
<1>4. TypeOK
  <2>1. initialised \in BOOLEAN
    BY Zenon DEF Init
  <2>2. file \in Files /\ returned \in {"event", "err", "none"}
    BY Zenon DEF Init
  <2> QED
    BY <2>1, <2>2, <1>1, <1>2, <1>3 DEF TypeOK
<1>5. FlagsMatchStack
  BY EmptyStack DEF Init, FlagsMatchStack
<1> QED
  BY <1>4, <1>5 DEF IInv

(* No call of next() breaks it, whatever it reads.                          *)
THEOREM NextIInv == IInv /\ [Next]_vars => IInv'
<1> SUFFICES ASSUME IInv, [Next]_vars
             PROVE  IInv'
  OBVIOUS
<1>1. CASE HeaderFails
  BY <1>1, EmptyStack DEF HeaderFails, Fail, IInv, TypeOK, FlagsMatchStack
<1>2. CASE TrailerFails
  BY <1>2, EmptyStack DEF TrailerFails, Fail, IInv, TypeOK, FlagsMatchStack
<1>3. CASE FirstCall
  <2>1. file.root \in Ref
    BY FilesAssumption DEF IInv, TypeOK
  <2> QED
    BY <1>3, <2>1, EmptyStack, ReadObjectInv DEF FirstCall, IInv
<1>4. CASE NextChild
  <2> DEFINE stk == Append(Front(stack), Popped(Last(stack)))
  <2>1. stk \in Seq(StackItems) /\ Last(Last(stack).child_object_refs) \in Ref
    BY <1>4, PoppedStack DEF NextChild, IInv, TypeOK
  <2>2. Distinct(stk) /\ FlagsMatch(stk, object_on_stack)
    BY <1>4, PoppedFlags DEF NextChild, IInv, TypeOK
  <2>3. /\ file' = file /\ initialised' \in BOOLEAN
        /\ ReadObject(Last(Last(stack).child_object_refs), stk, object_on_stack)
    BY <1>4 DEF NextChild, IInv, TypeOK
  <2> QED
    BY <2>1, <2>2, <2>3, ReadObjectInv DEF IInv
<1>5. CASE EndCollection
  <2>1. Front(stack) \in Seq(StackItems)
    BY <1>5, FrontLast DEF EndCollection, IInv, TypeOK
  <2>2. Distinct(stack') /\ FlagsMatch(stack', object_on_stack')
    BY <1>5, PopFlags DEF EndCollection, IInv, TypeOK
  <2>3. EndEvent \in Events
    BY DEF EndEvent, Events
  <2>4. events' \in Seq(Events)
    BY <1>5, <2>3, AppendFacts DEF EndCollection, Return, IInv, TypeOK
  <2> QED
    BY <1>5, <2>1, <2>2, <2>4
    DEF EndCollection, Return, IInv, TypeOK, FlagsMatchStack, FlagsMatch
<1>6. CASE Finished
  BY <1>6 DEF Finished, IInv, TypeOK, FlagsMatchStack
<1>7. CASE UNCHANGED vars
  BY <1>7 DEF vars, IInv, TypeOK, FlagsMatchStack
<1> QED
  BY <1>1, <1>2, <1>3, <1>4, <1>5, <1>6, <1>7 DEF Next, Call

(* Every variable always has its type. *)
THEOREM TypeCorrect == Spec => []TypeOK
<1>1. IInv => TypeOK
  BY DEF IInv
<1> QED
  BY <1>1, InitIInv, NextIInv, PTL DEF Spec

(* The recursion flags agree with the stack in every reachable state, for   *)
(* every object table: read_next neither misses a cycle nor rejects an      *)
(* object that is merely shared.                                            *)
THEOREM FlagsCorrect == Spec => []FlagsMatchStack
<1>1. IInv => FlagsMatchStack
  BY DEF IInv
<1> QED
  BY <1>1, InitIInv, NextIInv, PTL DEF Spec

(***************************************************************************)
(* Depth: the objects on the stack are pairwise distinct members of the    *)
(* table, so there are at most as many of them as objects.                 *)
(***************************************************************************)
(* The invariant implies the bound.                                         *)
LEMMA IInvDepth == IInv => DepthBounded
<1> SUFFICES ASSUME IInv
             PROVE  DepthBounded
  OBVIOUS
<1> DEFINE n == Len(stack)
           f == [i \in 1..n |-> stack[i].object_ref]
<1>1. n \in Nat
  BY LenProperties DEF IInv, TypeOK
<1>2. CASE stack = <<>>
  BY <1>2, NumObjectsAssumption DEF DepthBounded
<1>3. CASE stack # <<>>
  <2>1. f \in [1..n -> ObjectRef]
    BY <1>3 DEF IInv, FlagsMatchStack, FlagsMatch
  <2>2. \A i, j \in 1..n : f[i] = f[j] => i = j
    BY DEF IInv, FlagsMatchStack, Distinct
  <2>3. f \in Injection(1..n, ObjectRef)
    BY <2>1, <2>2 DEF Injection, IsInjective
  <2>4. /\ IsFiniteSet(1..n) /\ Cardinality(1..n) = n
        /\ IsFiniteSet(ObjectRef) /\ Cardinality(ObjectRef) = NumObjects
    <3>1. IsFiniteSet(1..n) /\ Cardinality(1..n) = IF 1 > n THEN 0 ELSE n - 1 + 1
      BY <1>1, FS_Interval
    <3>2. /\ IsFiniteSet(ObjectRef)
          /\ Cardinality(ObjectRef) = IF 0 > NumObjects - 1 THEN 0 ELSE NumObjects - 1 - 0 + 1
      BY NumObjectsAssumption, FS_Interval DEF ObjectRef
    <3> HIDE DEF n
    <3> QED
      BY <1>1, <3>1, <3>2, NumObjectsAssumption
  <2> HIDE DEF n, f
  <2>5. n <= NumObjects
    BY <2>3, <2>4, FS_Injection
  <2> QED
    BY <2>5 DEF DepthBounded, n
<1> QED
  BY <1>2, <1>3

(* The stack never holds more collections than the file has objects,        *)
(* whatever cycles it contains.                                             *)
THEOREM DepthIsBounded == Spec => []DepthBounded
  BY IInvDepth, InitIInv, NextIInv, PTL DEF Spec

(***************************************************************************)
(* The path: what is on the stack are the collections that lead from the   *)
(* root to the object at hand, each with what is left of it.               *)
(***************************************************************************)
(* StackIsPath, for the file f and the open collections stk.                *)
OnPath(f, item) ==
  LET all == ChildRefs(f.objects[item.object_ref])
      due == item.child_object_refs
  IN  Len(due) <= Len(all) /\ due = SubSeq(all, 1, Len(due))

(* The reference r is the one that was last taken from the collection.      *)
LeadsTo(f, item, r) ==
  LET all == ChildRefs(f.objects[item.object_ref])
      due == item.child_object_refs
  IN  Len(due) < Len(all) /\ r = all[Len(due) + 1]

Path(f, stk) ==
  stk # <<>> =>
    /\ stk[1].object_ref = f.root
    /\ \A i \in 1..Len(stk) :
         /\ OnPath(f, stk[i])
         /\ i < Len(stk) => LeadsTo(f, stk[i], stk[i + 1].object_ref)

(* The path, stated of any file and stack, is the invariant of the reader.  *)
LEMMA PathIsStackIsPath == StackIsPath <=> Path(file, stack)
  BY DEF StackIsPath, Path, OnPath, LeadsTo

(* A collection whose next reference is taken stays on the path, and leads  *)
(* to what that reference refers to.                                        *)
LEMMA PoppedOnPath ==
  ASSUME NEW f \in Files, NEW item \in StackItems, item.object_ref \in ObjectRef,
         OnPath(f, item), item.child_object_refs # <<>>
  PROVE  /\ OnPath(f, Popped(item))
         /\ LeadsTo(f, Popped(item), Last(item.child_object_refs))
<1> DEFINE all == ChildRefs(f.objects[item.object_ref])
           due == item.child_object_refs
           n == Len(due)
           rest == Front(due)
<1>1. due \in Seq(Ref)
  BY DEF StackItems
<1>2. f.objects[item.object_ref] \in Object
  BY FilesAssumption
<1>3. all \in Seq(Ref)
  BY <1>2, ChildRefsType
<1>4. /\ rest \in Seq(Ref) /\ Len(rest) = n - 1
      /\ \A k \in 1..(n - 1) : rest[k] = due[k]
      /\ n \in Nat \ {0}
  BY <1>1, FrontLast
<1>5. n <= Len(all) /\ due = SubSeq(all, 1, n)
  BY DEF OnPath
<1>6. Popped(item).object_ref = item.object_ref /\ Popped(item).child_object_refs = rest
  BY DEF Popped, StackItems
<1>7. Len(all) \in Nat /\ \A k \in 1..Len(all) : all[k] \in Ref
  BY <1>3, LenProperties, ElementOfSeq
<1> HIDE DEF all, due, n, rest
<1>8. \A k \in 1..n : due[k] = all[k]
  <2>1. \A k \in 1..n : all[k] \in Ref
    BY <1>4, <1>5, <1>7
  <2>2. \A k \in 1..(n - 1 + 1) : SubSeq(all, 1, n)[k] = all[1 + k - 1]
    BY <2>1, <1>4, SubSeqProperties
  <2> QED
    BY <2>2, <1>4, <1>5, <1>7
<1>9. rest = SubSeq(all, 1, n - 1)
  <2> DEFINE s == SubSeq(all, 1, n - 1)
  <2>1. \A k \in 1..(n - 1) : all[k] \in Ref
    BY <1>4, <1>5, <1>7
  <2>2. /\ s \in Seq(Ref)
        /\ Len(s) = IF 1 <= n - 1 THEN n - 1 - 1 + 1 ELSE 0
        /\ \A k \in 1..(n - 1 - 1 + 1) : s[k] = all[1 + k - 1]
    BY <2>1, <1>4, SubSeqProperties
  <2> HIDE DEF s
  <2>3. Len(s) = n - 1 /\ \A k \in 1..(n - 1) : s[k] = all[k]
    BY <2>2, <1>4, <1>5, <1>7
  <2>4. \A k \in 1..(n - 1) : rest[k] = s[k]
    BY <2>3, <1>4, <1>8
  <2>5. rest = s
    BY <2>2, <2>3, <2>4, <1>4, SeqEqual
  <2> QED
    BY <2>5 DEF s
<1>10. Last(due) = all[n - 1 + 1]
  BY <1>4, <1>8 DEF Last, n
<1>11. OnPath(f, Popped(item))
  BY <1>4, <1>5, <1>6, <1>7, <1>9 DEF OnPath, all
<1>12. LeadsTo(f, Popped(item), Last(due))
  BY <1>4, <1>5, <1>6, <1>7, <1>10 DEF LeadsTo, all
<1> QED
  BY <1>11, <1>12 DEF due

(* The stack NextChild works on is a path that leads to the child.          *)
LEMMA PoppedPath ==
  ASSUME IInv, Path(file, stack), stack # <<>>, Last(stack).child_object_refs # <<>>,
         NEW stk, stk = Append(Front(stack), Popped(Last(stack)))
  PROVE  /\ Path(file, stk)
         /\ LeadsTo(file, stk[Len(stk)], Last(Last(stack).child_object_refs))
<1> DEFINE n == Len(stack)
           top == Last(stack)
<1>1. /\ Front(stack) \in Seq(StackItems)
      /\ Len(Front(stack)) = n - 1
      /\ \A i \in 1..(n - 1) : Front(stack)[i] = stack[i]
      /\ top \in StackItems
      /\ n \in Nat \ {0}
  BY FrontLast DEF IInv, TypeOK
<1>2. /\ Len(stk) = n
      /\ \A i \in 1..n : stk[i].object_ref = stack[i].object_ref
  BY PoppedStack DEF IInv, TypeOK
<1>3. Popped(top) \in StackItems
  <2>1. top.child_object_refs \in Seq(Ref)
    BY <1>1 DEF StackItems
  <2>2. Front(top.child_object_refs) \in Seq(Ref)
    BY <2>1, FrontLast
  <2> QED
    BY <1>1, <2>2 DEF Popped, StackItems
<1>4. top = stack[n]
  BY DEF Last
<1>5. file \in Files /\ \A i \in 1..n : stack[i].object_ref \in ObjectRef
  BY DEF IInv, TypeOK, FlagsMatchStack, FlagsMatch
<1>6. /\ stack[1].object_ref = file.root
      /\ \A i \in 1..n : /\ OnPath(file, stack[i])
                         /\ i < n => LeadsTo(file, stack[i], stack[i + 1].object_ref)
  BY DEF Path
<1>7. stk = Append(Front(stack), Popped(top)) /\ top.child_object_refs # <<>>
  OBVIOUS
<1> HIDE DEF n, top
<1>8. (\A i \in 1..(n - 1) : stk[i] = stack[i]) /\ stk[n] = Popped(top)
  <2>1. /\ \A i \in 1..(n - 1) : stk[i] = Front(stack)[i]
        /\ stk[n - 1 + 1] = Popped(top)
    BY <1>1, <1>3, <1>7, AppendFacts
  <2> QED
    BY <2>1, <1>1
<1>9. /\ OnPath(file, Popped(top))
      /\ LeadsTo(file, Popped(top), Last(top.child_object_refs))
  BY <1>1, <1>4, <1>5, <1>6, <1>7, PoppedOnPath
<1>10. ASSUME NEW i \in 1..n
       PROVE  /\ OnPath(file, stk[i])
              /\ i < n => LeadsTo(file, stk[i], stk[i + 1].object_ref)
  <2>1. CASE i = n
    BY <2>1, <1>1, <1>8, <1>9
  <2>2. CASE i # n
    <3>1. i \in 1..(n - 1) /\ i + 1 \in 1..n
      BY <2>2, <1>1
    <3> QED
      BY <3>1, <1>2, <1>6, <1>8
  <2> QED
    BY <2>1, <2>2
<1>11. stk[1].object_ref = file.root
  BY <1>1, <1>2, <1>6
<1> QED
  BY <1>2, <1>8, <1>9, <1>10, <1>11 DEF Path, top

(* Opening a collection that the path leads to extends the path.            *)
LEMMA PushedPath ==
  ASSUME NEW f \in Files, NEW stk \in Seq(StackItems), Path(f, stk), NEW r \in ObjectRef,
         f.objects[r].kind \in Type,
         IF stk = <<>> THEN r = f.root ELSE LeadsTo(f, stk[Len(stk)], r)
  PROVE  Path(f, Append(stk, StackItem(r, f.objects[r])))
<1> DEFINE n == Len(stk)
           o == f.objects[r]
           item == StackItem(r, o)
           new == Append(stk, item)
<1>1. o \in Object /\ o.kind \in Type
  BY FilesAssumption
<1>2. ChildRefs(o) \in Seq(Ref)
  BY <1>1, ChildRefsType
<1>3. item \in StackItems /\ item.object_ref = r /\ item.child_object_refs = ChildRefs(o)
  <2>1. r \in Ref
    BY NumObjectsAssumption DEF ObjectRef, Ref
  <2> QED
    BY <2>1, <1>1, <1>2 DEF StackItem, StackItems
<1>4. OnPath(f, item)
  <2>1. SubSeq(ChildRefs(o), 1, Len(ChildRefs(o))) = ChildRefs(o) /\ Len(ChildRefs(o)) \in Nat
    BY <1>2, SubSeqFull, LenProperties
  <2> QED
    BY <2>1, <1>3 DEF OnPath
<1>5. /\ n \in Nat /\ Len(new) = n + 1 /\ new # <<>>
      /\ \A i \in 1..n : new[i] = stk[i]
      /\ new[n + 1] = item
      /\ stk # <<>> => n # 0
  BY <1>3, AppendFacts, LenProperties, EmptySeq
<1>6. stk = <<>> => n = 0
  BY EmptySeq
<1>7. stk # <<>> =>
        /\ stk[1].object_ref = f.root
        /\ \A i \in 1..n : /\ OnPath(f, stk[i])
                           /\ i < n => LeadsTo(f, stk[i], stk[i + 1].object_ref)
        /\ LeadsTo(f, stk[n], r)
  BY DEF Path
<1>8. stk = <<>> => r = f.root
  OBVIOUS
<1> HIDE DEF n, o, item, new
<1>9. new[1].object_ref = f.root
  <2>1. CASE stk = <<>>
    BY <2>1, <1>3, <1>5, <1>6, <1>8
  <2>2. CASE stk # <<>>
    BY <2>2, <1>5, <1>7
  <2> QED
    BY <2>1, <2>2
<1>10. ASSUME NEW i \in 1..(n + 1)
       PROVE  /\ OnPath(f, new[i])
              /\ i < n + 1 => LeadsTo(f, new[i], new[i + 1].object_ref)
  <2>1. CASE i = n + 1
    BY <2>1, <1>4, <1>5
  <2>2. CASE i = n
    BY <2>2, <1>3, <1>5, <1>6, <1>7
  <2>3. CASE i < n
    <3>1. i \in 1..n /\ i + 1 \in 1..n /\ stk # <<>>
      BY <2>3, <1>5, <1>6
    <3> QED
      BY <2>3, <3>1, <1>5, <1>7
  <2> QED
    BY <2>1, <2>2, <2>3, <1>5
<1>11. Path(f, new)
  BY <1>5, <1>9, <1>10 DEF Path
<1> QED
  BY <1>11 DEF new, item, o

(* Wherever the walk arrives, the stack is a path afterwards.               *)
LEMMA ReadObjectPath ==
  ASSUME IInv, NEW r, NEW stk \in Seq(StackItems), NEW onStack,
         onStack \in [ObjectRef -> BOOLEAN], Path(file, stk),
         IF stk = <<>> THEN r = file.root ELSE LeadsTo(file, stk[Len(stk)], r),
         ReadObject(r, stk, onStack), file' = file
  PROVE  Path(file, stack)'
<1>1. CASE stack' = <<>>
  BY <1>1 DEF Path
<1>2. CASE stack' = stk
  BY <1>2 DEF Path, OnPath, LeadsTo
<1>3. CASE /\ Readable(r, onStack)
           /\ file.objects[r].kind \in Type
           /\ stack' = Append(stk, StackItem(r, file.objects[r]))
  <2>1. r \in ObjectRef /\ file \in Files
    BY <1>3 DEF Readable, IInv, TypeOK
  <2>2. Path(file, stack')
    BY <1>3, <2>1, PushedPath
  <2> QED
    BY <2>2 DEF Path, OnPath, LeadsTo
<1> QED
  BY <1>1, <1>2, <1>3 DEF ReadObject, Fail

(* The path is kept by every call.                                          *)
LEMMA NextPath == IInv /\ StackIsPath /\ [Next]_vars => StackIsPath'
<1> SUFFICES ASSUME IInv, StackIsPath, [Next]_vars
             PROVE  Path(file, stack)'
  BY DEF StackIsPath, Path, OnPath, LeadsTo
<1>0. Path(file, stack)
  BY PathIsStackIsPath
<1>1. CASE HeaderFails \/ TrailerFails
  BY <1>1 DEF HeaderFails, TrailerFails, Fail, Path
<1>2. CASE FirstCall
  <2>1. <<>> \in Seq(StackItems) /\ Path(file, <<>>)
    BY EmptySeq DEF Path
  <2>2. NoneOnStack \in [ObjectRef -> BOOLEAN]
    BY DEF NoneOnStack
  <2> QED
    BY <1>2, <2>1, <2>2, ReadObjectPath DEF FirstCall
<1>3. CASE NextChild
  <2> DEFINE stk == Append(Front(stack), Popped(Last(stack)))
             r == Last(Last(stack).child_object_refs)
  <2>1. stk \in Seq(StackItems) /\ stk # <<>>
    BY <1>3, PoppedStack DEF NextChild, IInv, TypeOK
  <2>2. Path(file, stk) /\ LeadsTo(file, stk[Len(stk)], r)
    BY <1>3, <1>0, PoppedPath DEF NextChild
  <2>3. object_on_stack \in [ObjectRef -> BOOLEAN]
    BY <1>3 DEF NextChild, IInv, FlagsMatchStack, FlagsMatch
  <2>4. ReadObject(r, stk, object_on_stack) /\ file' = file
    BY <1>3 DEF NextChild
  <2> HIDE DEF stk, r
  <2> QED
    BY <2>1, <2>2, <2>3, <2>4, ReadObjectPath
<1>4. CASE EndCollection
  <2> DEFINE n == Len(stack)
             rest == Front(stack)
  <2>1. /\ rest \in Seq(StackItems)
        /\ Len(rest) = n - 1
        /\ \A i \in 1..(n - 1) : rest[i] = stack[i]
        /\ n \in Nat \ {0}
    BY <1>4, FrontLast DEF EndCollection, IInv, TypeOK
  <2>2. rest # <<>> => n - 1 # 0
    BY <2>1, EmptySeq
  <2>3. /\ stack[1].object_ref = file.root
        /\ \A i \in 1..n : /\ OnPath(file, stack[i])
                           /\ i < n => LeadsTo(file, stack[i], stack[i + 1].object_ref)
    BY <1>0, <1>4 DEF Path, EndCollection
  <2> HIDE DEF n, rest
  <2>4. ASSUME NEW i \in 1..(n - 1)
        PROVE  /\ OnPath(file, rest[i])
               /\ i < n - 1 => LeadsTo(file, rest[i], rest[i + 1].object_ref)
    <3>1. i \in 1..n /\ i < n /\ rest[i] = stack[i]
      BY <2>1
    <3>2. i < n - 1 => rest[i + 1] = stack[i + 1]
      BY <2>1
    <3> QED
      BY <3>1, <3>2, <2>3
  <2>5. rest # <<>> => rest[1].object_ref = file.root
    BY <2>1, <2>2, <2>3
  <2>6. Path(file, rest)
    BY <2>1, <2>4, <2>5 DEF Path
  <2>7. stack' = rest /\ file' = file
    BY <1>4 DEF EndCollection, rest
  <2> QED
    BY <2>6, <2>7 DEF Path, OnPath, LeadsTo
<1>5. CASE Finished \/ UNCHANGED vars
  <2>1. stack' = stack /\ file' = file
    BY <1>5 DEF Finished, vars
  <2> QED
    BY <2>1, <1>0 DEF Path, OnPath, LeadsTo
<1> QED
  BY <1>1, <1>2, <1>3, <1>4, <1>5 DEF Next, Call

(* At every moment of the walk, over every file, the open collections are a *)
(* path of its object graph from the root, and what each has still to       *)
(* deliver is what follows the next of them: no object is skipped, repeated *)
(* or read out of its place.                                                *)
THEOREM StackIsAlwaysPath == Spec => []StackIsPath
<1>1. Init => StackIsPath
  BY DEF Init, StackIsPath
<1> QED
  BY <1>1, InitIInv, NextIInv, NextPath, PTL DEF Spec


(***************************************************************************)
(* The refinement of EventStream.  The binary reader implements the event  *)
(* stream: over every file, what it returns is a well-formed stream of the *)
(* events of one tree, or the beginning of one that an error cuts off.     *)
(***************************************************************************)
(* The first call finds nothing open.                                       *)
NothingOpenBefore == ~initialised => stack = <<>>

RInv == IInv /\ NothingOpenBefore

(* The invariant holds at first.                                            *)
LEMMA InitRInv == Init => RInv
  BY InitIInv DEF Init, RInv, NothingOpenBefore

(* Every step of the reader keeps it.                                       *)
LEMMA NextRInv == RInv /\ [Next]_vars => RInv'
<1> SUFFICES ASSUME RInv, [Next]_vars
             PROVE  NothingOpenBefore'
  BY NextIInv DEF RInv
<1>1. CASE HeaderFails
  BY <1>1 DEF HeaderFails, Fail, NothingOpenBefore
<1>2. CASE TrailerFails
  BY <1>2 DEF TrailerFails, NothingOpenBefore
<1>3. CASE FirstCall
  BY <1>3 DEF FirstCall, NothingOpenBefore
<1>4. CASE NextChild
  BY <1>4 DEF NextChild, NothingOpenBefore
<1>5. CASE EndCollection
  BY <1>5 DEF EndCollection, NothingOpenBefore
<1>6. CASE Finished
  BY <1>6 DEF Finished, NothingOpenBefore
<1>7. CASE UNCHANGED vars
  BY <1>7 DEF vars, RInv, NothingOpenBefore
<1> QED
  BY <1>1, <1>2, <1>3, <1>4, <1>5, <1>6, <1>7 DEF Next, Call

(***************************************************************************)
(* The events of a file, and what they announce.                           *)
(***************************************************************************)
(* A start event announces the elements that are pushed with it, for a      *)
(* dictionary its keys and its values.                                      *)
LEMMA AnnouncedIsDue ==
  ASSUME NEW o \in Object, o.kind \in Type
  PROVE  Stream!Announced(StartEvent(o)) = Len(ChildRefs(o))
<1> DEFINE n == Len(o.refs)
<1>1. n \in Nat /\ Len(ChildRefs(o)) = n /\ (o.kind = "dict" => n % 2 = 0)
  BY ChildRefsType, LenProperties DEF Object
<1> HIDE DEF n
<1>2. n % 2 = 0 => 2 * (n \div 2) = n
  BY <1>1
<1>3. ObjectLen(o) = IF o.kind = "dict" THEN n \div 2 ELSE n
  BY DEF ObjectLen, n
<1>4. StartEvent(o).kind = o.kind /\ StartEvent(o).arg = ObjectLen(o)
  BY DEF StartEvent
<1> QED
  BY <1>1, <1>2, <1>3, <1>4 DEF Stream!Announced

(* Whatever the walk returns is an event of some file.                      *)
LEMMA EventOfFile ==
  ASSUME file \in Files, NEW r \in ObjectRef
  PROVE  /\ file.objects[r].kind \in Type => StartEvent(file.objects[r]) \in FileEvents
         /\ file.objects[r].kind = "value" => ValueEvent(r) \in FileEvents
         /\ EndEvent \in FileEvents
<1> DEFINE e(f, q) == IF f.objects[q].kind \in Type THEN StartEvent(f.objects[q]) ELSE ValueEvent(q)
<1>1. e(file, r) \in { e(file, q) : q \in ObjectRef }
  OBVIOUS
<1>2. { e(file, q) : q \in ObjectRef } \in { { e(f, q) : q \in ObjectRef } : f \in Files }
  OBVIOUS
<1>3. FileEvents = {EndEvent} \cup UNION { { e(f, q) : q \in ObjectRef } : f \in Files }
  BY DEF FileEvents
<1> HIDE DEF e
<1>4. e(file, r) \in FileEvents /\ EndEvent \in FileEvents
  BY <1>1, <1>2, <1>3
<1>5. file.objects[r].kind \in Type => e(file, r) = StartEvent(file.objects[r])
  BY DEF e
<1>6. file.objects[r].kind = "value" => e(file, r) = ValueEvent(r)
  BY DEF e, Type
<1> QED
  BY <1>4, <1>5, <1>6

(***************************************************************************)
(* One call is one step of the stream, or none.                            *)
(***************************************************************************)
(* What is due once a reference is taken from the innermost collection.     *)
LEMMA PoppedOpen ==
  ASSUME IInv, stack # <<>>, Last(stack).child_object_refs # <<>>,
         NEW stk, stk = Append(Front(stack), Popped(Last(stack)))
  PROVE  /\ open # <<>>
         /\ Len(open) = Len(stack)
         /\ open[Len(open)] > 0
         /\ [i \in 1..Len(stk) |-> Len(stk[i].child_object_refs)] =
              [open EXCEPT ![Len(open)] = @ - 1]
<1> DEFINE n == Len(stack)
           top == Last(stack)
           due == top.child_object_refs
<1>1. /\ Front(stack) \in Seq(StackItems)
      /\ Len(Front(stack)) = n - 1
      /\ \A i \in 1..(n - 1) : Front(stack)[i] = stack[i]
      /\ top \in StackItems
      /\ n \in Nat \ {0}
  BY FrontLast DEF IInv, TypeOK
<1>2. Len(stk) = n
  BY PoppedStack DEF IInv, TypeOK
<1>3. due \in Seq(Ref) /\ due # <<>>
  BY <1>1 DEF StackItems
<1>4. Front(due) \in Seq(Ref) /\ Len(Front(due)) = Len(due) - 1 /\ Len(due) \in Nat \ {0}
  BY <1>3, FrontLast
<1>5. Popped(top) \in StackItems /\ Popped(top).child_object_refs = Front(due)
  BY <1>1, <1>4 DEF Popped, StackItems
<1>6. top = stack[n]
  BY DEF Last
<1>7. stk = Append(Front(stack), Popped(top))
  OBVIOUS
<1>8. open = [i \in 1..n |-> Len(stack[i].child_object_refs)]
  BY DEF open
<1> HIDE DEF n, top
<1>9. (\A i \in 1..(n - 1) : stk[i] = stack[i]) /\ stk[n] = Popped(top)
  <2>1. /\ \A i \in 1..(n - 1) : stk[i] = Front(stack)[i]
        /\ stk[n - 1 + 1] = Popped(top)
    BY <1>1, <1>5, <1>7, AppendFacts
  <2> QED
    BY <2>1, <1>1
<1>10. Len(open) = n /\ open[n] = Len(due) /\ n \in 1..n
  BY <1>1, <1>6, <1>8
<1>11. ASSUME NEW i \in 1..n
       PROVE  Len(stk[i].child_object_refs) = [open EXCEPT ![n] = @ - 1][i]
  <2>1. CASE i = n
    BY <2>1, <1>4, <1>5, <1>8, <1>9, <1>10
  <2>2. CASE i # n
    <3>1. i \in 1..(n - 1)
      BY <2>2, <1>1
    <3> QED
      BY <2>2, <3>1, <1>8, <1>9
  <2> QED
    BY <2>1, <2>2
<1>12. [i \in 1..n |-> Len(stk[i].child_object_refs)] = [open EXCEPT ![n] = @ - 1]
  BY <1>8, <1>11
<1>13. open # <<>>
  BY <1>1, <1>10
<1> HIDE DEF due
<1>14. open[n] > 0
  BY <1>4, <1>10
<1> QED
  BY <1>2, <1>10, <1>12, <1>13, <1>14 DEF n

(* Where an element is due, arriving at an object delivers it or fails.     *)
LEMMA ReadObjectStep ==
  ASSUME IInv, NEW r, NEW stk \in Seq(StackItems), NEW onStack,
         onStack \in [ObjectRef -> BOOLEAN],
         ReadObject(r, stk, onStack), initialised', file' = file,
         Stream!ElementDue, phase # "after",
         (open = <<>>) <=> (stk = <<>>),
         Stream!Consumed = [i \in 1..Len(stk) |-> Len(stk[i].child_object_refs)]
  PROVE  Stream!StreamNext
<1>1. CASE Fail(onStack)
  <2>1. open' = <<>> /\ phase' = "after" /\ events' = events
    BY <1>1 DEF Fail, open, phase
  <2> QED
    BY <2>1 DEF Stream!StreamNext, Stream!Fail
<1>2. CASE /\ Readable(r, onStack)
           /\ file.objects[r].kind = "value"
           /\ Return(ValueEvent(r))
           /\ stack' = stk
  <2>1. r \in ObjectRef /\ file \in Files
    BY <1>2 DEF Readable, IInv, TypeOK
  <2>2. ValueEvent(r) \in FileEvents /\ ValueEvent(r).kind = "value"
    BY <1>2, <2>1, EventOfFile DEF ValueEvent
  <2>3. events' = Append(events, ValueEvent(r))
    BY <1>2 DEF Return
  <2>4. open' = Stream!Consumed
    BY <1>2 DEF open
  <2>5. phase' = IF open = <<>> THEN "after" ELSE "inside"
    BY <1>2 DEF phase
  <2> QED
    BY <2>2, <2>3, <2>4, <2>5 DEF Stream!StreamNext, Stream!Scalar, Stream!Deliver
<1>3. CASE /\ Readable(r, onStack)
           /\ file.objects[r].kind \in Type
           /\ stack' = Append(stk, StackItem(r, file.objects[r]))
           /\ Return(StartEvent(file.objects[r]))
  <2> DEFINE o == file.objects[r]
             item == StackItem(r, o)
             n == Len(stk)
             due == [i \in 1..n |-> Len(stk[i].child_object_refs)]
             left == Len(ChildRefs(o))
  <2>1. r \in ObjectRef /\ file \in Files
    BY <1>3 DEF Readable, IInv, TypeOK
  <2>2. o \in Object /\ o.kind \in Type
    BY <1>3, <2>1, FilesAssumption
  <2>3. StartEvent(o) \in FileEvents /\ StartEvent(o).kind \in {"array", "dict"}
    BY <2>1, <2>2, EventOfFile DEF StartEvent, Type
  <2>4. events' = Append(events, StartEvent(o))
    BY <1>3 DEF Return
  <2>5. r \in Ref /\ ChildRefs(o) \in Seq(Ref)
    BY <2>1, <2>2, ChildRefsType, NumObjectsAssumption DEF ObjectRef, Ref
  <2>6. item \in StackItems /\ item.child_object_refs = ChildRefs(o)
    BY <2>2, <2>5 DEF StackItem, StackItems
  <2>7. /\ n \in Nat
        /\ Len(stack') = n + 1 /\ stack' # <<>>
        /\ \A i \in 1..n : stack'[i] = stk[i]
        /\ stack'[n + 1] = item
    BY <1>3, <2>6, AppendFacts, LenProperties
  <2>8. ASSUME NEW i \in 1..n
        PROVE  Len(stk[i].child_object_refs) \in Nat
    <3>1. stk[i] \in StackItems
      BY ElementOfSeq
    <3> QED
      BY <3>1, LenProperties DEF StackItems
  <2>9. left \in Nat
    BY <2>5, LenProperties
  <2> HIDE DEF item, n, left
  <2>10. due \in Seq(Nat) /\ Len(due) = n
    BY <2>7, <2>8
  <2>11. open' = [i \in 1..(n + 1) |-> Len(stack'[i].child_object_refs)]
    BY <2>7 DEF open
  <2>12. open' = Append(due, left)
    <3> HIDE DEF due
    <3>1. /\ Append(due, left) \in Seq(Nat)
          /\ Len(Append(due, left)) = n + 1
          /\ \A i \in 1..n : Append(due, left)[i] = due[i]
          /\ Append(due, left)[n + 1] = left
      BY <2>9, <2>10, AppendFacts
    <3>2. ASSUME NEW i \in 1..(n + 1)
          PROVE  open'[i] = Append(due, left)[i]
      <4>1. CASE i = n + 1
        BY <4>1, <2>6, <2>7, <2>11, <3>1 DEF left
      <4>2. CASE i # n + 1
        <5>1. i \in 1..n
          BY <4>2, <2>7
        <5> QED
          BY <5>1, <2>7, <2>11, <3>1 DEF due
      <4> QED
        BY <4>1, <4>2
    <3>3. open' \in Seq(Nat) /\ Len(open') = n + 1
      <4>1. \A i \in 1..(n + 1) : Append(due, left)[i] \in Nat
        BY <3>1, ElementOfSeq
      <4>2. \A i \in 1..(n + 1) : Len(stack'[i].child_object_refs) \in Nat
        BY <4>1, <3>2, <2>11
      <4> QED
        BY <4>2, <2>7, <2>11
    <3> QED
      BY <3>1, <3>2, <3>3, SeqEqual
  <2>13. Stream!Announced(StartEvent(o)) = left
    BY <2>2, AnnouncedIsDue DEF left
  <2>14. phase' = "inside"
    BY <2>7 DEF phase
  <2>15. due = Stream!Consumed
    BY DEF n
  <2> HIDE DEF o, due
  <2> QED
    BY <2>3, <2>4, <2>12, <2>13, <2>14, <2>15
    DEF Stream!StreamNext, Stream!StartCollection, Stream!Deliver
<1> QED
  BY <1>1, <1>2, <1>3 DEF ReadObject

(* Every step of the reader is one of the stream, or leaves it alone.       *)
LEMMA NextStep == RInv /\ [Next]_vars => [Stream!StreamNext]_Stream!streamVars
<1> SUFFICES ASSUME RInv, [Next]_vars
             PROVE  Stream!StreamNext \/ UNCHANGED <<phase, open, events>>
  BY DEF Stream!streamVars
<1>0. IInv
  BY DEF RInv
<1>1. CASE HeaderFails
  <2>1. stack' = stack /\ events' = events /\ initialised' = initialised
    BY <1>1 DEF HeaderFails, Fail, RInv, NothingOpenBefore
  <2> QED
    BY <2>1 DEF phase, open
<1>2. CASE TrailerFails
  <2>1. phase = "before" /\ phase' = "after" /\ open' = <<>> /\ events' = events
    BY <1>2 DEF TrailerFails, Fail, phase, open
  <2> QED
    BY <2>1 DEF Stream!StreamNext, Stream!Fail
<1>3. CASE FirstCall
  <2>1. stack = <<>> /\ phase = "before" /\ open = <<>>
    BY <1>3 DEF FirstCall, RInv, NothingOpenBefore, phase, open
  <2>2. Stream!ElementDue /\ Stream!Consumed = <<>>
    BY <2>1 DEF Stream!ElementDue, Stream!Consumed
  <2>3. <<>> \in Seq(StackItems) /\ NoneOnStack \in [ObjectRef -> BOOLEAN]
    BY EmptySeq DEF NoneOnStack
  <2>4. [i \in 1..Len(<<>>) |-> Len(<<>>[i].child_object_refs)] = <<>>
    OBVIOUS
  <2>5. ReadObject(file.root, <<>>, NoneOnStack) /\ initialised' /\ file' = file
    BY <1>3 DEF FirstCall
  <2> QED
    BY <1>0, <2>1, <2>2, <2>3, <2>4, <2>5, ReadObjectStep
<1>4. CASE NextChild
  <2> DEFINE stk == Append(Front(stack), Popped(Last(stack)))
             r == Last(Last(stack).child_object_refs)
  <2>1. stk \in Seq(StackItems) /\ stk # <<>>
    BY <1>4, PoppedStack DEF NextChild, RInv, IInv, TypeOK
  <2>2. /\ open # <<>> /\ open[Len(open)] > 0
        /\ [i \in 1..Len(stk) |-> Len(stk[i].child_object_refs)] =
              [open EXCEPT ![Len(open)] = @ - 1]
    BY <1>0, <1>4, PoppedOpen DEF NextChild
  <2>3. phase = "inside"
    BY <1>4 DEF NextChild, phase
  <2>4. object_on_stack \in [ObjectRef -> BOOLEAN]
    BY <1>4 DEF NextChild, RInv, IInv, FlagsMatchStack, FlagsMatch
  <2>5. ReadObject(r, stk, object_on_stack) /\ initialised' /\ file' = file
    BY <1>4 DEF NextChild
  <2> HIDE DEF stk, r
  <2>6. Stream!ElementDue
    BY <2>2, <2>3 DEF Stream!ElementDue
  <2>7. Stream!Consumed = [i \in 1..Len(stk) |-> Len(stk[i].child_object_refs)]
    BY <2>2 DEF Stream!Consumed
  <2> QED
    BY <1>0, <2>1, <2>2, <2>3, <2>4, <2>5, <2>6, <2>7, ReadObjectStep
<1>5. CASE EndCollection
  <2> DEFINE n == Len(stack)
             rest == Front(stack)
  <2>1. /\ rest \in Seq(StackItems)
        /\ Len(rest) = n - 1
        /\ \A i \in 1..(n - 1) : rest[i] = stack[i]
        /\ n \in Nat \ {0}
    BY <1>5, FrontLast DEF EndCollection, RInv, IInv, TypeOK
  <2>2. Last(stack) = stack[n] /\ Last(stack).child_object_refs = <<>>
    BY <1>5 DEF EndCollection, Last
  <2>3. open = [i \in 1..n |-> Len(stack[i].child_object_refs)]
    BY DEF open
  <2>4. stack' = rest /\ initialised' = initialised /\ initialised
    BY <1>5 DEF EndCollection
  <2>5. open' = [i \in 1..(n - 1) |-> Len(rest[i].child_object_refs)]
    BY <2>1, <2>4 DEF open
  <2>6. phase = "inside"
    BY <1>5 DEF EndCollection, phase
  <2>7. (rest = <<>>) <=> (n - 1 = 0)
    BY <2>1, EmptySeq
  <2>8. phase' = IF n - 1 = 0 THEN "after" ELSE "inside"
    BY <2>4, <2>7 DEF phase
  <2>9. ASSUME NEW i \in 1..n
        PROVE  Len(stack[i].child_object_refs) \in Nat
    <3>1. stack \in Seq(StackItems)
      BY DEF RInv, IInv, TypeOK
    <3>2. stack[i] \in StackItems
      BY <3>1, ElementOfSeq
    <3> QED
      BY <3>2, LenProperties DEF StackItems
  <2>10. events' = Append(events, EndEvent)
    BY <1>5 DEF EndCollection, Return
  <2>11. EndEvent \in FileEvents /\ EndEvent.kind = "end"
    BY DEF FileEvents, EndEvent
  <2> HIDE DEF n, rest
  <2>12. Len(open) = n /\ open[n] = 0
    BY <2>1, <2>2, <2>3
  <2>13. open' = SubSeq(open, 1, n - 1)
    <3>1. \A i \in 1..(n - 1) : open[i] \in Nat /\ open[i] = Len(rest[i].child_object_refs)
      BY <2>1, <2>3, <2>9
    <3>2. /\ SubSeq(open, 1, n - 1) \in Seq(Nat)
          /\ Len(SubSeq(open, 1, n - 1)) = IF 1 <= n - 1 THEN n - 1 - 1 + 1 ELSE 0
          /\ \A i \in 1..(n - 1 - 1 + 1) : SubSeq(open, 1, n - 1)[i] = open[1 + i - 1]
      BY <3>1, <2>1, SubSeqProperties
    <3>3. /\ Len(SubSeq(open, 1, n - 1)) = n - 1
          /\ \A i \in 1..(n - 1) : SubSeq(open, 1, n - 1)[i] = open[i]
      BY <3>2, <2>1
    <3>4. open' \in Seq(Nat) /\ Len(open') = n - 1
      BY <3>1, <2>1, <2>5
    <3>5. \A i \in 1..(n - 1) : open'[i] = SubSeq(open, 1, n - 1)[i]
      BY <3>1, <3>3, <2>5
    <3> QED
      BY <2>1, <3>2, <3>3, <3>4, <3>5, SeqEqual
  <2>14. phase' = IF Len(open) = 1 THEN "after" ELSE "inside"
    BY <2>1, <2>8, <2>12
  <2> QED
    BY <2>6, <2>10, <2>11, <2>12, <2>13, <2>14
    DEF Stream!StreamNext, Stream!EndCollection, Stream!Deliver
<1>6. CASE Finished \/ UNCHANGED vars
  <2>1. stack' = stack /\ events' = events /\ initialised' = initialised
    BY <1>6 DEF Finished, vars
  <2> QED
    BY <2>1 DEF phase, open
<1> QED
  BY <1>1, <1>2, <1>3, <1>4, <1>5, <1>6 DEF Next, Call

(* The reader implements the event stream, for every set of files: however  *)
(* broken or cyclic the file, its events nest, every collection delivers    *)
(* exactly the elements it announced, one root is delivered, and nothing    *)
(* after an error.                                                          *)
THEOREM ImplementsStream == Spec => StreamSafety
<1>1. Init => Stream!StreamInit
  BY DEF Init, Stream!StreamInit, phase, open
<1> QED
  BY <1>1, InitRInv, NextRInv, NextStep, PTL
  DEF Spec, StreamSafety, Stream!StreamSpec

=============================================================================
