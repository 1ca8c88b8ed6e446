------------------------------- MODULE XmlProofs -------------------------------
(***************************************************************************)
(* What is proved of the XML writer and reader, for all values and however *)
(* many calls are made.                                                    *)
(*                                                                         *)
(* ImplementsSink: the writer implements the event sink, as long as the    *)
(* client opens and closes no collection where a key is due (EmptyKeys =   *)
(* FALSE): a collection that is closed at once is written without that     *)
(* check.                                                                  *)
(* CollectionsMatch: of any document, the events leave open what the tags  *)
(* leave open.                                                             *)
(* OutputNests: the tags written nest properly.                            *)
(* ReadsBackWritten: what has been written is read back as it was written. *)
(***************************************************************************)
EXTENDS XmlRoundTrip, SequenceLemmas

Collections == {"array", "dict"}
Frames == {"array", "key", "value"}

(***************************************************************************)
(* The inductive invariant.                                                *)
(***************************************************************************)
WriterTypeOK ==
  /\ stack \in Seq(Collections)
  /\ expecting_key \in BOOLEAN
  /\ pending_collection \in Collections \cup {"none"}
  /\ taken \in Collections \cup {"none"}
  /\ request \in Calls \cup {NoCall}
  /\ call \in Calls
  /\ verdict \in {"none", "ok", "illegal", "failed"}

(* A key is expected in a dictionary only; after an error nothing is.       *)
KeyInDictionary == Usable /\ expecting_key => InDictionary(stack)

(* A call is under way only while there has been no error.                  *)
RequestUsable == request # NoCall => Usable

(* A pending collection is taken by an "end", which closes it, and not      *)
(* where a key is due.                                                      *)
TakenByEnd ==
  /\ taken # "none" =>
       request.kind = "end" /\ pending_collection = "none" /\ ~expecting_key
  /\ request.kind = "end" /\ pending_collection # "none" => ~expecting_key

WInv == WriterTypeOK /\ KeyInDictionary /\ RequestUsable /\ TakenByEnd

(* A writer that has not been called yet satisfies it.                      *)
LEMMA InitWInv == Init => WInv
<1> SUFFICES ASSUME Init
             PROVE  WInv
  OBVIOUS
<1>1. stack \in Seq(Collections)
  BY EmptySeq DEF Init
<1>2. WriterTypeOK
  BY <1>1 DEF Init, WriterTypeOK, Calls, NoCall
<1>3. KeyInDictionary /\ RequestUsable /\ TakenByEnd
  BY DEF Init, KeyInDictionary, RequestUsable, TakenByEnd, Usable
<1> QED
  BY <1>2, <1>3 DEF WInv

(* The step of a call that writes: whether it succeeds or breaks.           *)
LEMMA WriteEventType ==
  ASSUME WInv, NEW e \in Calls, NEW tags, NEW before \in Seq(Collections),
         NEW opened \in Seq(Collections), NEW key \in BOOLEAN,
         key => InDictionary(opened),
         NEW next \in Calls \cup {NoCall},
         WriteEvent(e, tags, before, opened, key, next)
  PROVE  /\ stack' \in Seq(Collections)
         /\ expecting_key' \in BOOLEAN
         /\ request' \in Calls \cup {NoCall}
         /\ call' = e
         /\ \/ verdict' = "failed" /\ request' = NoCall
            \/ verdict' = "ok" /\ stack' = opened /\ expecting_key' = key /\ request' = next
<1>1. CASE Broken(e, tags, before, opened, key)
  <2>1. verdict' = "failed" /\ request' = NoCall /\ call' = e
    BY <1>1 DEF Broken, Done
  <2>2. stack' \in Seq(Collections) /\ expecting_key' \in BOOLEAN
    BY <1>1 DEF Broken, state, WInv, WriterTypeOK
  <2> QED
    BY <2>1, <2>2
<1>2. CASE ~Broken(e, tags, before, opened, key)
  BY <1>2 DEF WriteEvent, Done
<1> QED
  BY <1>1, <1>2

(* Pushing a collection, and taking the innermost one off.                  *)
LEMMA StackFacts ==
  ASSUME WInv
  PROVE  /\ \A ty \in Collections :
              /\ Pushed(ty) \in Seq(Collections)
              /\ InDictionary(Pushed(ty)) <=> ty = "dict"
         /\ stack # <<>> =>
              /\ Front(stack) \in Seq(Collections)
              /\ Last(stack) \in Collections
         /\ <<>> \in Seq(Collections)
         /\ ~InDictionary(<<>>)
<1>1. stack \in Seq(Collections)
  BY DEF WInv, WriterTypeOK
<1>2. ASSUME NEW ty \in Collections
      PROVE  /\ Pushed(ty) \in Seq(Collections)
             /\ InDictionary(Pushed(ty)) <=> ty = "dict"
  <2>1. /\ Pushed(ty) \in Seq(Collections) /\ Pushed(ty) # <<>>
        /\ Len(Pushed(ty)) = Len(stack) + 1
        /\ Pushed(ty)[Len(stack) + 1] = ty
    BY <1>1, AppendFacts DEF Pushed
  <2> QED
    BY <2>1 DEF InDictionary, Last
<1>3. stack # <<>> => Front(stack) \in Seq(Collections) /\ Last(stack) \in Collections
  BY <1>1, FrontLast
<1> QED
  BY <1>2, <1>3, EmptySeq DEF InDictionary

(* InDictionary is a Boolean.                                               *)
LEMMA InDictionaryType == \A s : InDictionary(s) \in BOOLEAN
  BY DEF InDictionary

(* Every call keeps the invariant.                                          *)
LEMMA NextWInv == ~EmptyKeys /\ WInv /\ [Next]_vars => WInv'
<1> SUFFICES ASSUME ~EmptyKeys, WInv, [Next]_vars
             PROVE  WInv'
  OBVIOUS
<1> USE InDictionaryType
<1>0. /\ stack \in Seq(Collections) /\ expecting_key \in BOOLEAN
      /\ pending_collection \in Collections \cup {"none"}
      /\ taken \in Collections \cup {"none"}
      /\ request \in Calls \cup {NoCall} /\ call \in Calls
  BY DEF WInv, WriterTypeOK
<1>a. \A ty \in Collections : [kind |-> ty, arg |-> 0] \in Calls
  BY DEF Calls, Collections
<1>1. ASSUME NEW e \in Calls, Submit(e)
      PROVE  WInv'
  <2>1. /\ stack' = stack /\ expecting_key' = expecting_key /\ taken' = taken
        /\ pending_collection' = pending_collection
        /\ Usable /\ request = NoCall
    BY <1>1 DEF Submit, state
  <2>2. taken = "none"
    BY <2>1 DEF WInv, TakenByEnd, NoCall
  <2>3. CASE e.kind = "value" /\ e.arg \in Uids
    <3>1. call' = e /\ verdict' = "failed" /\ request' = request
      BY <1>1, <2>3 DEF Submit
    <3> QED
      BY <1>0, <2>1, <2>2, <3>1
      DEF WInv, WriterTypeOK, KeyInDictionary, RequestUsable, TakenByEnd, Usable, NoCall
  <2>4. CASE ~(e.kind = "value" /\ e.arg \in Uids)
    <3>1. call' = call /\ verdict' = verdict /\ request' = e
      BY <1>1, <2>4 DEF Submit
    <3>2. e.kind = "end" /\ pending_collection # "none" => ~expecting_key
      BY <1>1 DEF Submit
    <3> QED
      BY <1>0, <2>1, <2>2, <3>1, <3>2
      DEF WInv, WriterTypeOK, KeyInDictionary, RequestUsable, TakenByEnd, Usable
  <2> QED
    BY <2>3, <2>4
<1>2. CASE StartPending
  <2> DEFINE ty == pending_collection
             e == [kind |-> ty, arg |-> 0]
  <2>1. /\ ty \in Collections /\ e \in Calls /\ pending_collection' = "none"
        /\ taken' = "none" /\ Usable
    BY <1>0, <1>a, <1>2 DEF StartPending, WInv, RequestUsable, TakenByEnd
  <2>2. CASE expecting_key
    <3>1. Refused(e, stack)
      BY <1>2, <2>2 DEF StartPending
    <3> QED
      BY <1>0, <2>1, <3>1
      DEF Refused, Done, WInv, WriterTypeOK, KeyInDictionary, RequestUsable, TakenByEnd, Usable
  <2>3. CASE ~expecting_key
    <3>1. WriteEvent(e, <<Token("start", ty)>>, stack, Pushed(ty), InDictionary(Pushed(ty)),
                     request)
      BY <1>2, <2>3 DEF StartPending
    <3>2. Pushed(ty) \in Seq(Collections)
      BY <2>1, StackFacts
    <3>3. /\ stack' \in Seq(Collections)
          /\ expecting_key' \in BOOLEAN
          /\ request' \in Calls \cup {NoCall}
          /\ call' = e
          /\ \/ verdict' = "failed" /\ request' = NoCall
             \/ /\ verdict' = "ok" /\ stack' = Pushed(ty)
                /\ expecting_key' = InDictionary(Pushed(ty)) /\ request' = request
      BY <1>0, <2>1, <3>1, <3>2, WriteEventType
    <3> QED
      BY <2>1, <3>3
      DEF WInv, WriterTypeOK, KeyInDictionary, RequestUsable, TakenByEnd, Usable
  <2> QED
    BY <2>2, <2>3
<1>3. CASE WriteStartCollection
  BY <1>0, <1>3
  DEF WriteStartCollection, state, WInv, WriterTypeOK, KeyInDictionary, RequestUsable,
      TakenByEnd, Usable, Collections, NoCall
<1>4. CASE TakePending
  <2>1. /\ stack' = stack /\ expecting_key' = expecting_key /\ request' = request
        /\ taken' = pending_collection /\ pending_collection' = "none"
        /\ call' = [kind |-> pending_collection, arg |-> 0] /\ verdict' = "ok"
        /\ request.kind = "end" /\ pending_collection \in Collections
    BY <1>0, <1>4 DEF TakePending, Done, state
  <2>2. ~expecting_key /\ call' \in Calls
    BY <1>a, <2>1 DEF WInv, TakenByEnd, Collections
  <2> QED
    BY <1>0, <2>1, <2>2
    DEF WInv, WriterTypeOK, KeyInDictionary, RequestUsable, TakenByEnd, Usable
<1>5. CASE WriteEmpty
  <2>1. /\ request.kind = "end" /\ pending_collection' = "none" /\ taken' = "none"
    BY <1>5 DEF WriteEmpty, WInv, TakenByEnd
  <2>2. request \in Calls
    BY <1>0, <2>1 DEF NoCall
  <2>3. WriteEvent(request, Element(taken, <<>>), stack, stack, InDictionary(stack), NoCall)
    BY <1>5 DEF WriteEmpty
  <2>4. /\ stack' \in Seq(Collections)
        /\ expecting_key' \in BOOLEAN
        /\ request' \in Calls \cup {NoCall}
        /\ call' = request
        /\ \/ verdict' = "failed" /\ request' = NoCall
           \/ /\ verdict' = "ok" /\ stack' = stack
              /\ expecting_key' = InDictionary(stack) /\ request' = NoCall
    BY <1>0, <2>2, <2>3, WriteEventType
  <2> QED
    BY <2>1, <2>2, <2>4
    DEF WInv, WriterTypeOK, KeyInDictionary, RequestUsable, TakenByEnd, Usable
<1>6. CASE WriteEndCollection
  <2> DEFINE rest == IF stack = <<>> THEN <<>> ELSE Front(stack)
  <2>1. /\ request.kind = "end" /\ pending_collection' = "none" /\ taken' = "none"
    BY <1>6 DEF WriteEndCollection
  <2>2. request \in Calls /\ rest \in Seq(Collections)
    BY <1>0, <2>1, StackFacts DEF NoCall
  <2>3. CASE Closable
    <3>1. WriteEvent(request, <<Token("end", Last(stack))>>, rest, rest,
                     InDictionary(rest), NoCall)
      BY <1>6, <2>3 DEF WriteEndCollection
    <3> HIDE DEF rest
    <3>2. /\ stack' \in Seq(Collections)
          /\ expecting_key' \in BOOLEAN
          /\ request' \in Calls \cup {NoCall}
          /\ call' = request
          /\ \/ verdict' = "failed" /\ request' = NoCall
             \/ /\ verdict' = "ok" /\ stack' = rest
                /\ expecting_key' = InDictionary(rest) /\ request' = NoCall
      BY <2>2, <3>1, WriteEventType
    <3> QED
      BY <2>1, <2>2, <3>2
      DEF WInv, WriterTypeOK, KeyInDictionary, RequestUsable, TakenByEnd, Usable
  <2>4. CASE ~Closable
    <3>1. Refused(request, rest)
      BY <1>6, <2>4 DEF WriteEndCollection
    <3> QED
      BY <1>0, <2>1, <2>2, <3>1
      DEF Refused, Done, WInv, WriterTypeOK, KeyInDictionary, RequestUsable, TakenByEnd, Usable
  <2> QED
    BY <2>3, <2>4
<1>7. CASE WriteValue
  <2>1. /\ request.kind = "value" /\ pending_collection' = "none" /\ taken' = "none"
    BY <1>7 DEF WriteValue, WInv, TakenByEnd
  <2>2. request \in Calls
    BY <1>0, <2>1 DEF NoCall
  <2>3. CASE expecting_key /\ request.arg \notin Strings
    <3>1. Refused(request, stack)
      BY <1>7, <2>3 DEF WriteValue
    <3> QED
      BY <1>0, <2>1, <2>2, <3>1
      DEF Refused, Done, WInv, WriterTypeOK, KeyInDictionary, RequestUsable, TakenByEnd, Usable
  <2>4. CASE ~(expecting_key /\ request.arg \notin Strings)
    <3> DEFINE key == ~expecting_key /\ KeyAfterValue
    <3>1. WriteEvent(request, ValueElement(request.arg), stack, stack, key, NoCall)
      BY <1>7, <2>4 DEF WriteValue
    <3>2. key \in BOOLEAN /\ (key => InDictionary(stack))
      BY DEF KeyAfterValue
    <3> HIDE DEF key
    <3>3. /\ stack' \in Seq(Collections)
          /\ expecting_key' \in BOOLEAN
          /\ request' \in Calls \cup {NoCall}
          /\ call' = request
          /\ \/ verdict' = "failed" /\ request' = NoCall
             \/ verdict' = "ok" /\ stack' = stack /\ expecting_key' = key /\ request' = NoCall
      BY <1>0, <2>2, <3>1, <3>2, WriteEventType
    <3> QED
      BY <2>1, <2>2, <3>2, <3>3
      DEF WInv, WriterTypeOK, KeyInDictionary, RequestUsable, TakenByEnd, Usable
  <2> QED
    BY <2>3, <2>4
<1>8. CASE Rest \/ UNCHANGED vars
  BY <1>0, <1>8
  DEF Rest, vars, state, WInv, WriterTypeOK, KeyInDictionary, RequestUsable, TakenByEnd, Usable
<1> QED
  BY <1>1, <1>2, <1>3, <1>4, <1>5, <1>6, <1>7, <1>8 DEF Next, Perform

(***************************************************************************)
(* What each open collection expects.                                      *)
(***************************************************************************)
(* The collections els are open and the innermost, a dictionary, expects    *)
(* what is due; every other dictionary waits for the next key.              *)
Expects(els, due) ==
  [d \in 1..Len(els) |-> IF els[d] = "array" THEN "array"
                         ELSE IF d < Len(els) THEN "key" ELSE due]

Due == IF expecting_key \/ taken # "none" THEN "key" ELSE "value"

(* What the elements expect is a sequence of expectations.                  *)
LEMMA ExpectsType ==
  ASSUME NEW els \in Seq(Collections), NEW due \in {"key", "value"}
  PROVE  /\ Expects(els, due) \in Seq(Frames)
         /\ Len(Expects(els, due)) = Len(els)
         /\ (Expects(els, due) = <<>>) <=> (els = <<>>)
<1> DEFINE n == Len(els)
           x == Expects(els, due)
<1>1. n \in Nat /\ \A d \in 1..n : els[d] \in Collections
  BY ElementOfSeq, LenProperties
<1>2. x = [d \in 1..n |-> IF els[d] = "array" THEN "array"
                          ELSE IF d < n THEN "key" ELSE due]
  BY DEF Expects
<1>3. (els = <<>>) <=> (n = 0)
  BY EmptyIffZero
<1> HIDE DEF n, x
<1>4. \A d \in 1..n : x[d] \in Frames
  BY <1>1, <1>2 DEF Collections, Frames
<1>5. x \in Seq(Frames) /\ Len(x) = n
  BY <1>1, <1>2, <1>4
<1>6. (x = <<>>) <=> (n = 0)
  BY <1>5, EmptyIffZero
<1> QED
  BY <1>3, <1>5, <1>6 DEF n, x

(* The collections the sink sees, in terms of the writer's state.           *)
LEMMA ElementsType ==
  ASSUME WInv
  PROVE  /\ Elements \in Seq(Collections)
         /\ Due \in {"key", "value"}
         /\ [d \in 1..Len(Elements) |-> Frame(d)] = Expects(Elements, Due)
<1>1. Elements \in Seq(Collections)
  BY AppendFacts DEF Elements, WInv, WriterTypeOK
<1>2. \A d \in 1..Len(Elements) : Elements[d] \in Collections
  BY <1>1, ElementOfSeq
<1>3. Len(Elements) \in Nat
  BY <1>1, LenProperties
<1>4. ASSUME NEW d \in 1..Len(Elements)
      PROVE  Frame(d) = IF Elements[d] = "array" THEN "array"
                        ELSE IF d < Len(Elements) THEN "key" ELSE Due
  <2>1. Elements[d] \in {"array", "dict"}
    BY <1>2 DEF Collections
  <2>2. CASE Elements[d] = "array"
    BY <2>2 DEF Frame
  <2>3. CASE Elements[d] = "dict" /\ (d < Len(Elements) \/ taken # "none")
    BY <2>3 DEF Frame, Due
  <2>4. CASE Elements[d] = "dict" /\ d = Len(Elements) /\ taken = "none"
    BY <1>3, <2>4 DEF Frame, Due
  <2> QED
    BY <1>3, <2>1, <2>2, <2>3, <2>4
<1>5. [d \in 1..Len(Elements) |-> Frame(d)] = Expects(Elements, Due)
  BY <1>4 DEF Expects
<1>6. Due \in {"key", "value"}
  BY DEF Due
<1> QED
  BY <1>1, <1>5, <1>6

(* What the innermost collection expects, and how it turns.                 *)
LEMMA TurnedExpects ==
  ASSUME NEW els \in Seq(Collections), NEW due \in {"key", "value"},
         NEW after \in {"key", "value"},
         els # <<>> /\ Last(els) = "dict" => after # due
  PROVE  /\ els # <<>> => Sink!Innermost(Expects(els, due)) =
                            IF Last(els) = "dict" THEN due ELSE "array"
         /\ Sink!Turned(Expects(els, due)) = Expects(els, after)
<1> DEFINE n == Len(els)
           x == Expects(els, due)
           y == Expects(els, after)
<1>1. /\ x \in Seq(Frames) /\ Len(x) = n /\ (x = <<>> <=> els = <<>>)
      /\ y \in Seq(Frames) /\ Len(y) = n /\ (y = <<>> <=> els = <<>>)
  BY ExpectsType
<1>2. /\ x = [d \in 1..n |-> IF els[d] = "array" THEN "array"
                             ELSE IF d < n THEN "key" ELSE due]
      /\ y = [d \in 1..n |-> IF els[d] = "array" THEN "array"
                             ELSE IF d < n THEN "key" ELSE after]
  BY DEF Expects
<1>3. n \in Nat /\ (els = <<>> <=> n = 0) /\ \A d \in 1..n : els[d] \in {"array", "dict"}
  BY EmptyIffZero, ElementOfSeq DEF Collections
<1>4. Last(els) = els[n]
  BY DEF Last
<1>5. els # <<>> /\ els[n] = "dict" => after # due
  BY <1>4
<1> HIDE DEF n, x, y
<1>6. CASE els = <<>>
  BY <1>1, <1>6 DEF Sink!Turned, x, y
<1>7. CASE els # <<>> /\ els[n] = "array"
  <2>1. n \in 1..n
    BY <1>3, <1>7
  <2>2. Sink!Innermost(x) = "array"
    BY <1>1, <1>2, <1>7, <2>1 DEF Sink!Innermost
  <2>3. Sink!Turned(x) = x
    BY <1>1, <1>7, <2>2 DEF Sink!Turned
  <2>4. x = y
    BY <1>2, <1>3, <1>7
  <2> QED
    BY <1>4, <1>7, <2>2, <2>3, <2>4 DEF x, y
<1>8. CASE els # <<>> /\ els[n] = "dict"
  <2>1. n \in 1..n
    BY <1>3, <1>8
  <2>2. Sink!Innermost(x) = due
    BY <1>1, <1>2, <1>8, <2>1 DEF Sink!Innermost
  <2>3. Sink!Turned(x) = [x EXCEPT ![n] = after]
    <3>1. due # after /\ x # <<>>
      BY <1>1, <1>5, <1>8
    <3>2. CASE due = "key"
      <4>1. after = "value"
        BY <3>1, <3>2
      <4> QED
        BY <1>1, <2>2, <3>1, <3>2, <4>1 DEF Sink!Turned
    <3>3. CASE due = "value"
      <4>1. after = "key"
        BY <3>1, <3>3
      <4> QED
        BY <1>1, <2>2, <3>1, <3>3, <4>1 DEF Sink!Turned
    <3> QED
      BY <3>2, <3>3
  <2>4. [x EXCEPT ![n] = after] = y
    BY <1>2, <1>3, <1>8, SMTT(40)
  <2> QED
    BY <1>4, <1>8, <2>2, <2>3, <2>4 DEF x, y
<1> QED
  BY <1>3, <1>6, <1>7, <1>8

(* A collection opened inside the others.                                   *)
LEMMA PushedExpects ==
  ASSUME NEW els \in Seq(Collections), NEW ty \in Collections
  PROVE  /\ Append(els, ty) \in Seq(Collections)
         /\ Expects(Append(els, ty), "key") =
              Append(Expects(els, "key"), IF ty = "array" THEN "array" ELSE "key")
<1> DEFINE n == Len(els)
           new == Append(els, ty)
           f == IF ty = "array" THEN "array" ELSE "key"
           x == Expects(els, "key")
           y == Expects(new, "key")
<1>1. /\ new \in Seq(Collections) /\ Len(new) = n + 1 /\ n \in Nat
      /\ \A d \in 1..n : new[d] = els[d]
      /\ new[n + 1] = ty
  BY AppendFacts
<1>2. x \in Seq(Frames) /\ Len(x) = n
  BY ExpectsType
<1>3. y \in Seq(Frames) /\ Len(y) = n + 1
  BY <1>1, ExpectsType
<1>4. f \in Frames
  BY DEF Frames
<1>5. x = [d \in 1..n |-> IF els[d] = "array" THEN "array"
                          ELSE IF d < n THEN "key" ELSE "key"]
  BY DEF Expects
<1>6. y = [d \in 1..Len(new) |-> IF new[d] = "array" THEN "array"
                                 ELSE IF d < Len(new) THEN "key" ELSE "key"]
  BY DEF Expects
<1> HIDE DEF n, new, x, y
<1>7. /\ Append(x, f) \in Seq(Frames) /\ Len(Append(x, f)) = n + 1
      /\ \A d \in 1..n : Append(x, f)[d] = x[d]
      /\ Append(x, f)[n + 1] = f
  BY <1>2, <1>4, AppendFacts
<1>8. ASSUME NEW d \in 1..(n + 1)
      PROVE  y[d] = Append(x, f)[d]
  <2>1. CASE d = n + 1
    BY <2>1, <1>1, <1>6, <1>7
  <2>2. CASE d # n + 1
    <3>1. d \in 1..n
      BY <2>2, <1>1
    <3> QED
      BY <3>1, <1>1, <1>5, <1>6, <1>7
  <2> QED
    BY <2>1, <2>2
<1>9. y = Append(x, f)
  BY <1>3, <1>7, <1>8, SeqEqual
<1> QED
  BY <1>1, <1>9 DEF new, x, y

(* The innermost collection closed.                                         *)
LEMMA PoppedExpects ==
  ASSUME NEW els \in Seq(Collections), NEW due \in {"key", "value"}, els # <<>>
  PROVE  Expects(Front(els), "key") =
           SubSeq(Expects(els, due), 1, Len(Expects(els, due)) - 1)
<1> DEFINE n == Len(els)
           rest == Front(els)
           x == Expects(els, due)
           y == Expects(rest, "key")
           z == SubSeq(x, 1, n - 1)
<1>1. /\ rest \in Seq(Collections) /\ Len(rest) = n - 1 /\ n \in Nat \ {0}
      /\ \A d \in 1..(n - 1) : rest[d] = els[d]
  BY FrontLast
<1>2. x \in Seq(Frames) /\ Len(x) = n
  BY ExpectsType
<1>3. y \in Seq(Frames) /\ Len(y) = n - 1
  BY <1>1, ExpectsType
<1>4. x = [d \in 1..n |-> IF els[d] = "array" THEN "array"
                          ELSE IF d < n THEN "key" ELSE due]
  BY DEF Expects
<1>5. y = [d \in 1..Len(rest) |-> IF rest[d] = "array" THEN "array"
                                  ELSE IF d < Len(rest) THEN "key" ELSE "key"]
  BY DEF Expects
<1> HIDE DEF n, rest, x, y
<1>6. \A d \in 1..(n - 1) : x[d] \in Frames
  BY <1>1, <1>2, ElementOfSeq
<1>7. /\ z \in Seq(Frames) /\ Len(z) = IF 1 <= n - 1 THEN n - 1 - 1 + 1 ELSE 0
      /\ \A d \in 1..(n - 1 - 1 + 1) : z[d] = x[1 + d - 1]
  BY <1>1, <1>6, SubSeqProperties
<1> HIDE DEF z
<1>8. Len(z) = n - 1 /\ \A d \in 1..(n - 1) : z[d] = x[d]
  BY <1>1, <1>7
<1>9. ASSUME NEW d \in 1..(n - 1)
      PROVE  y[d] = z[d]
  <2>1. d \in 1..n /\ d < n /\ rest[d] = els[d] /\ z[d] = x[d] /\ d \in 1..Len(rest)
    BY <1>1, <1>8
  <2> QED
    BY <2>1, <1>4, <1>5
<1>10. y = z
  BY <1>1, <1>3, <1>7, <1>8, <1>9, SeqEqual
<1> QED
  BY <1>2, <1>10 DEF rest, x, y, z

(***************************************************************************)
(* One action of the writer is one step of the sink, or none.              *)
(***************************************************************************)
Open == IF Usable THEN [d \in 1..Len(Elements) |-> Frame(d)] ELSE <<>>

(* A call that is accepted is one the sink accepts,                         *)
LEMMA AcceptStep ==
  ASSUME WInv, WInv', Usable, NEW e \in Calls, call' = e, verdict' = "ok",
         Sink!LegalIn(Expects(Elements, Due), e),
         Expects(Elements', Due') = Sink!AfterIn(Expects(Elements, Due), e)
  PROVE  Sink!SinkNext
<1>1. Open = Expects(Elements, Due)
  BY ElementsType DEF Open
<1>2. Open' = Expects(Elements', Due')
  <2>1. (WInv => [d \in 1..Len(Elements) |-> Frame(d)] = Expects(Elements, Due))'
    BY ElementsType, PTL
  <2>2. [d \in 1..Len(Elements') |-> Frame(d)'] = Expects(Elements', Due')
    BY <2>1 DEF Expects
  <2> QED
    BY <2>2 DEF Open, Usable
<1>3. Sink!LegalIn(Open, e) /\ Open' = Sink!AfterIn(Open, e)
  BY <1>1, <1>2
<1>4. Sink!Usable
  BY DEF Sink!Usable, Usable
<1> QED
  BY <1>3, <1>4 DEF Sink!SinkNext, Sink!Accept, Sink!Legal, Sink!After, Open

(* one that is refused is one the sink refuses,                             *)
LEMMA RefuseStep ==
  ASSUME WInv, Usable, NEW e \in Calls, call' = e, verdict' = "illegal",
         ~Sink!LegalIn(Expects(Elements, Due), e)
  PROVE  Sink!SinkNext
<1>1. Open = Expects(Elements, Due)
  BY ElementsType DEF Open
<1>2. Open' = <<>>
  BY DEF Open, Usable
<1>3. Sink!Usable
  BY DEF Sink!Usable, Usable
<1> QED
  BY <1>1, <1>2, <1>3 DEF Sink!SinkNext, Sink!Refuse, Sink!Legal, Open

(* and a failure is one of the sink.                                        *)
LEMMA BreakStep ==
  ASSUME Usable, call' \in Calls, verdict' = "failed"
  PROVE  Sink!SinkNext
<1>1. Open' = <<>>
  BY DEF Open, Usable
<1>2. Sink!Usable
  BY DEF Sink!Usable, Usable
<1> QED
  BY <1>1, <1>2 DEF Sink!SinkNext, Sink!Break, Open

(* Nothing the sink sees changes.                                           *)
LEMMA SinkStutters ==
  ASSUME stack' = stack, expecting_key' = expecting_key, taken' = taken,
         call' = call, verdict' = verdict
  PROVE  UNCHANGED Sink!sinkVars
  BY DEF Sink!sinkVars, Usable, Elements, Frame

(* After an element or an end, a key is due in a dictionary; in an array or *)
(* at the root it makes no difference what is.                              *)
LEMMA DueInDictionary ==
  ASSUME NEW els \in Seq(Collections), NEW due \in {"key", "value"},
         InDictionary(els) => due = "key"
  PROVE  Expects(els, due) = Expects(els, "key")
<1>1. CASE InDictionary(els)
  BY <1>1
<1>2. CASE ~InDictionary(els)
  <2>1. ~(els # <<>> /\ Last(els) = "dict")
    BY <1>2 DEF InDictionary
  <2>2. /\ Sink!Turned(Expects(els, due)) = Expects(els, "key")
        /\ Sink!Turned(Expects(els, due)) = Expects(els, due)
    BY <2>1, TurnedExpects
  <2> QED
    BY <2>2
<1> QED
  BY <1>1, <1>2

(* A start where no key is due, whether its tag is written or it is taken   *)
(* by the end that follows.                                                 *)
LEMMA StartLegal ==
  ASSUME WInv, NEW ty \in Collections, taken = "none", ~expecting_key
  PROVE  /\ Sink!LegalIn(Expects(Elements, Due), [kind |-> ty, arg |-> 0])
         /\ Sink!AfterIn(Expects(Elements, Due), [kind |-> ty, arg |-> 0]) =
              Expects(Append(stack, ty), "key")
<1> DEFINE e == [kind |-> ty, arg |-> 0]
           st == Expects(stack, "value")
<1>1. Elements = stack /\ Due = "value" /\ stack \in Seq(Collections)
  BY DEF Elements, Due, WInv, WriterTypeOK
<1>2. /\ stack # <<>> => Sink!Innermost(st) # "key"
      /\ Sink!Turned(st) = Expects(stack, "key")
  BY <1>1, TurnedExpects
<1>3. (st = <<>>) <=> (stack = <<>>)
  BY <1>1, ExpectsType
<1>4. Expects(Append(stack, ty), "key") =
        Append(Sink!Turned(st), IF ty = "array" THEN "array" ELSE "key")
  BY <1>1, <1>2, PushedExpects
<1> HIDE DEF st
<1>5. e.kind = ty /\ ty \in {"array", "dict"}
  BY DEF Collections
<1> HIDE DEF e
<1>6. Sink!LegalIn(st, e)
  BY <1>2, <1>3, <1>5 DEF Sink!LegalIn
<1>7. Sink!AfterIn(st, e) = Append(Sink!Turned(st), IF ty = "array" THEN "array" ELSE "key")
  <2>1. CASE ty = "array"
    BY <1>5, <2>1 DEF Sink!AfterIn
  <2>2. CASE ty = "dict"
    BY <1>5, <2>2 DEF Sink!AfterIn
  <2> QED
    BY <1>5, <2>1, <2>2
<1> QED
  BY <1>1, <1>4, <1>6, <1>7 DEF st, e

(* An end that closes els, the innermost of which waits for no value.       *)
LEMMA EndLegal ==
  ASSUME NEW els \in Seq(Collections), els # <<>>, NEW due \in {"key", "value"},
         Last(els) = "array" \/ due = "key",
         NEW e \in Calls, e.kind = "end"
  PROVE  /\ Sink!LegalIn(Expects(els, due), e)
         /\ Sink!AfterIn(Expects(els, due), e) = Expects(Front(els), "key")
<1> DEFINE st == Expects(els, due)
<1>1. Sink!Innermost(st) # "value"
  <2>1. \E after \in {"key", "value"} : after # due
    OBVIOUS
  <2>2. Sink!Innermost(st) = IF Last(els) = "dict" THEN due ELSE "array"
    BY <2>1, TurnedExpects
  <2> QED
    BY <2>2
<1>2. st # <<>>
  BY ExpectsType
<1>3. Expects(Front(els), "key") = SubSeq(st, 1, Len(st) - 1)
  BY PoppedExpects
<1> HIDE DEF st
<1>4. Sink!LegalIn(st, e)
  BY <1>1, <1>2 DEF Sink!LegalIn
<1>5. Sink!AfterIn(st, e) = SubSeq(st, 1, Len(st) - 1)
  BY DEF Sink!AfterIn
<1> QED
  BY <1>3, <1>4, <1>5 DEF st

(* Every step of the writer is one of the sink, or leaves it alone.         *)
LEMMA NextSinkStep ==
  ~EmptyKeys /\ WInv /\ [Next]_vars => [Sink!SinkNext]_Sink!sinkVars
<1> SUFFICES ASSUME ~EmptyKeys, WInv, [Next]_vars
             PROVE  Sink!SinkNext \/ UNCHANGED Sink!sinkVars
  OBVIOUS
<1>0. /\ stack \in Seq(Collections) /\ expecting_key \in BOOLEAN
      /\ pending_collection \in Collections \cup {"none"}
      /\ taken \in Collections \cup {"none"}
      /\ request \in Calls \cup {NoCall} /\ Due \in {"key", "value"}
  BY ElementsType DEF WInv, WriterTypeOK
<1>a. \A ty \in Collections : [kind |-> ty, arg |-> 0] \in Calls
  BY DEF Calls, Collections
<1>b. WInv'
  BY NextWInv
<1>c. request # NoCall => Usable
  BY DEF WInv, RequestUsable
<1>d. taken = "none" => Elements = stack
  BY DEF Elements
<1>e. \A els \in Seq(Collections), due \in {"key", "value"} :
        (InDictionary(els) => due = "key") => Expects(els, due) = Expects(els, "key")
  BY DueInDictionary
<1>1. ASSUME NEW e \in Calls, Submit(e)
      PROVE  Sink!SinkNext \/ UNCHANGED Sink!sinkVars
  <2>1. CASE e.kind = "value" /\ e.arg \in Uids
    <3>1. call' = e /\ verdict' = "failed" /\ Usable
      BY <1>1, <2>1 DEF Submit
    <3> QED
      BY <3>1, BreakStep
  <2>2. CASE ~(e.kind = "value" /\ e.arg \in Uids)
    BY <1>1, <2>2, SinkStutters DEF Submit, state
  <2> QED
    BY <2>1, <2>2
<1>2. CASE StartPending
  <2> DEFINE ty == pending_collection
             e == [kind |-> ty, arg |-> 0]
  <2>1. /\ ty \in Collections /\ e \in Calls /\ Usable /\ taken = "none" /\ taken' = "none"
    BY <1>0, <1>a, <1>c, <1>2 DEF StartPending, WInv, TakenByEnd
  <2>2. CASE expecting_key
    <3>1. Refused(e, stack)
      BY <1>2, <2>2 DEF StartPending
    <3>2. call' = e /\ verdict' = "illegal"
      BY <3>1 DEF Refused, Done
    <3>3. stack # <<>> /\ Last(stack) = "dict"
      BY <2>1, <2>2 DEF WInv, KeyInDictionary, InDictionary
    <3>4. Elements = stack /\ Due = "key"
      BY <1>d, <2>1, <2>2 DEF Due
    <3>5. "value" # "key" /\ Sink!Innermost(Expects(stack, "key")) = "key"
      BY <1>0, <3>3, TurnedExpects
    <3>6. Expects(stack, "key") # <<>>
      BY <1>0, <3>3, ExpectsType
    <3>7. ~Sink!LegalIn(Expects(Elements, Due), e)
      BY <2>1, <3>4, <3>5, <3>6 DEF Sink!LegalIn, Collections
    <3> QED
      BY <2>1, <3>2, <3>7, RefuseStep
  <2>3. CASE ~expecting_key
    <3>1. WriteEvent(e, <<Token("start", ty)>>, stack, Pushed(ty), InDictionary(Pushed(ty)),
                     request)
      BY <1>2, <2>3 DEF StartPending
    <3>2. Pushed(ty) \in Seq(Collections) /\ InDictionary(Pushed(ty)) \in BOOLEAN
      BY <2>1, StackFacts, InDictionaryType
    <3>3. /\ call' = e
          /\ \/ verdict' = "failed"
             \/ /\ verdict' = "ok" /\ stack' = Pushed(ty)
                /\ expecting_key' = InDictionary(Pushed(ty))
      BY <1>0, <2>1, <3>1, <3>2, WriteEventType
    <3>4. /\ Sink!LegalIn(Expects(Elements, Due), e)
          /\ Sink!AfterIn(Expects(Elements, Due), e) = Expects(Pushed(ty), "key")
      BY <2>1, <2>3, StartLegal DEF Pushed
    <3>5. CASE verdict' = "failed"
      BY <2>1, <3>3, <3>5, BreakStep
    <3>6. CASE verdict' = "ok"
      <4>1. stack' = Pushed(ty) /\ expecting_key' = InDictionary(Pushed(ty))
        BY <3>3, <3>6
      <4>2. /\ Elements' = Pushed(ty)
            /\ Due' \in {"key", "value"} /\ (InDictionary(Pushed(ty)) => Due' = "key")
        BY <2>1, <4>1 DEF Elements, Due
      <4>3. Expects(Elements', Due') = Expects(Pushed(ty), "key")
        BY <1>e, <3>2, <4>2
      <4> QED
        BY <1>b, <2>1, <3>3, <3>4, <3>6, <4>3, AcceptStep
    <3> QED
      BY <3>3, <3>5, <3>6
  <2> QED
    BY <2>2, <2>3
<1>3. CASE WriteStartCollection
  BY <1>3, SinkStutters DEF WriteStartCollection, state
<1>4. CASE TakePending
  <2> DEFINE ty == pending_collection
             e == [kind |-> ty, arg |-> 0]
  <2>1. /\ stack' = stack /\ expecting_key' = expecting_key
        /\ taken' = ty /\ call' = e /\ verdict' = "ok"
        /\ request.kind = "end" /\ ty \in Collections
    BY <1>0, <1>4 DEF TakePending, Done, state
  <2>2. ~expecting_key /\ taken = "none" /\ Usable /\ e \in Calls
    BY <1>a, <1>c, <2>1 DEF WInv, TakenByEnd, Collections, NoCall
  <2>3. /\ Sink!LegalIn(Expects(Elements, Due), e)
        /\ Sink!AfterIn(Expects(Elements, Due), e) = Expects(Append(stack, ty), "key")
    BY <2>1, <2>2, StartLegal
  <2>4. ty # "none"
    BY <2>1 DEF Collections
  <2>5. Elements' = Append(stack, ty) /\ Due' = "key"
    BY <2>1, <2>4 DEF Elements, Due
  <2> QED
    BY <1>b, <2>1, <2>2, <2>3, <2>5, AcceptStep
<1>5. CASE WriteEmpty
  <2> DEFINE els == Append(stack, taken)
  <2>1. /\ request.kind = "end" /\ taken' = "none" /\ taken \in Collections
    BY <1>0, <1>5 DEF WriteEmpty, WInv, TakenByEnd
  <2>2. request \in Calls /\ Usable
    BY <1>0, <1>c, <2>1 DEF NoCall
  <2>3. /\ call' = request
        /\ \/ verdict' = "failed"
           \/ verdict' = "ok" /\ stack' = stack /\ expecting_key' = InDictionary(stack)
    <3>1. WriteEvent(request, Element(taken, <<>>), stack, stack, InDictionary(stack), NoCall)
      BY <1>5 DEF WriteEmpty
    <3> QED
      BY <1>0, <2>2, <3>1, WriteEventType, InDictionaryType
  <2>4. Elements = els /\ Due = "key"
    BY <1>5 DEF WriteEmpty, Elements, Due
  <2>5. els \in Seq(Collections) /\ els # <<>> /\ Front(els) = stack
    BY <1>0, <2>1, AppendFacts, FrontOfAppend
  <2>6. /\ Sink!LegalIn(Expects(Elements, Due), request)
        /\ Sink!AfterIn(Expects(Elements, Due), request) = Expects(stack, "key")
    <3> HIDE DEF els
    <3> QED
      BY <2>1, <2>2, <2>4, <2>5, EndLegal
  <2>7. CASE verdict' = "failed"
    BY <2>2, <2>3, <2>7, BreakStep
  <2>8. CASE verdict' = "ok"
    <3>1. stack' = stack /\ expecting_key' = InDictionary(stack)
      BY <2>3, <2>8
    <3>2. /\ Elements' = stack
          /\ Due' \in {"key", "value"} /\ (InDictionary(stack) => Due' = "key")
      BY <2>1, <3>1 DEF Elements, Due
    <3>3. Expects(Elements', Due') = Expects(stack, "key")
      BY <1>0, <1>e, <3>2
    <3> QED
      BY <1>b, <2>2, <2>3, <2>6, <2>8, <3>3, AcceptStep
  <2> QED
    BY <2>3, <2>7, <2>8
<1>6. CASE WriteEndCollection
  <2> DEFINE rest == IF stack = <<>> THEN <<>> ELSE Front(stack)
  <2>1. /\ request.kind = "end" /\ taken = "none" /\ taken' = "none"
    BY <1>6 DEF WriteEndCollection
  <2>2. request \in Calls /\ Usable /\ rest \in Seq(Collections) /\ Elements = stack
    BY <1>0, <1>c, <1>d, <2>1, StackFacts DEF NoCall
  <2>3. CASE Closable
    <3>1. WriteEvent(request, <<Token("end", Last(stack))>>, rest, rest,
                     InDictionary(rest), NoCall)
      BY <1>6, <2>3 DEF WriteEndCollection
    <3>2. stack # <<>> /\ rest = Front(stack) /\ (Last(stack) = "array" \/ expecting_key)
      BY <2>3 DEF Closable
    <3> HIDE DEF rest
    <3>3. /\ call' = request
          /\ \/ verdict' = "failed"
             \/ verdict' = "ok" /\ stack' = rest /\ expecting_key' = InDictionary(rest)
      BY <2>2, <3>1, WriteEventType, InDictionaryType
    <3>4. Last(stack) = "array" \/ Due = "key"
      BY <3>2 DEF Due
    <3>5. /\ Sink!LegalIn(Expects(Elements, Due), request)
          /\ Sink!AfterIn(Expects(Elements, Due), request) = Expects(rest, "key")
      BY <1>0, <2>1, <2>2, <3>2, <3>4, EndLegal
    <3>6. CASE verdict' = "failed"
      BY <2>2, <3>3, <3>6, BreakStep
    <3>7. CASE verdict' = "ok"
      <4>1. stack' = rest /\ expecting_key' = InDictionary(rest)
        BY <3>3, <3>7
      <4>2. /\ Elements' = rest
            /\ Due' \in {"key", "value"} /\ (InDictionary(rest) => Due' = "key")
        BY <2>1, <4>1 DEF Elements, Due
      <4>3. Expects(Elements', Due') = Expects(rest, "key")
        BY <1>e, <2>2, <4>2
      <4> QED
        BY <1>b, <2>2, <3>3, <3>5, <3>7, <4>3, AcceptStep
    <3> QED
      BY <3>3, <3>6, <3>7
  <2>4. CASE ~Closable
    <3>1. Refused(request, rest)
      BY <1>6, <2>4 DEF WriteEndCollection
    <3>2. call' = request /\ verdict' = "illegal"
      BY <3>1 DEF Refused, Done
    <3>3. ~Sink!LegalIn(Expects(Elements, Due), request)
      <4>1. CASE stack = <<>>
        <5>1. Expects(Elements, Due) = <<>>
          BY <1>0, <2>2, <4>1, ExpectsType
        <5> QED
          BY <2>1, <5>1 DEF Sink!LegalIn
      <4>2. CASE stack # <<>>
        <5>1. Last(stack) = "dict" /\ ~expecting_key
          BY <1>0, <2>4, <4>2, StackFacts DEF Closable, Collections
        <5>2. Due = "value"
          BY <2>1, <5>1 DEF Due
        <5>3. "key" # "value" /\ Sink!Innermost(Expects(stack, "value")) = "value"
          BY <1>0, <4>2, <5>1, TurnedExpects
        <5> QED
          BY <2>1, <2>2, <5>2, <5>3 DEF Sink!LegalIn
      <4> QED
        BY <4>1, <4>2
    <3> QED
      BY <2>2, <3>2, <3>3, RefuseStep
  <2> QED
    BY <2>3, <2>4
<1>7. CASE WriteValue
  <2>1. /\ request.kind = "value" /\ taken = "none" /\ taken' = "none"
    BY <1>7 DEF WriteValue, WInv, TakenByEnd
  <2>2. request \in Calls /\ Usable /\ Elements = stack
    BY <1>0, <1>c, <1>d, <2>1 DEF NoCall
  <2>3. Due = IF expecting_key THEN "key" ELSE "value"
    BY <2>1 DEF Due
  <2>4. /\ stack # <<>> => Sink!Innermost(Expects(stack, Due)) =
                             IF Last(stack) = "dict" THEN Due ELSE "array"
        /\ (Expects(stack, Due) = <<>>) <=> (stack = <<>>)
    <3>1. \E after \in {"key", "value"} : after # Due
      BY <1>0
    <3> QED
      BY <1>0, <3>1, TurnedExpects, ExpectsType
  <2>5. expecting_key => stack # <<>> /\ Last(stack) = "dict"
    BY <2>2 DEF WInv, KeyInDictionary, InDictionary
  <2>6. CASE expecting_key /\ request.arg \notin Strings
    <3>1. Refused(request, stack)
      BY <1>7, <2>6 DEF WriteValue
    <3>2. call' = request /\ verdict' = "illegal"
      BY <3>1 DEF Refused, Done
    <3>3. ~Sink!LegalIn(Expects(Elements, Due), request)
      BY <2>1, <2>2, <2>3, <2>4, <2>5, <2>6 DEF Sink!LegalIn
    <3> QED
      BY <2>2, <3>2, <3>3, RefuseStep
  <2>7. CASE ~(expecting_key /\ request.arg \notin Strings)
    <3> DEFINE key == ~expecting_key /\ KeyAfterValue
    <3>1. WriteEvent(request, ValueElement(request.arg), stack, stack, key, NoCall)
      BY <1>7, <2>7 DEF WriteValue
    <3>2. key \in BOOLEAN /\ (key => InDictionary(stack))
      BY DEF KeyAfterValue
    <3>3. stack # <<>> /\ Last(stack) = "dict" => key = ~expecting_key
      BY <1>0 DEF KeyAfterValue, InDictionary
    <3> HIDE DEF key
    <3>4. /\ call' = request
          /\ \/ verdict' = "failed"
             \/ verdict' = "ok" /\ stack' = stack /\ expecting_key' = key
      BY <1>0, <2>2, <3>1, <3>2, WriteEventType
    <3>5. Sink!LegalIn(Expects(Elements, Due), request)
      <4>1. Due = "key" => request.arg \in Strings
        BY <2>3, <2>7
      <4> QED
        BY <2>1, <2>2, <2>4, <4>1 DEF Sink!LegalIn
    <3>6. CASE verdict' = "failed"
      BY <2>2, <3>4, <3>6, BreakStep
    <3>7. CASE verdict' = "ok"
      <4>1. stack' = stack /\ expecting_key' = key
        BY <3>4, <3>7
      <4>2. Elements' = stack /\ Due' = IF key THEN "key" ELSE "value"
        BY <2>1, <4>1 DEF Elements, Due
      <4>3. stack # <<>> /\ Last(stack) = "dict" => Due' # Due
        BY <1>0, <2>3, <3>2, <3>3, <4>2
      <4>4. Sink!Turned(Expects(stack, Due)) = Expects(stack, Due')
        <5>1. Due' \in {"key", "value"}
          BY <4>2
        <5> HIDE DEF Due
        <5> QED
          BY <1>0, <4>3, <5>1, TurnedExpects
      <4>5. Sink!AfterIn(Expects(Elements, Due), request) = Expects(Elements', Due')
        BY <2>1, <2>2, <4>2, <4>4 DEF Sink!AfterIn
      <4> QED
        BY <1>b, <2>2, <3>4, <3>5, <3>7, <4>5, AcceptStep
    <3> QED
      BY <3>4, <3>6, <3>7
  <2> QED
    BY <2>6, <2>7
<1>8. CASE Rest \/ UNCHANGED vars
  BY <1>8, SinkStutters DEF Rest, vars, state
<1> QED
  BY <1>1, <1>2, <1>3, <1>4, <1>5, <1>6, <1>7, <1>8 DEF Next, Perform

(* For all values, and however long it is used, the writer accepts exactly  *)
(* the calls that continue a well-formed event stream, although it takes up *)
(* a collection only with the call after it: provided that the client never *)
(* opens and closes a collection where a key is due.                        *)
THEOREM ImplementsSink == ~EmptyKeys /\ Spec => AcceptsWellFormed
<1>1. Init => Sink!SinkInit
  <2> SUFFICES ASSUME Init
               PROVE  Sink!SinkInit
    OBVIOUS
  <2>1. stack = <<>> /\ taken = "none" /\ verdict = "none"
    BY DEF Init
  <2>2. Elements = <<>>
    BY <2>1 DEF Elements
  <2>3. Open = <<>>
    BY <2>2 DEF Open
  <2>4. call \in Calls
    BY DEF Init, Calls
  <2> QED
    BY <2>1, <2>3, <2>4 DEF Sink!SinkInit, Open
<1>2. SUFFICES ASSUME ~EmptyKeys
               PROVE  Spec => AcceptsWellFormed
  OBVIOUS
<1>3. WInv /\ [Next]_vars => WInv'
  BY <1>2, NextWInv
<1>4. WInv /\ [Next]_vars => [Sink!SinkNext]_Sink!sinkVars
  BY <1>2, NextSinkStep
<1> QED
  BY <1>1, <1>3, <1>4, InitWInv, PTL DEF Spec, AcceptsWellFormed, Sink!SinkSpec

(***************************************************************************)
(* Reading: the collections that the events leave open, and those whose    *)
(* elements the document has open, are followed side by side.              *)
(***************************************************************************)
Kinds == {"array", "dict", "end", "value"}
Opens == Seq(Collections \cup {"none"})

(* The reader's stack and the writer's are taken apart alike. *)
LEMMA SameStack == \A s : R!Front(s) = Front(s) /\ R!Last(s) = Last(s)
  BY DEF R!Front, Front, R!Last, Last

(* What an event leads to. *)
LEMMA AfterType ==
  ASSUME NEW E, \A e \in E : e.kind \in Kinds, NEW open \in Opens, NEW e \in E
  PROVE  R!After(open, e) \in Opens
<1> DEFINE S == Collections \cup {"none"}
<1>1. /\ open \in Seq(S) /\ e.kind \in Kinds
      /\ {"array", "dict", "none"} \subseteq S /\ Kinds = {"array", "dict", "end", "value"}
  BY DEF Opens, Collections, Kinds
<1> HIDE DEF S
<1>2. CASE e.kind \in {"array", "dict"}
  <2>1. R!After(open, e) = Append(open, e.kind)
    BY <1>2 DEF R!After
  <2> QED
    BY <1>1, <1>2, <2>1, AppendFacts DEF Opens, S
<1>3. CASE e.kind = "end"
  <2>1. R!After(open, e) = IF open = <<>> THEN <<"none">> ELSE Front(open)
    BY <1>3, SameStack DEF R!After
  <2>2. <<"none">> \in Seq(S)
    BY <1>1
  <2>3. open # <<>> => Front(open) \in Seq(S)
    BY <1>1, FrontLast
  <2> QED
    BY <2>1, <2>2, <2>3 DEF Opens, S
<1>4. CASE e.kind = "value"
  BY <1>4 DEF R!After
<1> QED
  BY <1>1, <1>2, <1>3, <1>4

(* The events are followed one by one. *)
LEMMA OpenCollectionsFollow ==
  ASSUME NEW E, \A e \in E : e.kind \in Kinds, NEW es \in Seq(E)
  PROVE  /\ R!OpenCollections(es) \in Opens
         /\ Outcome(R!OpenCollections(es), es, <<>>,
                    [x \in Opens \X E |-> R!After(x[1], x[2])])
<1> DEFINE h == [x \in Opens \X E |-> R!After(x[1], x[2])]
           n == Len(es)
           Counts(f) == f = [k \in 0..n |-> IF k = 0 THEN <<>> ELSE R!After(f[k - 1], es[k])]
           open == CHOOSE f : Counts(f)
<1>1. n \in Nat /\ (\A k \in 1..n : es[k] \in E) /\ <<>> \in Opens
  BY LenProperties, ElementOfSeq, EmptySeq DEF Opens
<1>2. h \in [Opens \X E -> Opens]
  BY AfterType
<1>3. \A o \in Opens, e \in E : h[<<o, e>>] = R!After(o, e)
  OBVIOUS
<1> HIDE DEF h
<1>4. PICK g \in [0..n -> Opens] : Scans(g, es, <<>>, h)
  BY <1>1, <1>2, ScanExists
<1>5. g[0] = <<>> /\ \A k \in 1..n : g[k] = h[<<g[k - 1], es[k]>>]
  BY <1>4 DEF Scans
<1> HIDE DEF n
<1>6. \A k \in 1..n : g[k] = R!After(g[k - 1], es[k])
  <2> SUFFICES ASSUME NEW k \in 1..n
               PROVE  g[k] = R!After(g[k - 1], es[k])
    OBVIOUS
  <2>1. k - 1 \in 0..n
    BY <1>1
  <2>2. g[k - 1] \in Opens /\ es[k] \in E
    BY <1>1, <2>1
  <2> QED
    BY <1>3, <1>5, <2>2
<1>7. Counts(g)
  <2> DEFINE f == [k \in 0..n |-> IF k = 0 THEN <<>> ELSE R!After(g[k - 1], es[k])]
  <2>1. ASSUME NEW k \in 0..n
        PROVE  g[k] = f[k]
    BY <1>1, <1>5, <1>6
  <2>2. f = [k \in 0..n |-> f[k]]
    OBVIOUS
  <2> HIDE DEF f
  <2>3. g = f
    BY <2>1, <2>2
  <2> QED
    BY <2>3 DEF f
<1>8. Counts(open)
  <2> HIDE DEF Counts
  <2> QED
    BY <1>7
<1> HIDE DEF open
<1>9. open[0] = <<>> /\ \A k \in 1..n : open[k] = R!After(open[k - 1], es[k])
  BY <1>1, <1>8
<1>10. \A k \in 1..n : open[k - 1] \in Opens => open[k] = h[<<open[k - 1], es[k]>>]
  BY <1>1, <1>3, <1>9
<1>11. Scans(open, es, <<>>, h) /\ open[n] \in Opens
  <2>1. <<>> \in Opens /\ es \in Seq(E) /\ n = Len(es)
    BY <1>1 DEF n
  <2>2. StaysAmong(open, es, <<>>, h, Opens)
    BY <1>9, <1>10 DEF StaysAmong, n
  <2>3. Scans(open, es, <<>>, h) /\ open[Len(es)] \in Opens
    BY <1>2, <2>1, <2>2, ScanOfValues
  <2> QED
    BY <2>1, <2>3
<1>12. R!OpenCollections(es) = open[n]
  BY DEF R!OpenCollections, open, n, Counts
<1> QED
  BY <1>11, <1>12 DEF h, n, Outcome

(* What an element leads to. *)
LEMMA KeptType ==
  ASSUME NEW names \in Seq(Collections), NEW name
  PROVE  R!Kept(names, name) \in Seq(Collections)
  BY AppendFacts DEF R!Kept, Collections

(* The elements are followed one by one. *)
LEMMA CollectionsAmongFollow ==
  ASSUME NEW E, NEW ns \in Seq(E)
  PROVE  /\ R!CollectionsAmong(ns) \in Seq(Collections)
         /\ Outcome(R!CollectionsAmong(ns), ns, <<>>,
                    [x \in Seq(Collections) \X E |-> R!Kept(x[1], x[2])])
<1> DEFINE h == [x \in Seq(Collections) \X E |-> R!Kept(x[1], x[2])]
           n == Len(ns)
           Counts(f) == f = [k \in 0..n |-> IF k = 0 THEN <<>> ELSE R!Kept(f[k - 1], ns[k])]
           kept == CHOOSE f : Counts(f)
<1>1. n \in Nat /\ (\A k \in 1..n : ns[k] \in E) /\ <<>> \in Seq(Collections)
  BY LenProperties, ElementOfSeq, EmptySeq
<1>2. h \in [Seq(Collections) \X E -> Seq(Collections)]
  BY KeptType
<1>3. \A o \in Seq(Collections), e \in E : h[<<o, e>>] = R!Kept(o, e)
  OBVIOUS
<1> HIDE DEF h
<1>4. PICK g \in [0..n -> Seq(Collections)] : Scans(g, ns, <<>>, h)
  BY <1>1, <1>2, ScanExists
<1>5. g[0] = <<>> /\ \A k \in 1..n : g[k] = h[<<g[k - 1], ns[k]>>]
  BY <1>4 DEF Scans
<1> HIDE DEF n
<1>6. \A k \in 1..n : g[k] = R!Kept(g[k - 1], ns[k])
  <2> SUFFICES ASSUME NEW k \in 1..n
               PROVE  g[k] = R!Kept(g[k - 1], ns[k])
    OBVIOUS
  <2>1. k - 1 \in 0..n
    BY <1>1
  <2>2. g[k - 1] \in Seq(Collections) /\ ns[k] \in E
    BY <1>1, <2>1
  <2> QED
    BY <1>3, <1>5, <2>2
<1>7. Counts(g)
  <2> DEFINE f == [k \in 0..n |-> IF k = 0 THEN <<>> ELSE R!Kept(g[k - 1], ns[k])]
  <2>1. ASSUME NEW k \in 0..n
        PROVE  g[k] = f[k]
    BY <1>1, <1>5, <1>6
  <2>2. f = [k \in 0..n |-> f[k]]
    OBVIOUS
  <2> HIDE DEF f
  <2>3. g = f
    BY <2>1, <2>2
  <2> QED
    BY <2>3 DEF f
<1>8. Counts(kept)
  <2> HIDE DEF Counts
  <2> QED
    BY <1>7
<1> HIDE DEF kept
<1>9. kept[0] = <<>> /\ \A k \in 1..n : kept[k] = R!Kept(kept[k - 1], ns[k])
  BY <1>1, <1>8
<1>10. \A k \in 1..n : kept[k - 1] \in Seq(Collections) => kept[k] = h[<<kept[k - 1], ns[k]>>]
  BY <1>1, <1>3, <1>9
<1>11. Scans(kept, ns, <<>>, h) /\ kept[n] \in Seq(Collections)
  <2>1. <<>> \in Seq(Collections) /\ ns \in Seq(E) /\ n = Len(ns)
    BY <1>1 DEF n
  <2>2. StaysAmong(kept, ns, <<>>, h, Seq(Collections))
    BY <1>9, <1>10 DEF StaysAmong, n
  <2>3. Scans(kept, ns, <<>>, h) /\ kept[Len(ns)] \in Seq(Collections)
    BY <1>2, <2>1, <2>2, ScanOfValues
  <2> QED
    BY <2>1, <2>3
<1>12. R!CollectionsAmong(ns) = kept[n]
  BY DEF R!CollectionsAmong, kept, n, Counts
<1> QED
  BY <1>11, <1>12 DEF h, n, Outcome

(* A value is read within its own element.                                  *)
ValueElements == {"key", "string", "data", "text"}

ReaderTypeOK ==
  /\ \E E : (\A e \in E : e.kind \in Kinds) /\ rEvents \in Seq(E)
  /\ \E S : rOpened \in Seq(S)
  /\ rElement \in ValueElements \cup {"none"}

WithinElement == rElement # "none" => rOpened # <<>> /\ Last(rOpened) = rElement

Matched == R!OpenCollections(rEvents) = R!CollectionsAmong(rOpened)

RInv == ~rFinished => ReaderTypeOK /\ WithinElement /\ Matched

(* What the next event, and the next element, lead to.                      *)
LEMMA EventAppended ==
  ASSUME ReaderTypeOK, NEW e, e.kind \in Kinds
  PROVE  /\ \E E : (\A x \in E : x.kind \in Kinds) /\ Append(rEvents, e) \in Seq(E)
         /\ R!OpenCollections(Append(rEvents, e)) = R!After(R!OpenCollections(rEvents), e)
<1>1. PICK D : (\A x \in D : x.kind \in Kinds) /\ rEvents \in Seq(D)
  BY DEF ReaderTypeOK
<1> DEFINE E == D \cup {e}
           h == [x \in Opens \X E |-> R!After(x[1], x[2])]
           t == Append(rEvents, e)
           o == R!OpenCollections(rEvents)
           p == R!OpenCollections(t)
<1>2. \A x \in E : x.kind \in Kinds
  BY <1>1
<1>3. e \in E /\ rEvents \in Seq(E)
  BY <1>1
<1> HIDE DEF E
<1>4. t \in Seq(E)
  BY <1>3
<1> HIDE DEF t
<1>5. o \in Opens /\ Outcome(o, rEvents, <<>>, h)
  BY <1>2, <1>3, OpenCollectionsFollow
<1>6. Outcome(p, t, <<>>, h)
  BY <1>2, <1>4, OpenCollectionsFollow
<1>7. h[<<o, e>>] = R!After(o, e)
  BY <1>3, <1>5
<1> HIDE DEF h, o, p
<1>8. p = h[<<o, e>>]
  BY <1>3, <1>5, <1>6, OutcomeOfAppend DEF t
<1> QED
  BY <1>2, <1>4, <1>7, <1>8 DEF t, o, p

LEMMA ElementAppended ==
  ASSUME NEW S, NEW ns \in Seq(S), NEW name
  PROVE  /\ \E E : Append(ns, name) \in Seq(E)
         /\ R!CollectionsAmong(Append(ns, name)) = R!Kept(R!CollectionsAmong(ns), name)
         /\ R!CollectionsAmong(ns) \in Seq(Collections)
<1> DEFINE E == S \cup {name}
           h == [x \in Seq(Collections) \X E |-> R!Kept(x[1], x[2])]
           t == Append(ns, name)
           o == R!CollectionsAmong(ns)
           p == R!CollectionsAmong(t)
<1>3. name \in E /\ ns \in Seq(E)
  OBVIOUS
<1> HIDE DEF E
<1>4. t \in Seq(E)
  BY <1>3
<1> HIDE DEF t
<1>5. o \in Seq(Collections) /\ Outcome(o, ns, <<>>, h)
  BY <1>3, CollectionsAmongFollow
<1>6. Outcome(p, t, <<>>, h)
  BY <1>4, CollectionsAmongFollow
<1>7. h[<<o, name>>] = R!Kept(o, name)
  BY <1>3, <1>5
<1> HIDE DEF h, o, p
<1>8. p = h[<<o, name>>]
  BY <1>3, <1>5, <1>6, OutcomeOfAppend DEF t
<1> QED
  BY <1>4, <1>5, <1>7, <1>8 DEF t, o, p

(* The last element closed. *)
LEMMA ElementClosed ==
  ASSUME NEW S, NEW ns \in Seq(S), ns # <<>>
  PROVE  /\ Front(ns) \in Seq(S)
         /\ R!CollectionsAmong(ns) = R!Kept(R!CollectionsAmong(Front(ns)), Last(ns))
         /\ R!CollectionsAmong(Front(ns)) \in Seq(Collections)
<1>1. Front(ns) \in Seq(S) /\ Last(ns) \in S
  BY FrontLast
<1>2. ns = Append(Front(ns), Last(ns))
  BY AppendOfFront
<1> QED
  BY <1>1, <1>2, ElementAppended

(***************************************************************************)
(* The steps of the reader.                                                *)
(***************************************************************************)
(* What the parser does with a token.                                       *)
LEMMA ParserSteps ==
  ASSUME NEW t, R!Advance(t), ~R!Mismatched(t)
  PROVE  /\ t.kind = "start" => rOpened' = Append(rOpened, t.name)
         /\ t.kind = "end" =>
              rOpened # <<>> /\ Last(rOpened) = t.name /\ rOpened' = Front(rOpened)
         /\ t.kind \in {"text", "decl", "other", "eof"} => rOpened' = rOpened
<1>1. t.kind = "start" => rOpened' = Append(rOpened, t.name)
  BY DEF R!Advance
<1>2. ASSUME t.kind = "end"
      PROVE  rOpened # <<>> /\ Last(rOpened) = t.name /\ rOpened' = Front(rOpened)
  <2>1. rOpened # <<>> /\ Last(rOpened) = t.name
    BY <1>2, SameStack DEF R!Mismatched
  <2>2. rOpened' = IF rOpened = <<>> THEN rOpened ELSE Front(rOpened)
    BY <1>2, SameStack DEF R!Advance
  <2> QED
    BY <2>1, <2>2
<1>3. t.kind \in {"text", "decl", "other", "eof"} => rOpened' = rOpened
  BY DEF R!Advance
<1> QED
  BY <1>1, <1>2, <1>3

(* No event is delivered, and what is opened or closed is no collection.    *)
LEMMA QuietStep ==
  ASSUME ReaderTypeOK, Matched, rEvents' = rEvents,
         rElement' \in ValueElements \cup {"none"}, NEW name, name \notin Collections,
         \/ rOpened' = rOpened
         \/ rOpened' = Append(rOpened, name)
         \/ rOpened # <<>> /\ Last(rOpened) = name /\ rOpened' = Front(rOpened)
  PROVE  ReaderTypeOK' /\ Matched'
<1>1. PICK S : rOpened \in Seq(S)
  BY DEF ReaderTypeOK
<1>2. \A ns : R!Kept(ns, name) = ns
  BY DEF R!Kept, Collections
<1>3. (\E E : rOpened' \in Seq(E)) /\ R!CollectionsAmong(rOpened') = R!CollectionsAmong(rOpened)
  <2>1. CASE rOpened' = rOpened
    BY <1>1, <2>1
  <2>2. CASE rOpened' = Append(rOpened, name)
    BY <1>1, <1>2, <2>2, ElementAppended
  <2>3. CASE rOpened # <<>> /\ Last(rOpened) = name /\ rOpened' = Front(rOpened)
    BY <1>1, <1>2, <2>3, ElementClosed
  <2> QED
    BY <2>1, <2>2, <2>3
<1>4. \E E : (\A e \in E : e.kind \in Kinds) /\ rEvents' \in Seq(E)
  BY DEF ReaderTypeOK
<1>5. ReaderTypeOK'
  BY <1>3, <1>4 DEF ReaderTypeOK
<1>6. Matched'
  BY <1>3 DEF Matched
<1> QED
  BY <1>5, <1>6

(* The start of a collection is delivered.                                  *)
LEMMA StartDelivered ==
  ASSUME ReaderTypeOK, Matched, NEW e, e.kind \in Collections,
         rOpened' = Append(rOpened, e.kind), R!Deliver(e)
  PROVE  ReaderTypeOK' /\ Matched'
<1>1. PICK S : rOpened \in Seq(S)
  BY DEF ReaderTypeOK
<1>2. rEvents' = Append(rEvents, e) /\ rElement' = "none"
  BY DEF R!Deliver
<1>3. e.kind \in Kinds
  BY DEF Kinds, Collections
<1>4. /\ \E E : (\A x \in E : x.kind \in Kinds) /\ rEvents' \in Seq(E)
      /\ R!OpenCollections(rEvents') = R!After(R!OpenCollections(rEvents), e)
  BY <1>2, <1>3, EventAppended
<1>5. /\ \E E : rOpened' \in Seq(E)
      /\ R!CollectionsAmong(rOpened') = R!Kept(R!CollectionsAmong(rOpened), e.kind)
  BY <1>1, ElementAppended
<1>6. \A ns : R!After(ns, e) = R!Kept(ns, e.kind)
  BY DEF R!After, R!Kept, Collections
<1>7. ReaderTypeOK'
  BY <1>2, <1>4, <1>5 DEF ReaderTypeOK
<1>8. Matched'
  BY <1>4, <1>5, <1>6 DEF Matched
<1> QED
  BY <1>7, <1>8

(* The end of a collection is delivered.                                    *)
LEMMA EndDelivered ==
  ASSUME ReaderTypeOK, Matched, NEW e, e.kind = "end",
         rOpened # <<>>, Last(rOpened) \in Collections, rOpened' = Front(rOpened),
         R!Deliver(e)
  PROVE  ReaderTypeOK' /\ Matched'
<1> DEFINE rest == R!CollectionsAmong(rOpened')
<1>1. PICK S : rOpened \in Seq(S)
  BY DEF ReaderTypeOK
<1>2. rEvents' = Append(rEvents, e) /\ rElement' = "none"
  BY DEF R!Deliver
<1>3. e.kind \in Kinds
  BY DEF Kinds
<1>4. /\ \E E : (\A x \in E : x.kind \in Kinds) /\ rEvents' \in Seq(E)
      /\ R!OpenCollections(rEvents') = R!After(R!OpenCollections(rEvents), e)
  BY <1>2, <1>3, EventAppended
<1>5. /\ rOpened' \in Seq(S)
      /\ R!CollectionsAmong(rOpened) = R!Kept(rest, Last(rOpened))
      /\ rest \in Seq(Collections)
  BY <1>1, ElementClosed
<1>6. R!OpenCollections(rEvents) = Append(rest, Last(rOpened))
  BY <1>5 DEF Matched, R!Kept, Collections
<1>7. Append(rest, Last(rOpened)) # <<>> /\ Front(Append(rest, Last(rOpened))) = rest
  BY <1>5, FrontOfAppend, AppendFacts
<1> HIDE DEF rest
<1>8. \A ns : ns # <<>> => R!After(ns, e) = Front(ns)
  BY SameStack DEF R!After
<1>9. R!OpenCollections(rEvents') = rest
  BY <1>4, <1>6, <1>7, <1>8
<1>10. ReaderTypeOK'
  BY <1>2, <1>4, <1>5 DEF ReaderTypeOK
<1>11. Matched'
  BY <1>9 DEF Matched, rest
<1> QED
  BY <1>10, <1>11

(* A value is delivered where its element opens, or where it closes.        *)
LEMMA ValueDelivered ==
  ASSUME ReaderTypeOK, Matched, NEW e, e.kind = "value", NEW name, name \notin Collections,
         \/ rOpened' = Append(rOpened, name)
         \/ rOpened # <<>> /\ Last(rOpened) = name /\ rOpened' = Front(rOpened),
         R!Deliver(e)
  PROVE  ReaderTypeOK' /\ Matched'
<1>1. PICK S : rOpened \in Seq(S)
  BY DEF ReaderTypeOK
<1>2. rEvents' = Append(rEvents, e) /\ rElement' = "none"
  BY DEF R!Deliver
<1>3. e.kind \in Kinds
  BY DEF Kinds
<1>4. /\ \E E : (\A x \in E : x.kind \in Kinds) /\ rEvents' \in Seq(E)
      /\ R!OpenCollections(rEvents') = R!After(R!OpenCollections(rEvents), e)
  BY <1>2, <1>3, EventAppended
<1>5. \A ns : R!After(ns, e) = ns
  BY DEF R!After
<1>6. \A ns : R!Kept(ns, name) = ns
  BY DEF R!Kept, Collections
<1>7. /\ \E E : rOpened' \in Seq(E)
      /\ R!CollectionsAmong(rOpened') = R!CollectionsAmong(rOpened)
  <2>1. CASE rOpened' = Append(rOpened, name)
    BY <1>1, <1>6, <2>1, ElementAppended
  <2>2. CASE rOpened # <<>> /\ Last(rOpened) = name /\ rOpened' = Front(rOpened)
    BY <1>1, <1>6, <2>2, ElementClosed
  <2> QED
    BY <2>1, <2>2
<1>8. ReaderTypeOK'
  BY <1>2, <1>4, <1>7 DEF ReaderTypeOK
<1>9. Matched'
  BY <1>4, <1>5, <1>7 DEF Matched
<1> QED
  BY <1>8, <1>9

(* A reader that has read nothing satisfies it. *)
LEMMA InitRInv == RoundTripInit => RInv
<1> SUFFICES ASSUME RoundTripInit
             PROVE  RInv
  OBVIOUS
<1> DEFINE e == <<>>
<1>1. rOpened = e /\ rEvents = e /\ rElement = "none"
  BY DEF RoundTripInit
<1>2. e \in Seq({})
  BY EmptySeq
<1> HIDE DEF e
<1>3. ReaderTypeOK
  BY <1>1, <1>2 DEF ReaderTypeOK
<1>4. WithinElement
  BY <1>1 DEF WithinElement
<1>5. Outcome(R!OpenCollections(e), e, <<>>, [x \in Opens \X {} |-> R!After(x[1], x[2])])
  BY <1>2, OpenCollectionsFollow
<1>6. Outcome(R!CollectionsAmong(e), e, <<>>,
              [x \in Seq(Collections) \X {} |-> R!Kept(x[1], x[2])])
  BY <1>2, CollectionsAmongFollow
<1>7. R!OpenCollections(e) = <<>> /\ R!CollectionsAmong(e) = <<>>
  <2>1. e = <<>>
    BY DEF e
  <2> QED
    BY <1>5, <1>6, <2>1, OutcomeOfEmpty
<1>8. Matched
  BY <1>1, <1>7 DEF Matched
<1> QED
  BY <1>3, <1>4, <1>8 DEF RInv

(* The tokens between elements. *)
LEMMA TopRInv ==
  ASSUME BooleansAssumption, RInv, ~rFinished, ~rFinished',
         R!Declaration \/ R!StartElement \/ R!EndElement \/ R!TextBetween
           \/ R!OtherBetween \/ R!EndOfDocument
  PROVE  ReaderTypeOK' /\ WithinElement' /\ Matched'
<1> DEFINE t == R!Peek
<1>1. ReaderTypeOK /\ Matched /\ rElement \in ValueElements \cup {"none"}
  BY DEF RInv, ReaderTypeOK
<1>2. ASSUME R!AtTop({"start"})
      PROVE  t.kind = "start" /\ rOpened' = Append(rOpened, t.name) /\ rElement = "none"
  BY <1>2, ParserSteps DEF R!AtTop
<1>3. ASSUME R!AtTop({"end"})
      PROVE  /\ rOpened # <<>> /\ Last(rOpened) = t.name /\ rOpened' = Front(rOpened)
             /\ rElement = "none"
  BY <1>3, ParserSteps DEF R!AtTop
<1>4. ASSUME NEW k \in {"text", "decl", "other", "eof"}, R!AtTop({k})
      PROVE  rOpened' = rOpened /\ rElement = "none"
  <2>1. R!Advance(t) /\ ~R!Mismatched(t) /\ t.kind = k /\ rElement = "none"
    BY <1>4 DEF R!AtTop
  <2> QED
    BY <2>1, ParserSteps
<1>5. ASSUME R!Skip
      PROVE  rEvents' = rEvents /\ rElement' = rElement
  BY <1>5 DEF R!Skip
<1>6. ASSUME NEW e, R!Deliver(e)
      PROVE  rElement' = "none"
  BY <1>6 DEF R!Deliver
<1>7. ~R!Fail
  BY DEF R!Fail
<1> HIDE DEF t
<1>8. CASE R!Declaration \/ R!TextBetween \/ R!OtherBetween \/ R!EndOfDocument
  <2>1. rOpened' = rOpened /\ rElement = "none"
    BY <1>4, <1>8 DEF R!Declaration, R!TextBetween, R!OtherBetween, R!EndOfDocument
  <2>2. rEvents' = rEvents /\ rElement' = rElement
    <3>1. CASE R!Declaration \/ R!EndOfDocument
      BY <3>1 DEF R!Declaration, R!EndOfDocument
    <3>2. CASE R!TextBetween \/ R!OtherBetween
      <4>1. R!Skip
        BY <1>7, <3>2 DEF R!TextBetween, R!OtherBetween
      <4> QED
        BY <1>5, <4>1
    <3> QED
      BY <1>8, <3>1, <3>2
  <2>3. "plist" \notin Collections
    BY DEF Collections
  <2>4. ReaderTypeOK' /\ Matched'
    BY <1>1, <2>1, <2>2, <2>3, QuietStep
  <2> QED
    BY <2>1, <2>2, <2>4 DEF WithinElement
<1>9. CASE R!EndElement
  <2>1. R!AtTop({"end"})
    BY <1>9 DEF R!EndElement
  <2>2. CASE t.name \in Collections
    <3>1. R!Deliver(R!Event("end", <<>>))
      BY <1>9, <2>2 DEF R!EndElement, Collections, t
    <3>2. R!Event("end", <<>>).kind = "end"
      BY DEF R!Event
    <3>3. ReaderTypeOK' /\ Matched'
      BY <1>1, <1>3, <2>1, <2>2, <3>1, <3>2, EndDelivered
    <3> QED
      BY <1>6, <3>1, <3>3 DEF WithinElement
  <2>3. CASE t.name \notin Collections
    <3>1. R!Skip
      BY <1>9, <2>3 DEF R!EndElement, Collections, t
    <3>2. rEvents' = rEvents /\ rElement' = "none"
      BY <1>3, <1>5, <2>1, <3>1
    <3>3. ReaderTypeOK' /\ Matched'
      BY <1>1, <1>3, <2>1, <2>3, <3>2, QuietStep
    <3> QED
      BY <3>2, <3>3 DEF WithinElement
  <2> QED
    BY <2>2, <2>3
<1>10. CASE R!StartElement
  <2>1. t.kind = "start" /\ rOpened' = Append(rOpened, t.name) /\ rElement = "none"
    BY <1>2, <1>10 DEF R!StartElement
  <2>2. PICK S : rOpened \in Seq(S)
    BY <1>1 DEF ReaderTypeOK
  <2>3. rOpened' # <<>> /\ Last(rOpened') = t.name
    <3>1. rOpened \in Seq(S \cup {t.name})
      BY <2>2
    <3> QED
      BY <2>1, <3>1, AppendFacts, FrontOfAppend
  <2>4. CASE t.name = "plist"
    <3>1. R!Skip /\ t.name \notin Collections
      BY <1>10, <2>4 DEF R!StartElement, t, Collections
    <3>2. rEvents' = rEvents /\ rElement' = "none"
      BY <1>5, <2>1, <3>1
    <3>3. ReaderTypeOK' /\ Matched'
      BY <1>1, <2>1, <3>1, <3>2, QuietStep
    <3> QED
      BY <3>2, <3>3 DEF WithinElement
  <2>5. CASE t.name \in Collections
    <3>1. R!Deliver(R!Event(t.name, <<>>))
      BY <1>10, <2>5 DEF R!StartElement, t, Collections
    <3>2. R!Event(t.name, <<>>).kind = t.name
      BY DEF R!Event
    <3>3. ReaderTypeOK' /\ Matched'
      BY <1>1, <2>1, <2>5, <3>1, <3>2, StartDelivered
    <3> QED
      BY <1>6, <3>1, <3>3 DEF WithinElement
  <2>6. CASE t.name \in Booleans
    <3>1. t.name \notin {"plist", "array", "dict"}
      BY <2>6 DEF BooleansAssumption
    <3>2. R!Deliver(R!Event("value", <<t.name>>))
      BY <1>10, <2>6, <3>1 DEF R!StartElement, t
    <3>3. R!Event("value", <<t.name>>).kind = "value" /\ t.name \notin Collections
      BY <3>1 DEF R!Event, Collections
    <3>4. ReaderTypeOK' /\ Matched'
      BY <1>1, <2>1, <3>2, <3>3, ValueDelivered
    <3> QED
      BY <1>6, <3>2, <3>4 DEF WithinElement
  <2>7. CASE t.name \in ValueElements /\ t.name \notin Booleans
    <3>1. rElement' = t.name /\ rEvents' = rEvents /\ t.name \notin Collections
      BY <1>10, <2>7 DEF R!StartElement, t, ValueElements, Collections
    <3>2. ReaderTypeOK' /\ Matched'
      BY <1>1, <2>1, <2>7, <3>1, QuietStep
    <3> QED
      BY <2>3, <3>1, <3>2 DEF WithinElement
  <2>8. CASE t.name \notin {"plist"} \cup Collections \cup Booleans \cup ValueElements
    <3>1. R!Fail
      BY <1>10, <2>8 DEF R!StartElement, t, ValueElements, Collections
    <3> QED
      BY <1>7, <3>1
  <2> QED
    BY <2>4, <2>5, <2>6, <2>7, <2>8
<1> QED
  BY <1>8, <1>9, <1>10

(* The tokens within the element of a value. *)
LEMMA ContentRInv ==
  ASSUME RInv, ~rFinished, ~rFinished',
         R!ContentText \/ R!ContentOther \/ R!ContentBroken \/ R!EndOfContent
  PROVE  ReaderTypeOK' /\ WithinElement' /\ Matched'
<1> DEFINE t == R!Peek
<1>1. ReaderTypeOK /\ WithinElement /\ Matched /\ rElement \in ValueElements \cup {"none"}
  BY DEF RInv, ReaderTypeOK
<1>2. ~R!Fail
  BY DEF R!Fail
<1> HIDE DEF t
<1>3. CASE R!ContentText \/ R!ContentOther
  <2>1. R!Advance(t) /\ ~R!Mismatched(t) /\ t.kind \in {"text", "other", "decl"}
    BY <1>3 DEF R!ContentText, R!ContentOther, R!Within, t
  <2>2. rOpened' = rOpened
    BY <2>1, ParserSteps
  <2>3. rEvents' = rEvents /\ rElement' = rElement
    BY <1>3 DEF R!ContentText, R!ContentOther
  <2>4. "plist" \notin Collections
    BY DEF Collections
  <2>5. ReaderTypeOK' /\ Matched'
    BY <1>1, <2>2, <2>3, <2>4, QuietStep
  <2> QED
    BY <1>1, <2>2, <2>3, <2>5 DEF WithinElement
<1>4. CASE R!ContentBroken
  BY <1>2, <1>4 DEF R!ContentBroken
<1>5. CASE R!EndOfContent
  <2>1. R!Advance(t) /\ ~R!Mismatched(t) /\ t.kind = "end" /\ rElement # "none"
    BY <1>5 DEF R!EndOfContent, R!Within, t
  <2>2. rOpened # <<>> /\ Last(rOpened) = t.name /\ rOpened' = Front(rOpened)
    BY <2>1, ParserSteps
  <2>3. t.name \notin Collections
    BY <1>1, <2>1, <2>2 DEF WithinElement, ValueElements, Collections
  <2>4. R!Deliver(R!Event("value", R!Stripped))
    BY <1>2, <1>5 DEF R!EndOfContent
  <2>5. R!Event("value", R!Stripped).kind = "value"
    BY DEF R!Event
  <2>6. ReaderTypeOK' /\ Matched'
    BY <1>1, <2>2, <2>3, <2>4, <2>5, ValueDelivered
  <2>7. rElement' = "none"
    BY <2>4 DEF R!Deliver
  <2> QED
    BY <2>6, <2>7 DEF WithinElement
<1> QED
  BY <1>3, <1>4, <1>5

(* Every step keeps the invariant. *)
LEMMA NextRInv == BooleansAssumption /\ RInv /\ [RoundTripNext]_allVars => RInv'
<1> SUFFICES ASSUME BooleansAssumption, RInv, [RoundTripNext]_allVars
             PROVE  RInv'
  OBVIOUS
<1>1. ASSUME UNCHANGED reader
      PROVE  RInv'
  <2>1. rEvents' = rEvents /\ rOpened' = rOpened /\ rElement' = rElement
        /\ rFinished' = rFinished
    BY <1>1 DEF reader
  <2> QED
    BY <2>1 DEF RInv, ReaderTypeOK, WithinElement, Matched
<1>2. CASE Write \/ Turn \/ UNCHANGED allVars
  BY <1>1, <1>2 DEF Write, Turn, allVars
<1>3. CASE Read
  <2> SUFFICES ASSUME ~rFinished'
               PROVE  ReaderTypeOK' /\ WithinElement' /\ Matched'
    BY DEF RInv
  <2>1. R!Read
    BY <1>3 DEF Read
  <2>2. CASE R!ReadError
    BY <2>2 DEF R!ReadError, R!Fail
  <2>3. CASE R!Declaration \/ R!StartElement \/ R!EndElement \/ R!TextBetween
               \/ R!OtherBetween \/ R!EndOfDocument
    <3>1. ~rFinished
      BY <2>3 DEF R!Declaration, R!StartElement, R!EndElement, R!TextBetween,
                  R!OtherBetween, R!EndOfDocument, R!AtTop
    <3> QED
      BY <2>3, <3>1, TopRInv
  <2>4. CASE R!ContentText \/ R!ContentOther \/ R!ContentBroken \/ R!EndOfContent
    <3>1. ~rFinished
      BY <2>4 DEF R!ContentText, R!ContentOther, R!ContentBroken, R!EndOfContent, R!Within
    <3> QED
      BY <2>4, <3>1, ContentRInv
  <2> QED
    BY <2>1, <2>2, <2>3, <2>4 DEF R!Read
<1>4. CASE ReadFinished
  <2>1. rFinished /\ rFinished' = rFinished
    BY <1>4 DEF ReadFinished, R!Finished
  <2> QED
    BY <2>1 DEF RInv
<1> QED
  BY <1>2, <1>3, <1>4 DEF RoundTripNext

(* In any document, whether or not a writer wrote it, the collections that  *)
(* the events leave open are those whose elements the document has open:    *)
(* as in XmlReader::read_next, where a start or an end is an event exactly  *)
(* when it is that of an array or a dict, and within a value neither is.    *)
THEOREM CollectionsMatch == RoundTripSpec => []EventsMatchElements
<1>1. RInv => EventsMatchElements
  BY DEF RInv, Matched, EventsMatchElements, R!EventsMatchElements
<1> QED
  BY <1>1, BooleansAssumption, InitRInv, NextRInv, PTL DEF RoundTripSpec

(***************************************************************************)
(* Nesting: the tags written and the elements on the stack are followed    *)
(* side by side.                                                           *)
(***************************************************************************)
Names == Values \cup {"xml", "DOCTYPE", "plist", "array", "dict", "key", "string", "data",
                      "text", "space", "mismatch"}
Tokens == [kind : {"start", "end", "text", "decl"}, name : Names]

(* What a token leads to. *)
LEMMA TaggedType ==
  ASSUME NEW open \in Seq(Names), NEW t \in Tokens
  PROVE  Tagged(open, t) \in Seq(Names)
<1>1. t.kind \in {"start", "end", "text", "decl"} /\ t.name \in Names /\ "mismatch" \in Names
  BY DEF Tokens, Names
<1> HIDE DEF Names
<1>2. Append(open, t.name) \in Seq(Names) /\ <<"mismatch">> \in Seq(Names)
  BY <1>1, AppendFacts
<1>3. open # <<>> => Front(open) \in Seq(Names)
  BY FrontLast
<1> QED
  BY <1>1, <1>2, <1>3 DEF Tagged

(* The tokens are followed one by one. *)
LEMMA OpenTagsFollow ==
  ASSUME NEW ts \in Seq(Tokens)
  PROVE  /\ OpenTags(ts) \in Seq(Names)
         /\ Outcome(OpenTags(ts), ts, <<>>,
                    [x \in Seq(Names) \X Tokens |-> Tagged(x[1], x[2])])
<1> DEFINE V == Seq(Names)
           h == [x \in V \X Tokens |-> Tagged(x[1], x[2])]
           n == Len(ts)
           Counts(f) == f = [k \in 0..n |-> IF k = 0 THEN <<>> ELSE Tagged(f[k - 1], ts[k])]
           open == CHOOSE f : Counts(f)
<1>1. n \in Nat /\ (\A k \in 1..n : ts[k] \in Tokens) /\ <<>> \in V
  BY LenProperties, ElementOfSeq, EmptySeq
<1>2. h \in [V \X Tokens -> V]
  BY TaggedType
<1>3. \A o \in V, t \in Tokens : h[<<o, t>>] = Tagged(o, t)
  OBVIOUS
<1> HIDE DEF h, V
<1>4. PICK g \in [0..n -> V] : Scans(g, ts, <<>>, h)
  BY <1>1, <1>2, ScanExists
<1>5. g[0] = <<>> /\ \A k \in 1..n : g[k] = h[<<g[k - 1], ts[k]>>]
  BY <1>4 DEF Scans
<1> HIDE DEF n
<1>6. \A k \in 1..n : g[k] = Tagged(g[k - 1], ts[k])
  <2> SUFFICES ASSUME NEW k \in 1..n
               PROVE  g[k] = Tagged(g[k - 1], ts[k])
    OBVIOUS
  <2>1. k - 1 \in 0..n
    BY <1>1
  <2>2. g[k - 1] \in V /\ ts[k] \in Tokens
    BY <1>1, <2>1
  <2> QED
    BY <1>3, <1>5, <2>2
<1>7. Counts(g)
  <2> DEFINE f == [k \in 0..n |-> IF k = 0 THEN <<>> ELSE Tagged(g[k - 1], ts[k])]
  <2>1. ASSUME NEW k \in 0..n
        PROVE  g[k] = f[k]
    BY <1>1, <1>5, <1>6
  <2>2. f = [k \in 0..n |-> f[k]]
    OBVIOUS
  <2> HIDE DEF f
  <2>3. g = f
    BY <2>1, <2>2
  <2> QED
    BY <2>3 DEF f
<1>8. Counts(open)
  <2> HIDE DEF Counts
  <2> QED
    BY <1>7
<1> HIDE DEF open
<1>9. open[0] = <<>> /\ \A k \in 1..n : open[k] = Tagged(open[k - 1], ts[k])
  BY <1>1, <1>8
<1>10. \A k \in 1..n : open[k - 1] \in V => open[k] = h[<<open[k - 1], ts[k]>>]
  BY <1>1, <1>3, <1>9
<1>11. Scans(open, ts, <<>>, h) /\ open[n] \in V
  <2>1. <<>> \in V /\ ts \in Seq(Tokens) /\ n = Len(ts)
    BY <1>1 DEF n
  <2>2. StaysAmong(open, ts, <<>>, h, V)
    BY <1>9, <1>10 DEF StaysAmong, n
  <2>3. Scans(open, ts, <<>>, h) /\ open[Len(ts)] \in V
    BY <1>2, <2>1, <2>2, ScanOfValues
  <2> QED
    BY <2>1, <2>3
<1>12. OpenTags(ts) = open[n]
  BY DEF OpenTags, open, n, Counts
<1> QED
  BY <1>11, <1>12 DEF h, n, V, Outcome

(* Whether a token ends a plist. *)
Ends(t) == IF t = PlistEnd[1] THEN 1 ELSE 0

(* The plists that the tokens end are counted one by one. *)
LEMMA PlistsInFollow ==
  ASSUME NEW ts \in Seq(Tokens)
  PROVE  /\ PlistsIn(ts) \in Nat
         /\ Outcome(PlistsIn(ts), ts, 0, [x \in Nat \X Tokens |-> x[1] + Ends(x[2])])
<1> DEFINE h == [x \in Nat \X Tokens |-> x[1] + Ends(x[2])]
           n == Len(ts)
           Counts(f) == f = [k \in 0..n |-> IF k = 0 THEN 0 ELSE f[k - 1] + Ends(ts[k])]
           ended == CHOOSE f : Counts(f)
<1>1. n \in Nat /\ \A k \in 1..n : ts[k] \in Tokens
  BY LenProperties, ElementOfSeq
<1>2. \A t : Ends(t) \in Nat
  BY DEF Ends
<1>3. h \in [Nat \X Tokens -> Nat]
  <2>1. ASSUME NEW x \in Nat \X Tokens
        PROVE  x[1] + Ends(x[2]) \in Nat
    <3>1. x[1] \in Nat /\ Ends(x[2]) \in Nat
      BY <1>2
    <3> QED
      BY <3>1
  <2> QED
    BY <2>1
<1>4. \A i \in Nat, t \in Tokens : h[<<i, t>>] = i + Ends(t)
  OBVIOUS
<1> HIDE DEF h
<1>5. PICK g \in [0..n -> Nat] : Scans(g, ts, 0, h)
  <2>1. 0 \in Nat
    OBVIOUS
  <2> QED
    BY <1>3, <2>1, ScanExists
<1>6. g[0] = 0 /\ \A k \in 1..n : g[k] = h[<<g[k - 1], ts[k]>>]
  BY <1>5 DEF Scans
<1> HIDE DEF n
<1>7. \A k \in 1..n : g[k] = g[k - 1] + Ends(ts[k])
  <2> SUFFICES ASSUME NEW k \in 1..n
               PROVE  g[k] = g[k - 1] + Ends(ts[k])
    OBVIOUS
  <2>1. k - 1 \in 0..n
    BY <1>1
  <2>2. g[k - 1] \in Nat /\ ts[k] \in Tokens
    BY <1>1, <2>1
  <2> QED
    BY <1>4, <1>6, <2>2
<1>8. Counts(g)
  <2> DEFINE f == [k \in 0..n |-> IF k = 0 THEN 0 ELSE g[k - 1] + Ends(ts[k])]
  <2>1. ASSUME NEW k \in 0..n
        PROVE  g[k] = f[k]
    BY <1>1, <1>6, <1>7
  <2>2. f = [k \in 0..n |-> f[k]]
    OBVIOUS
  <2> HIDE DEF f
  <2>3. g = f
    BY <2>1, <2>2
  <2> QED
    BY <2>3 DEF f
<1>9. Counts(ended)
  <2> HIDE DEF Counts
  <2> QED
    BY <1>8
<1> HIDE DEF ended
<1>10. ended[0] = 0 /\ \A k \in 1..n : ended[k] = ended[k - 1] + Ends(ts[k])
  BY <1>1, <1>9
<1>11. \A k \in 1..n : ended[k - 1] \in Nat => ended[k] = h[<<ended[k - 1], ts[k]>>]
  BY <1>1, <1>4, <1>10
<1>12. Scans(ended, ts, 0, h) /\ ended[n] \in Nat
  <2>1. 0 \in Nat /\ ts \in Seq(Tokens) /\ n = Len(ts)
    BY DEF n
  <2>2. StaysAmong(ended, ts, 0, h, Nat)
    BY <1>10, <1>11 DEF StaysAmong, n
  <2>3. Scans(ended, ts, 0, h) /\ ended[Len(ts)] \in Nat
    BY <1>3, <2>1, <2>2, ScanOfValues
  <2> QED
    BY <2>1, <2>3
<1>13. PlistsIn(ts) = ended[n]
  BY DEF PlistsIn, ended, n, Counts, Ends
<1> QED
  BY <1>12, <1>13 DEF h, n, Outcome

(* What one token more leads to. *)
LEMMA TokenAppended ==
  ASSUME NEW ts \in Seq(Tokens), NEW t \in Tokens
  PROVE  /\ Append(ts, t) \in Seq(Tokens)
         /\ OpenTags(Append(ts, t)) = Tagged(OpenTags(ts), t)
         /\ PlistsIn(Append(ts, t)) = PlistsIn(ts) + Ends(t)
         /\ OpenTags(ts) \in Seq(Names) /\ PlistsIn(ts) \in Nat
<1> DEFINE h == [x \in Seq(Names) \X Tokens |-> Tagged(x[1], x[2])]
           k == [x \in Nat \X Tokens |-> x[1] + Ends(x[2])]
           us == Append(ts, t)
           o == OpenTags(ts)
           p == OpenTags(us)
           i == PlistsIn(ts)
           j == PlistsIn(us)
<1> HIDE DEF Tokens
<1>1. us \in Seq(Tokens)
  BY AppendFacts
<1> HIDE DEF us
<1>2. o \in Seq(Names) /\ Outcome(o, ts, <<>>, h)
  BY OpenTagsFollow
<1>3. Outcome(p, us, <<>>, h)
  BY <1>1, OpenTagsFollow
<1>4. i \in Nat /\ Outcome(i, ts, 0, k)
  BY PlistsInFollow
<1>5. Outcome(j, us, 0, k)
  BY <1>1, PlistsInFollow
<1>6. h[<<o, t>>] = Tagged(o, t)
  BY <1>2
<1>7. k[<<i, t>>] = i + Ends(t)
  BY <1>4
<1> HIDE DEF h, k, o, p, i, j
<1>8. p = h[<<o, t>>]
  BY <1>2, <1>3, OutcomeOfAppend DEF us
<1>9. j = k[<<i, t>>]
  BY <1>4, <1>5, OutcomeOfAppend DEF us
<1> QED
  BY <1>1, <1>2, <1>4, <1>6, <1>7, <1>8, <1>9 DEF us, o, p, i, j

(***************************************************************************)
(* What tokens lead to, whatever they follow.                              *)
(***************************************************************************)
(* Tokens that change nothing. *)
Silent(us) ==
  /\ us \in Seq(Tokens)
  /\ \A ts \in Seq(Tokens) :
       OpenTags(ts \o us) = OpenTags(ts) /\ PlistsIn(ts \o us) = PlistsIn(ts)

(* Tokens that turn the elements open from some into others. *)
Turns(us, from, to) ==
  /\ us \in Seq(Tokens)
  /\ \A ts \in Seq(Tokens), base \in Seq(Names) :
       OpenTags(ts) = base \o from => OpenTags(ts \o us) = base \o to
  /\ \A ts \in Seq(Tokens) : PlistsIn(ts \o us) = PlistsIn(ts)

LEMMA SilentTurns == ASSUME NEW us, Silent(us), NEW s PROVE Turns(us, s, s)
  BY DEF Silent, Turns

LEMMA SilentConcat ==
  ASSUME NEW us, NEW vs, Silent(us), Silent(vs)
  PROVE  Silent(us \o vs)
<1>1. us \in Seq(Tokens) /\ vs \in Seq(Tokens)
  BY DEF Silent
<1> HIDE DEF Tokens
<1>2. us \o vs \in Seq(Tokens)
  BY <1>1, ConcatFacts
<1>3. ASSUME NEW ts \in Seq(Tokens)
      PROVE  /\ OpenTags(ts \o (us \o vs)) = OpenTags(ts)
             /\ PlistsIn(ts \o (us \o vs)) = PlistsIn(ts)
  <2>1. ts \o (us \o vs) = (ts \o us) \o vs
    BY <1>1, ConcatAssociates, SMTT(30)
  <2>2. ts \o us \in Seq(Tokens)
    BY <1>1, ConcatFacts
  <2>3. OpenTags(ts \o us) = OpenTags(ts) /\ PlistsIn(ts \o us) = PlistsIn(ts)
    BY DEF Silent
  <2> DEFINE ws == ts \o us
  <2>4. OpenTags(ws \o vs) = OpenTags(ws) /\ PlistsIn(ws \o vs) = PlistsIn(ws)
    BY <2>2 DEF Silent
  <2> QED
    BY <2>1, <2>3, <2>4
<1> QED
  BY <1>2, <1>3 DEF Silent

LEMMA SilentToken ==
  ASSUME NEW t \in Tokens, t.kind \in {"text", "decl"}
  PROVE  Silent(<<t>>)
<1>1. \A open : Tagged(open, t) = open
  BY DEF Tagged
<1>2. Ends(t) = 0
  BY DEF Ends, PlistEnd, Token
<1> HIDE DEF Tokens
<1>3. <<t>> \in Seq(Tokens)
  OBVIOUS
<1>4. ASSUME NEW ts \in Seq(Tokens)
      PROVE  OpenTags(ts \o <<t>>) = OpenTags(ts) /\ PlistsIn(ts \o <<t>>) = PlistsIn(ts)
  <2>1. ts \o <<t>> = Append(ts, t)
    BY ConcatOfOne
  <2>2. /\ OpenTags(Append(ts, t)) = Tagged(OpenTags(ts), t)
        /\ PlistsIn(Append(ts, t)) = PlistsIn(ts) + Ends(t)
        /\ PlistsIn(ts) \in Nat
    BY TokenAppended
  <2>3. PlistsIn(Append(ts, t)) = PlistsIn(ts)
    BY <1>2, <2>2
  <2> QED
    BY <1>1, <2>1, <2>2, <2>3
<1> QED
  BY <1>3, <1>4 DEF Silent

LEMMA SilentElement ==
  ASSUME NEW n \in Names, n # "plist", NEW content, Silent(content)
  PROVE  Silent(Element(n, content))
<1> DEFINE a == Token("start", n)
           b == Token("end", n)
           us == Element(n, content)
<1>1. a \in Tokens /\ b \in Tokens /\ content \in Seq(Tokens)
  BY DEF Silent, Tokens, Token
<1>2. Ends(a) = 0 /\ Ends(b) = 0
  BY DEF Ends, PlistEnd, Token
<1>3. ASSUME NEW open \in Seq(Names)
      PROVE  /\ Tagged(open, a) = Append(open, n)
             /\ Tagged(Append(open, n), b) = open
  <2>1. Tagged(open, a) = Append(open, n)
    BY DEF Tagged, Token
  <2>2. /\ Append(open, n) # <<>> /\ Last(Append(open, n)) = n
        /\ Front(Append(open, n)) = open
    BY AppendFacts, FrontOfAppend
  <2>3. b.kind = "end" /\ b.name = n
    BY DEF Token
  <2> QED
    BY <2>1, <2>2, <2>3 DEF Tagged
<1>4. us = <<a>> \o content \o <<b>>
  BY DEF Element
<1> HIDE DEF a, b, us, Tokens, Names
<1>5. <<a>> \in Seq(Tokens) /\ <<b>> \in Seq(Tokens)
  BY <1>1
<1>6. us \in Seq(Tokens)
  BY <1>1, <1>4, <1>5, ConcatFacts
<1>7. ASSUME NEW ts \in Seq(Tokens)
      PROVE  OpenTags(ts \o us) = OpenTags(ts) /\ PlistsIn(ts \o us) = PlistsIn(ts)
  <2> DEFINE xs == ts \o <<a>>
             ys == xs \o content
             zs == ys \o <<b>>
  <2>1. xs = Append(ts, a) /\ xs \in Seq(Tokens)
    BY <1>1, <1>5, ConcatOfOne, ConcatFacts
  <2> HIDE DEF xs
  <2>2. ys \in Seq(Tokens) /\ OpenTags(ys) = OpenTags(xs) /\ PlistsIn(ys) = PlistsIn(xs)
    BY <1>1, <2>1, ConcatFacts DEF Silent
  <2> HIDE DEF ys
  <2>3. zs = Append(ys, b)
    BY <1>1, <2>2, ConcatOfOne
  <2> HIDE DEF zs
  <2>4. /\ OpenTags(xs) = Tagged(OpenTags(ts), a) /\ PlistsIn(xs) = PlistsIn(ts) + Ends(a)
        /\ OpenTags(ts) \in Seq(Names) /\ PlistsIn(ts) \in Nat
    BY <1>1, <2>1, TokenAppended
  <2>5. OpenTags(zs) = Tagged(OpenTags(ys), b) /\ PlistsIn(zs) = PlistsIn(ys) + Ends(b)
    BY <1>1, <2>2, <2>3, TokenAppended
  <2>6. OpenTags(zs) = OpenTags(ts)
    BY <1>3, <2>2, <2>4, <2>5
  <2>7. PlistsIn(zs) = PlistsIn(ts)
    BY <1>2, <2>2, <2>4, <2>5
  <2>8. zs = ts \o us
    <3>1. <<a>> \o content \in Seq(Tokens)
      BY <1>1, <1>5, ConcatFacts
    <3>2. ts \o us = (ts \o (<<a>> \o content)) \o <<b>>
      BY <1>4, <1>5, <3>1, ConcatAssociates, SMTT(30)
    <3>3. ts \o (<<a>> \o content) = ys
      BY <1>1, <1>5, ConcatAssociates, SMTT(30) DEF xs, ys
    <3> QED
      BY <3>2, <3>3 DEF zs
  <2> QED
    BY <2>6, <2>7, <2>8
<1> QED
  BY <1>6, <1>7 DEF Silent, us

(* The tokens of the values that are not uids, and of an empty collection.  *)
LEMMA ElementsAreSilent ==
  ASSUME BooleansAssumption
  PROVE  /\ \A v \in Values \ Uids : Silent(ValueElement(v))
         /\ \A ty \in Collections : Silent(Element(ty, <<>>))
<1> DEFINE space == Token("text", "space")
<1>1. Silent(<<>>)
  <2> DEFINE e == <<>>
  <2>1. e \in Seq(Tokens)
    BY EmptySeq
  <2>2. \A ts \in Seq(Tokens) : ts \o e = ts
    BY ConcatOfNone
  <2> HIDE DEF e
  <2>3. Silent(e)
    BY <2>1, <2>2 DEF Silent
  <2> QED
    BY <2>3 DEF e
<1>2. ASSUME NEW v \in Values
      PROVE  Silent(<<Token("text", v)>>)
  <2>1. Token("text", v) \in Tokens /\ Token("text", v).kind \in {"text", "decl"}
    BY DEF Tokens, Token, Names
  <2> QED
    BY <2>1, SilentToken
<1>3. ASSUME NEW v \in Values
      PROVE  Silent(<<space, Token("text", v), space>>)
  <2> DEFINE t == Token("text", v)
  <2>1. space \in Tokens /\ space.kind \in {"text", "decl"} /\ t \in Tokens
    BY DEF Tokens, Token, Names
  <2>2. Silent(<<t>>)
    BY <1>2
  <2> HIDE DEF space, t
  <2>3. Silent(<<space>>)
    BY <2>1, SilentToken
  <2>4. <<space, t, space>> = (<<space>> \o <<t>>) \o <<space>>
    BY <2>1, TripleIsConcat
  <2>5. Silent((<<space>> \o <<t>>) \o <<space>>)
    BY <2>2, <2>3, SilentConcat
  <2> QED
    BY <2>4, <2>5 DEF t
<1> HIDE DEF space
<1>4. ASSUME NEW v \in Values \ Uids
      PROVE  Silent(ValueElement(v))
  <2> DEFINE name == IF expecting_key THEN "key" ELSE "string"
  <2>1. \/ v \in Booleans /\ ValueElement(v) = Element(v, <<>>)
        \/ v \in Texts /\ ValueElement(v) = Element("text", <<Token("text", v)>>)
        \/ v \in Datas /\ ValueElement(v) = Element("data", <<space, Token("text", v), space>>)
        \/ v \in Strings /\ ValueElement(v) = Element(name, <<Token("text", v)>>)
    BY DEF Values, ValueElement, space
  <2>2. /\ v \in Booleans => v \in Names /\ v # "plist"
        /\ name \in Names \ {"plist"} /\ {"text", "data"} \subseteq Names \ {"plist"}
    BY DEF Names, Values, BooleansAssumption
  <2> HIDE DEF name
  <2> QED
    BY <1>1, <1>2, <1>3, <2>1, <2>2, SilentElement
<1>5. ASSUME NEW ty \in Collections
      PROVE  Silent(Element(ty, <<>>))
  <2>1. ty \in Names /\ ty # "plist"
    BY DEF Collections, Names
  <2> QED
    BY <1>1, <2>1, SilentElement
<1> QED
  BY <1>4, <1>5

(* A collection pushed on what is open below it. *)
LEMMA PushedOnBase ==
  ASSUME NEW base \in Seq(Names), NEW s \in Seq(Names), NEW n \in Names
  PROVE  Append(base \o s, n) = base \o Append(s, n)
<1> HIDE DEF Names
<1>1. <<n>> \in Seq(Names)
  OBVIOUS
<1>2. base \o s \in Seq(Names)
  BY ConcatFacts
<1>3. (base \o s) \o <<n>> = base \o (s \o <<n>>)
  BY <1>1, ConcatAssociates, SMTT(30)
<1>4. (base \o s) \o <<n>> = Append(base \o s, n)
  BY <1>2, ConcatOfOne
<1>5. s \o <<n>> = Append(s, n)
  BY ConcatOfOne
<1> QED
  BY <1>3, <1>4, <1>5

(* The tags of the collections. *)
LEMMA TagsTurn ==
  ASSUME NEW s \in Seq(Collections)
  PROVE  /\ \A ty \in Collections : Turns(<<Token("start", ty)>>, s, Append(s, ty))
         /\ s # <<>> => Turns(<<Token("end", Last(s))>>, s, Front(s))
<1>1. Collections \subseteq Names /\ "plist" \notin Collections
  BY DEF Collections, Names
<1> HIDE DEF Collections, Names
<1>2. ASSUME NEW ty \in Collections
      PROVE  Turns(<<Token("start", ty)>>, s, Append(s, ty))
  <2> DEFINE t == Token("start", ty)
  <2>1. t \in Tokens /\ Ends(t) = 0 /\ \A open : Tagged(open, t) = Append(open, ty)
    BY <1>1 DEF Tokens, Token, Ends, PlistEnd, Tagged
  <2> HIDE DEF t, Tokens
  <2>2. <<t>> \in Seq(Tokens)
    BY <2>1
  <2>3. ASSUME NEW ts \in Seq(Tokens)
        PROVE  /\ OpenTags(ts \o <<t>>) = Append(OpenTags(ts), ty)
               /\ PlistsIn(ts \o <<t>>) = PlistsIn(ts)
    <3>1. ts \o <<t>> = Append(ts, t)
      BY <2>1, ConcatOfOne
    <3>2. /\ OpenTags(Append(ts, t)) = Tagged(OpenTags(ts), t)
          /\ PlistsIn(Append(ts, t)) = PlistsIn(ts) + Ends(t) /\ PlistsIn(ts) \in Nat
      BY <2>1, TokenAppended
    <3>3. PlistsIn(Append(ts, t)) = PlistsIn(ts)
      BY <2>1, <3>2
    <3> QED
      BY <2>1, <3>1, <3>2, <3>3, Zenon
  <2>4. ASSUME NEW base \in Seq(Names)
        PROVE  Append(base \o s, ty) = base \o Append(s, ty)
    <3>1. s \in Seq(Names)
      BY <1>1
    <3>2. ty \in Names
      BY <1>1
    <3> QED
      BY <3>1, <3>2, PushedOnBase
  <2> QED
    BY <2>2, <2>3, <2>4 DEF Turns, t
<1>3. ASSUME s # <<>>
      PROVE  Turns(<<Token("end", Last(s))>>, s, Front(s))
  <2> DEFINE n == Last(s)
             t == Token("end", n)
  <2>1. n \in Collections /\ Front(s) \in Seq(Collections) /\ s = Append(Front(s), n)
    BY <1>3, FrontLast, AppendOfFront
  <2> HIDE DEF n
  <2>2. t \in Tokens /\ t.kind = "end" /\ t.name = n /\ Ends(t) = 0
    BY <1>1, <2>1 DEF Tokens, Token, Ends, PlistEnd
  <2> HIDE DEF t, Tokens
  <2>3. <<t>> \in Seq(Tokens)
    BY <2>2
  <2>4. ASSUME NEW ts \in Seq(Tokens)
        PROVE  /\ OpenTags(ts \o <<t>>) = Tagged(OpenTags(ts), t)
               /\ PlistsIn(ts \o <<t>>) = PlistsIn(ts)
    <3>1. ts \o <<t>> = Append(ts, t)
      BY <2>2, ConcatOfOne
    <3>2. /\ OpenTags(Append(ts, t)) = Tagged(OpenTags(ts), t)
          /\ PlistsIn(Append(ts, t)) = PlistsIn(ts) + Ends(t) /\ PlistsIn(ts) \in Nat
      BY <2>2, TokenAppended
    <3>3. PlistsIn(Append(ts, t)) = PlistsIn(ts)
      BY <2>2, <3>2
    <3> QED
      BY <2>2, <3>1, <3>2, <3>3, Zenon
  <2>5. ASSUME NEW base \in Seq(Names)
        PROVE  Tagged(base \o s, t) = base \o Front(s)
    <3> DEFINE o == base \o Front(s)
    <3>1. Front(s) \in Seq(Names) /\ n \in Names
      BY <1>1, <2>1
    <3>2. o \in Seq(Names)
      BY <3>1, ConcatFacts
    <3>3. base \o s = Append(o, n)
      <4>1. Append(base \o Front(s), n) = base \o Append(Front(s), n)
        BY <3>1, PushedOnBase
      <4> QED
        BY <2>1, <4>1
    <3> HIDE DEF o
    <3>4. /\ Append(o, n) # <<>> /\ Last(Append(o, n)) = n
          /\ Front(Append(o, n)) = o
      BY <3>1, <3>2, AppendFacts, FrontOfAppend
    <3>5. Tagged(Append(o, n), t) = o
      BY <2>2, <3>4 DEF Tagged
    <3> QED
      BY <3>3, <3>5 DEF o
  <2> QED
    BY <2>3, <2>4, <2>5 DEF Turns, t, n
<1> QED
  BY <1>2, <1>3

(* The document's own tags. *)
LEMMA PlistTags ==
  ASSUME NEW ts \in Seq(Tokens)
  PROVE  /\ ts \o Prologue \in Seq(Tokens) /\ ts \o PlistEnd \in Seq(Tokens)
         /\ OpenTags(ts) = <<>> => OpenTags(ts \o Prologue) = <<"plist">>
         /\ PlistsIn(ts \o Prologue) = PlistsIn(ts)
         /\ OpenTags(ts) = <<"plist">> => OpenTags(ts \o PlistEnd) = <<>>
         /\ PlistsIn(ts \o PlistEnd) = PlistsIn(ts) + 1
         /\ PlistsIn(ts) \in Nat
<1> DEFINE a == Token("decl", "xml")
           b == Token("decl", "DOCTYPE")
           c == Token("start", "plist")
           e == Token("end", "plist")
<1>1. {a, b, c, e} \subseteq Tokens
  BY DEF Tokens, Token, Names
<1>2. /\ Ends(a) = 0 /\ Ends(b) = 0 /\ Ends(c) = 0 /\ Ends(e) = 1
  BY DEF Ends, PlistEnd, Token
<1>3. \A open : Tagged(open, a) = open /\ Tagged(open, b) = open
                /\ Tagged(open, c) = Append(open, "plist")
  BY DEF Tagged, Token
<1>4. Tagged(<<"plist">>, e) = <<>>
  <2>1. /\ <<"plist">> # <<>> /\ Last(<<"plist">>) = "plist" /\ Front(<<"plist">>) = <<>>
    BY DEF Last, Front
  <2>2. e.kind = "end" /\ e.name = "plist"
    BY DEF Token
  <2> QED
    BY <2>1, <2>2 DEF Tagged
<1>5. Prologue = <<a, b, c>> /\ PlistEnd = <<e>>
  BY DEF Prologue, PlistEnd
<1> HIDE DEF a, b, c, e, Tokens
<1> DEFINE us == Append(ts, a)
           vs == Append(us, b)
           ws == Append(vs, c)
           xs == Append(ts, e)
<1>6. ts \o PlistEnd = xs
  BY <1>1, <1>5, ConcatOfOne
<1>7. ts \o Prologue = ws
  <2>1. <<a>> \in Seq(Tokens) /\ <<b>> \in Seq(Tokens) /\ <<c>> \in Seq(Tokens)
    BY <1>1
  <2>2. Prologue = (<<a>> \o <<b>>) \o <<c>>
    <3>1. a \in Tokens /\ b \in Tokens /\ c \in Tokens
      BY <1>1
    <3>2. <<a, b, c>> = (<<a>> \o <<b>>) \o <<c>>
      BY <3>1, TripleIsConcat
    <3> QED
      BY <1>5, <3>2
  <2>3. <<a>> \o <<b>> \in Seq(Tokens)
    BY <2>1, ConcatFacts
  <2>4. ts \o Prologue = (ts \o (<<a>> \o <<b>>)) \o <<c>>
    BY <2>1, <2>2, <2>3, ConcatAssociates, SMTT(30)
  <2>5. ts \o (<<a>> \o <<b>>) = (ts \o <<a>>) \o <<b>>
    BY <2>1, ConcatAssociates, SMTT(30)
  <2>6. ts \o <<a>> = us /\ us \in Seq(Tokens)
    BY <1>1, ConcatOfOne, AppendFacts
  <2> HIDE DEF us
  <2>7. us \o <<b>> = vs /\ vs \in Seq(Tokens)
    BY <1>1, <2>6, ConcatOfOne, AppendFacts
  <2> HIDE DEF vs
  <2>8. vs \o <<c>> = ws
    BY <1>1, <2>7, ConcatOfOne
  <2> QED
    BY <2>4, <2>5, <2>6, <2>7, <2>8
<1>8. /\ us \in Seq(Tokens) /\ OpenTags(us) = Tagged(OpenTags(ts), a)
      /\ PlistsIn(us) = PlistsIn(ts) + Ends(a) /\ PlistsIn(ts) \in Nat
  BY <1>1, TokenAppended
<1>9. /\ xs \in Seq(Tokens) /\ OpenTags(xs) = Tagged(OpenTags(ts), e)
      /\ PlistsIn(xs) = PlistsIn(ts) + Ends(e)
  BY <1>1, TokenAppended
<1> HIDE DEF us, xs
<1>10. /\ vs \in Seq(Tokens) /\ OpenTags(vs) = Tagged(OpenTags(us), b)
       /\ PlistsIn(vs) = PlistsIn(us) + Ends(b)
  BY <1>1, <1>8, TokenAppended
<1> HIDE DEF vs
<1>11. /\ ws \in Seq(Tokens) /\ OpenTags(ws) = Tagged(OpenTags(vs), c)
       /\ PlistsIn(ws) = PlistsIn(vs) + Ends(c)
  BY <1>1, <1>10, TokenAppended
<1> HIDE DEF ws
<1>12. OpenTags(ws) = Append(OpenTags(ts), "plist")
  BY <1>3, <1>8, <1>10, <1>11
<1>13. PlistsIn(ws) = PlistsIn(ts) /\ PlistsIn(xs) = PlistsIn(ts) + 1
  BY <1>2, <1>8, <1>9, <1>10, <1>11
<1>14. Append(<<>>, "plist") = <<"plist">>
  OBVIOUS
<1>15. OpenTags(ts) = <<>> => OpenTags(ws) = <<"plist">>
  BY <1>12, <1>14
<1>16. OpenTags(ts) = <<"plist">> => OpenTags(xs) = <<>>
  BY <1>4, <1>9
<1> QED
  BY <1>6, <1>7, <1>8, <1>9, <1>11, <1>13, <1>15, <1>16

(***************************************************************************)
(* The invariant of nesting. It holds whether or not the client opens and  *)
(* closes a collection where a key is due.                                 *)
(***************************************************************************)
OutputTypeOK ==
  /\ stack \in Seq(Collections)
  /\ output \in Seq(Tokens)
  /\ pending_collection \in Collections \cup {"none"}
  /\ taken \in Collections \cup {"none"}
  /\ request \in Calls \cup {NoCall}

(* A call under way is none that Submit refused.                            *)
RequestTaken ==
  /\ request # NoCall => Usable
  /\ request.kind = "value" => request.arg \notin Uids
  /\ taken # "none" => request.kind = "end"

Root(ended) == IF write_root_element /\ started_plist /\ ended = 0 THEN <<"plist">> ELSE <<>>

(* What is open is the root element, if there is one, and the stack.        *)
NestedOutput ==
  Usable =>
    /\ ~started_plist => stack = <<>> /\ PlistsEnded = 0
    /\ PlistsEnded <= 1 => OpenTags(output) = Root(PlistsEnded) \o stack

NInv == OutputTypeOK /\ RequestTaken /\ NestedOutput

(* The call is written, or the output breaks.                               *)
LEMMA WriteEventNested ==
  ASSUME NInv, Usable, NEW e, NEW us, NEW before \in Seq(Collections),
         NEW to \in Seq(Collections), NEW key, NEW next,
         Turns(us, stack, to), WriteEvent(e, us, before, to, key, next)
  PROVE  /\ stack' \in Seq(Collections) /\ output' \in Seq(Tokens)
         /\ NestedOutput'
         /\ \/ verdict' = "ok" /\ request' = next
            \/ verdict' = "failed" /\ request' = NoCall
<1>1. /\ stack \in Seq(Collections) /\ output \in Seq(Tokens) /\ us \in Seq(Tokens)
  BY DEF NInv, OutputTypeOK, Turns
<1> DEFINE ts == Opening
           vs == ts \o us
           ws == vs \o Closing(to)
<1> HIDE DEF Tokens, Collections
<1>2. ts \in Seq(Tokens)
  <2>1. ts = output \o Prologue \/ ts = output
    BY DEF Opening
  <2> QED
    BY <1>1, <2>1, PlistTags
<1>3. vs \in Seq(Tokens)
  <2> HIDE DEF ts
  <2> QED
    BY <1>1, <1>2, ConcatFacts
<1>4. ws = (IF to = <<>> /\ write_root_element THEN vs \o PlistEnd ELSE vs) /\ ws \in Seq(Tokens)
  <2> HIDE DEF vs
  <2>1. CASE to = <<>> /\ write_root_element
    <3>1. Closing(to) = PlistEnd
      BY <2>1 DEF Closing
    <3> QED
      BY <1>3, <2>1, <3>1, PlistTags
  <2>2. CASE ~(to = <<>> /\ write_root_element)
    <3>1. Closing(to) = <<>>
      BY <2>2 DEF Closing
    <3>2. vs \o <<>> = vs
      BY <1>3, ConcatOfNone
    <3> QED
      BY <1>3, <2>2, <3>1, <3>2
  <2> QED
    BY <2>1, <2>2
<1>5. CASE Broken(e, us, before, to, key)
  <2>1. verdict' = "failed" /\ request' = NoCall
    BY <1>5 DEF Broken, Done
  <2>2. stack' \in Seq(Collections) /\ output' \in Seq(Tokens)
    <3>1. CASE UNCHANGED state
      BY <1>1, <3>1 DEF state
    <3>2. CASE ~UNCHANGED state
      <4>1. stack' \in {before, to} /\ output' \in {ts, vs}
        BY <1>5, <3>2 DEF Broken
      <4> HIDE DEF ts, vs
      <4> QED
        BY <1>2, <1>3, <4>1
    <3> QED
      BY <3>1, <3>2
  <2>3. NestedOutput'
    BY <2>1 DEF NestedOutput, Usable
  <2> QED
    BY <2>1, <2>2, <2>3
<1>6. CASE ~Broken(e, us, before, to, key)
  <2>1. /\ started_plist' = TRUE /\ output' = ws /\ stack' = to /\ request' = next
        /\ verdict' = "ok" /\ write_root_element' = write_root_element
    BY <1>6 DEF WriteEvent, Done
  <2> DEFINE first == PlistsIn(output)
             base == Root(first)
             root == IF write_root_element /\ first = 0 THEN <<"plist">> ELSE <<>>
  <2>2. first \in Nat
    BY <1>1, PlistTags
  <2>3. /\ ~started_plist => stack = <<>> /\ first = 0
        /\ first <= 1 => OpenTags(output) = base \o stack
    BY DEF NInv, NestedOutput, PlistsEnded
  <2>4. root \in Seq(Names) /\ base \in Seq(Names)
    <3>1. "plist" \in Names
      BY DEF Names
    <3> HIDE DEF Names
    <3>2. <<"plist">> \in Seq(Names) /\ <<>> \in Seq(Names)
      BY <3>1
    <3> HIDE DEF first
    <3> QED
      BY <3>2 DEF Root
  <2>5. PlistsIn(ts) = first
    BY <1>1, PlistTags DEF Opening
  <2> HIDE DEF first, ts
  <2>6. ASSUME first <= 1
        PROVE  OpenTags(ts) = root \o stack
    <3>1. CASE ~started_plist /\ write_root_element
      <4>1. ts = output \o Prologue /\ base = <<>> /\ root = <<"plist">> /\ stack = <<>>
        BY <2>3, <3>1 DEF Opening, Root, ts
      <4>2. OpenTags(output) = <<>>
        <5>1. OpenTags(output) = base \o stack
          BY <2>3, <2>6
        <5> QED
          BY <1>1, <4>1, <5>1, ConcatOfNone, EmptySeq
      <4>3. OpenTags(ts) = <<"plist">>
        BY <1>1, <4>1, <4>2, PlistTags
      <4>4. root \o <<>> = root
        BY <2>4, ConcatOfNone
      <4> QED
        BY <4>1, <4>3, <4>4
    <3>2. CASE started_plist \/ ~write_root_element
      <4>1. ts = output /\ base = root
        BY <2>3, <3>2 DEF Opening, Root, ts
      <4> QED
        BY <2>3, <2>6, <4>1
    <3> QED
      BY <3>1, <3>2
  <2>7. PlistsIn(vs) = first /\ (first <= 1 => OpenTags(vs) = root \o to)
    <3> HIDE DEF root
    <3>1. PlistsIn(vs) = PlistsIn(ts)
      BY <1>2 DEF Turns
    <3>2. ASSUME first <= 1
          PROVE  OpenTags(vs) = root \o to
      BY <1>2, <2>4, <2>6, <3>2 DEF Turns
    <3> QED
      BY <2>5, <3>1, <3>2
  <2> HIDE DEF vs
  <2>8. CASE to = <<>> /\ write_root_element
    <3>1. PlistsIn(ws) = first + 1
      BY <1>3, <1>4, <2>7, <2>8, PlistTags
    <3>2. ASSUME first = 0
          PROVE  OpenTags(ws) = <<>>
      <4>1. root = <<"plist">> /\ OpenTags(vs) = root \o <<>>
        BY <2>7, <2>8, <3>2
      <4>2. OpenTags(vs) = <<"plist">>
        BY <2>4, <4>1, ConcatOfNone
      <4> QED
        BY <1>3, <1>4, <2>8, <4>2, PlistTags
    <3>3. ASSUME first = 0
          PROVE  OpenTags(ws) = <<>> \o to
      <4>1. to \in Seq(Collections) /\ <<>> \o <<>> = <<>>
        BY ConcatOfNone, EmptySeq
      <4> QED
        BY <2>8, <3>2, <3>3, <4>1
    <3> HIDE DEF ws
    <3>4. PlistsEnded' = first + 1
      BY <2>1, <3>1 DEF PlistsEnded
    <3>5. PlistsEnded' <= 1 => first = 0 /\ Root(PlistsEnded)' = <<>>
      BY <2>2, <3>4 DEF Root
    <3> QED
      BY <1>4, <2>1, <3>3, <3>5 DEF NestedOutput, ws
  <2>9. CASE ~(to = <<>> /\ write_root_element)
    <3>1. ws = vs
      BY <1>4, <2>9
    <3> HIDE DEF ws
    <3>2. PlistsEnded' = first
      BY <2>1, <2>7, <3>1 DEF PlistsEnded
    <3>3. Root(PlistsEnded)' = root
      BY <2>1, <3>2 DEF Root
    <3>4. PlistsEnded' <= 1 => OpenTags(output)' = root \o to
      BY <2>1, <2>7, <3>1, <3>2
    <3>5. NestedOutput'
      BY <2>1, <3>3, <3>4 DEF NestedOutput
    <3> QED
      BY <1>4, <2>1, <3>1, <3>5
  <2> QED
    BY <2>8, <2>9
<1> QED
  BY <1>5, <1>6

(* A call that writes nothing. *)
LEMMA NothingWritten ==
  ASSUME NInv, UNCHANGED <<write_root_element, state>>, Usable' => Usable
  PROVE  /\ stack' \in Seq(Collections) /\ output' \in Seq(Tokens)
         /\ NestedOutput'
<1>1. /\ stack' = stack /\ output' = output /\ started_plist' = started_plist
      /\ write_root_element' = write_root_element
  BY DEF state
<1>2. PlistsEnded' = PlistsEnded /\ Root(PlistsEnded)' = Root(PlistsEnded)
  BY <1>1 DEF PlistsEnded, Root
<1>3. stack \in Seq(Collections) /\ output \in Seq(Tokens)
  BY DEF NInv, OutputTypeOK
<1>4. NestedOutput'
  BY <1>1, <1>2 DEF NInv, NestedOutput
<1> QED
  BY <1>1, <1>3, <1>4

(* A call that is refused. *)
LEMMA RefusedNested ==
  ASSUME NInv, NEW e, NEW open \in Seq(Collections), Refused(e, open)
  PROVE  /\ stack' \in Seq(Collections) /\ output' \in Seq(Tokens)
         /\ NestedOutput' /\ request' = NoCall
<1>1. stack' = open /\ output' = Opening /\ request' = NoCall /\ verdict' = "illegal"
  BY DEF Refused, Done
<1>2. Opening \in Seq(Tokens)
  <2>1. output \in Seq(Tokens)
    BY DEF NInv, OutputTypeOK
  <2>2. Opening = output \o Prologue \/ Opening = output
    BY DEF Opening
  <2> QED
    BY <2>1, <2>2, PlistTags
<1>3. NestedOutput'
  BY <1>1 DEF NestedOutput, Usable
<1> QED
  BY <1>1, <1>2, <1>3

(* A writer that has not been called yet satisfies it. *)
LEMMA InitNInv == Init => NInv
<1> SUFFICES ASSUME Init
             PROVE  NInv
  OBVIOUS
<1> DEFINE e == <<>>
<1>1. stack = e /\ output = e /\ started_plist = FALSE
  BY DEF Init
<1>2. \A S : e \in Seq(S)
  BY EmptySeq
<1>3. e \in Seq(Tokens) /\ e \in Seq(Collections)
  BY <1>2
<1> HIDE DEF Tokens, Collections
<1>4. Outcome(OpenTags(e), e, <<>>, [x \in Seq(Names) \X Tokens |-> Tagged(x[1], x[2])])
  BY <1>3, OpenTagsFollow
<1>5. Outcome(PlistsIn(e), e, 0, [x \in Nat \X Tokens |-> x[1] + Ends(x[2])])
  BY <1>3, PlistsInFollow
<1>6. OpenTags(e) = e /\ PlistsIn(e) = 0
  <2>1. e = <<>>
    OBVIOUS
  <2> HIDE DEF e
  <2>2. OpenTags(e) = <<>> /\ PlistsIn(e) = 0
    BY <1>4, <1>5, <2>1, OutcomeOfEmpty
  <2> QED
    BY <2>1, <2>2
<1>7. Root(PlistsEnded) \o stack = e
  <2>1. Root(PlistsEnded) = e
    BY <1>1 DEF Root
  <2>2. e \o e = e
    BY <1>3, ConcatOfNone
  <2> QED
    BY <1>1, <2>1, <2>2
<1>8. OutputTypeOK
  BY <1>1, <1>3 DEF Init, OutputTypeOK
<1>9. RequestTaken
  BY DEF Init, RequestTaken, NoCall
<1>10. NestedOutput
  <2> HIDE DEF e
  <2>1. PlistsEnded = 0 /\ OpenTags(output) = e
    BY <1>1, <1>6 DEF PlistsEnded
  <2>2. stack = <<>>
    BY <1>1 DEF e
  <2> QED
    BY <1>7, <2>1, <2>2 DEF NestedOutput
<1> QED
  BY <1>8, <1>9, <1>10 DEF NInv

(* Every call keeps the invariant. *)
LEMMA NextNInv == BooleansAssumption /\ NInv /\ [Next]_vars => NInv'
<1> SUFFICES ASSUME BooleansAssumption, NInv, [Next]_vars
             PROVE  NInv'
  OBVIOUS
<1>1. /\ stack \in Seq(Collections) /\ pending_collection \in Collections \cup {"none"}
      /\ taken \in Collections \cup {"none"} /\ request \in Calls \cup {NoCall}
  BY DEF NInv, OutputTypeOK
<1>2. /\ request # NoCall => Usable
      /\ request.kind = "value" => request.arg \notin Uids
      /\ taken # "none" => request.kind = "end"
  BY DEF NInv, RequestTaken
<1>3. /\ request.kind # "none" => Usable
      /\ request.kind = "value" => request.arg \in Values \ Uids
      /\ NoCall.kind = "none"
  BY <1>1, <1>2 DEF NoCall, Calls
<1>4. /\ \A ty \in Collections : Turns(<<Token("start", ty)>>, stack, Pushed(ty))
                                 /\ Pushed(ty) \in Seq(Collections)
      /\ stack # <<>> => /\ Turns(<<Token("end", Last(stack))>>, stack, Front(stack))
                         /\ Front(stack) \in Seq(Collections)
      /\ <<>> \in Seq(Collections)
  BY <1>1, TagsTurn, AppendFacts, FrontLast, EmptySeq DEF Pushed
<1>5. CASE \E e \in Calls : Submit(e)
  <2>1. PICK e \in Calls : Submit(e)
    BY <1>5
  <2>2. /\ Usable /\ request = NoCall
        /\ UNCHANGED <<write_root_element, state>>
        /\ pending_collection' = pending_collection /\ taken' = taken
        /\ \/ verdict' = "failed" /\ request' = request
           \/ verdict' = verdict /\ request' = e /\ ~(e.kind = "value" /\ e.arg \in Uids)
    BY <2>1 DEF Submit
  <2>3. stack' \in Seq(Collections) /\ output' \in Seq(Tokens) /\ NestedOutput'
    BY <2>2, NothingWritten
  <2>4. OutputTypeOK'
    BY <1>1, <2>2, <2>3 DEF OutputTypeOK
  <2>5. RequestTaken'
    BY <1>2, <1>3, <2>2 DEF RequestTaken, Usable
  <2> QED
    BY <2>3, <2>4, <2>5 DEF NInv
<1>6. CASE StartPending
  <2> DEFINE ty == pending_collection
             e == [kind |-> ty, arg |-> 0]
  <2>1. /\ request # NoCall /\ request.kind # "end" /\ ty \in Collections
        /\ pending_collection' = "none" /\ taken' = taken
    BY <1>1, <1>6 DEF StartPending
  <2>2. /\ stack' \in Seq(Collections) /\ output' \in Seq(Tokens) /\ NestedOutput'
        /\ \/ request' = NoCall
           \/ request' = request /\ verdict' = "ok"
    <3>1. CASE expecting_key
      <4>1. Refused(e, stack)
        BY <1>6, <3>1 DEF StartPending
      <4> QED
        BY <1>1, <4>1, RefusedNested
    <3>2. CASE ~expecting_key
      <4>1. WriteEvent(e, <<Token("start", ty)>>, stack, Pushed(ty),
                       InDictionary(Pushed(ty)), request)
        BY <1>6, <3>2 DEF StartPending
      <4>2. Turns(<<Token("start", ty)>>, stack, Pushed(ty)) /\ Pushed(ty) \in Seq(Collections)
        BY <1>4, <2>1
      <4> QED
        BY <1>1, <1>2, <2>1, <4>1, <4>2, WriteEventNested
    <3> QED
      BY <3>1, <3>2
  <2>3. OutputTypeOK'
    BY <1>1, <2>1, <2>2 DEF OutputTypeOK
  <2>4. taken = "none"
    BY <1>2, <2>1
  <2>5. RequestTaken'
    BY <1>2, <1>3, <2>1, <2>2, <2>4 DEF RequestTaken, Usable
  <2> QED
    BY <2>2, <2>3, <2>5 DEF NInv
<1>7. CASE WriteStartCollection
  <2>1. /\ request.kind \in Collections /\ pending_collection' = request.kind
        /\ request' = NoCall /\ taken' = taken /\ verdict' = verdict
        /\ UNCHANGED <<write_root_element, state>>
    BY <1>7 DEF WriteStartCollection, Collections
  <2>2. stack' \in Seq(Collections) /\ output' \in Seq(Tokens) /\ NestedOutput'
    BY <2>1, NothingWritten DEF Usable
  <2>3. OutputTypeOK'
    BY <1>1, <2>1, <2>2 DEF OutputTypeOK
  <2>4. taken = "none"
    BY <1>2, <2>1 DEF Collections
  <2>5. RequestTaken'
    BY <1>3, <2>1, <2>4 DEF RequestTaken
  <2> QED
    BY <2>2, <2>3, <2>5 DEF NInv
<1>8. CASE TakePending
  <2>1. /\ request.kind = "end" /\ taken' = pending_collection /\ pending_collection' = "none"
        /\ request' = request /\ verdict' = "ok"
        /\ UNCHANGED <<write_root_element, state>>
    BY <1>8 DEF TakePending, Done
  <2>2. Usable /\ Usable'
    BY <1>3, <2>1 DEF Usable
  <2>3. stack' \in Seq(Collections) /\ output' \in Seq(Tokens) /\ NestedOutput'
    BY <2>1, <2>2, NothingWritten
  <2>4. OutputTypeOK'
    BY <1>1, <2>1, <2>3 DEF OutputTypeOK
  <2>5. RequestTaken'
    BY <1>2, <2>1, <2>2 DEF RequestTaken
  <2> QED
    BY <2>3, <2>4, <2>5 DEF NInv
<1>9. CASE WriteEmpty \/ WriteEndCollection \/ WriteValue
  <2>1. /\ stack' \in Seq(Collections) /\ output' \in Seq(Tokens) /\ NestedOutput'
        /\ request' = NoCall /\ taken' = "none" /\ pending_collection' = pending_collection
    <3>1. CASE WriteEmpty
      <4>1. /\ taken \in Collections /\ taken' = "none"
            /\ pending_collection' = pending_collection
            /\ WriteEvent(request, Element(taken, <<>>), stack, stack, InDictionary(stack),
                          NoCall)
        BY <1>1, <3>1 DEF WriteEmpty
      <4>2. Usable
        BY <1>2, <1>3, <4>1 DEF Collections
      <4>3. Turns(Element(taken, <<>>), stack, stack)
        BY <4>1, ElementsAreSilent, SilentTurns
      <4> QED
        BY <1>1, <4>1, <4>2, <4>3, WriteEventNested
    <3>2. CASE WriteEndCollection
      <4> DEFINE rest == IF stack = <<>> THEN <<>> ELSE Front(stack)
      <4>1. /\ request.kind = "end" /\ taken = "none" /\ taken' = taken
            /\ pending_collection' = pending_collection
        BY <3>2 DEF WriteEndCollection
      <4>2. Usable /\ rest \in Seq(Collections)
        BY <1>3, <1>4, <4>1
      <4>3. CASE Closable
        <5>1. stack # <<>> /\ rest = Front(stack)
          BY <4>3 DEF Closable
        <5>2. WriteEvent(request, <<Token("end", Last(stack))>>, rest, rest,
                         InDictionary(rest), NoCall)
          BY <3>2, <4>3 DEF WriteEndCollection
        <5>3. Turns(<<Token("end", Last(stack))>>, stack, rest)
          BY <1>4, <5>1
        <5> HIDE DEF rest
        <5> QED
          BY <4>1, <4>2, <5>2, <5>3, WriteEventNested
      <4>4. CASE ~Closable
        <5>1. Refused(request, rest)
          BY <3>2, <4>4 DEF WriteEndCollection
        <5> HIDE DEF rest
        <5> QED
          BY <4>1, <4>2, <5>1, RefusedNested
      <4> QED
        BY <4>3, <4>4
    <3>3. CASE WriteValue
      <4> DEFINE v == request.arg
      <4>1. /\ request.kind = "value" /\ taken' = taken
            /\ pending_collection' = pending_collection
        BY <3>3 DEF WriteValue
      <4>2. Usable /\ v \in Values \ Uids /\ taken = "none"
        BY <1>2, <1>3, <4>1
      <4>3. CASE expecting_key /\ v \notin Strings
        <5>1. Refused(request, stack)
          BY <3>3, <4>3 DEF WriteValue
        <5> QED
          BY <1>1, <4>1, <4>2, <5>1, RefusedNested
      <4>4. CASE ~(expecting_key /\ v \notin Strings)
        <5>1. WriteEvent(request, ValueElement(v), stack, stack,
                         ~expecting_key /\ KeyAfterValue, NoCall)
          BY <3>3, <4>4 DEF WriteValue
        <5>2. Turns(ValueElement(v), stack, stack)
          BY <4>2, ElementsAreSilent, SilentTurns
        <5> QED
          BY <1>1, <4>1, <4>2, <5>1, <5>2, WriteEventNested
      <4> QED
        BY <4>3, <4>4
    <3> QED
      BY <1>9, <3>1, <3>2, <3>3
  <2>2. OutputTypeOK'
    BY <1>1, <2>1 DEF OutputTypeOK
  <2>3. RequestTaken'
    BY <1>3, <2>1 DEF RequestTaken
  <2> QED
    BY <2>1, <2>2, <2>3 DEF NInv
<1>10. CASE Rest \/ UNCHANGED vars
  <2>1. UNCHANGED vars
    BY <1>10 DEF Rest
  <2>2. /\ UNCHANGED <<write_root_element, state>> /\ verdict' = verdict
        /\ pending_collection' = pending_collection /\ taken' = taken /\ request' = request
    BY <2>1 DEF vars
  <2>3. stack' \in Seq(Collections) /\ output' \in Seq(Tokens) /\ NestedOutput'
    BY <2>2, NothingWritten DEF Usable
  <2>4. OutputTypeOK'
    BY <1>1, <2>2, <2>3 DEF OutputTypeOK
  <2>5. RequestTaken'
    BY <1>2, <2>2 DEF RequestTaken, Usable
  <2> QED
    BY <2>3, <2>4, <2>5 DEF NInv
<1> QED
  BY <1>5, <1>6, <1>7, <1>8, <1>9, <1>10 DEF Next, Perform

(* What the writer has written is always the beginning of a document that   *)
(* nests properly: besides <plist> the elements open are those on the stack *)
(* of XmlWriter, although a collection is written one call late and the     *)
(* prologue and </plist> go past the XML library.                           *)
THEOREM OutputNests == Spec => []OutputNested
<1>1. NInv => OutputNested
  BY DEF NInv, NestedOutput, OutputNested, Usable, Root
<1> QED
  BY <1>1, BooleansAssumption, InitNInv, NextNInv, PTL DEF Spec

(***************************************************************************)
(* Reading back: what the reader makes of the tokens written, followed     *)
(* token by token.  A record says what the parser has open, the element    *)
(* whose content is read and what of it, the events delivered, and whether *)
(* every token was one that the writer writes there.                       *)
(***************************************************************************)
EventSet == [kind : Kinds, arg : Seq(Values)]

Heard == [opened : Seq(Names), element : ValueElements \cup {"none"}, content : Seq(Names),
          events : Seq(EventSet), ok : BOOLEAN]

At(open, es) ==
  [opened |-> open, element |-> "none", content |-> <<>>, events |-> es, ok |-> TRUE]
Inside(open, el, c, es) ==
  [opened |-> open, element |-> el, content |-> c, events |-> es, ok |-> TRUE]
Lost(m) == [m EXCEPT !.ok = FALSE]

(* The value that the content c of the element el is read as.               *)
ValueOf(el, c) == IF el = "data" THEN c[2] ELSE c[1]
Readable(el, c) ==
  LET v == ValueOf(el, c) IN
  /\ v \in Values
  /\ el = "data" => c = <<"space", v, "space">> /\ v \in Datas
  /\ el # "data" => c = <<v>>
  /\ el = "text" => v \in Texts

Closes(m, t) == t.kind = "end" /\ m.opened # <<>> /\ Last(m.opened) = t.name

HearTop(m, t) ==
  IF t.kind = "decl" THEN m
  ELSE IF t.kind = "start" /\ t.name = "plist" THEN At(Append(m.opened, t.name), m.events)
  ELSE IF t.kind = "start" /\ t.name \in Collections
    THEN At(Append(m.opened, t.name), Append(m.events, R!Event(t.name, <<>>)))
  ELSE IF t.kind = "start" /\ t.name \in Booleans
    THEN At(Append(m.opened, t.name), Append(m.events, R!Event("value", <<t.name>>)))
  ELSE IF t.kind = "start" /\ t.name \in ValueElements
    THEN Inside(Append(m.opened, t.name), t.name, <<>>, m.events)
  ELSE IF Closes(m, t)
    THEN At(Front(m.opened),
            IF t.name \in Collections THEN Append(m.events, R!Event("end", <<>>)) ELSE m.events)
  ELSE Lost(m)

HearWithin(m, t) ==
  IF t.kind = "text" THEN [m EXCEPT !.content = Append(@, t.name)]
  ELSE IF Closes(m, t) /\ Readable(m.element, m.content)
    THEN At(Front(m.opened),
            Append(m.events, R!Event("value", <<ValueOf(m.element, m.content)>>)))
  ELSE Lost(m)

Hear(m, t) ==
  IF ~m.ok THEN m ELSE IF m.element = "none" THEN HearTop(m, t) ELSE HearWithin(m, t)

Silence == At(<<>>, <<>>)

Hearing(ts) ==
  LET heard[k \in 0..Len(ts)] == IF k = 0 THEN Silence ELSE Hear(heard[k - 1], ts[k])
  IN  heard

Answers(es, cs) == Len(es) = Len(cs) /\ \A k \in 1..Len(es) : AsCall(es[k]) = cs[k]

(* What has been made of all of them. *)
Reads(ts) == Hearing(ts)[Len(ts)]

(* The records are all of one type. *)
LEMMA HeardForms ==
  ASSUME NEW open \in Seq(Names), NEW es \in Seq(EventSet)
  PROVE  /\ At(open, es) \in Heard
         /\ \A el \in ValueElements, c \in Seq(Names) : Inside(open, el, c, es) \in Heard
<1> HIDE DEF Names, EventSet
<1>1. <<>> \in Seq(Names)
  BY EmptySeq
<1> QED
  BY <1>1 DEF At, Inside, Heard

LEMMA EventForms ==
  /\ \A ty \in Collections \cup {"end"} : R!Event(ty, <<>>) \in EventSet
  /\ \A v \in Values : R!Event("value", <<v>>) \in EventSet
<1>1. \A ty \in Collections \cup {"end"} : R!Event(ty, <<>>) \in EventSet
  <2>1. <<>> \in Seq(Values)
    BY EmptySeq
  <2> HIDE DEF Values
  <2> QED
    BY <2>1 DEF R!Event, EventSet, Kinds, Collections
<1>2. \A v \in Values : R!Event("value", <<v>>) \in EventSet
  <2> HIDE DEF Values
  <2>1. \A v \in Values : <<v>> \in Seq(Values)
    OBVIOUS
  <2> QED
    BY <2>1 DEF R!Event, EventSet, Kinds
<1> QED
  BY <1>1, <1>2

LEMMA HearType ==
  ASSUME NEW m \in Heard, NEW t \in Tokens
  PROVE  Hear(m, t) \in Heard
<1> DEFINE o == m.opened
           es == m.events
           n == t.name
<1>1. /\ o \in Seq(Names) /\ es \in Seq(EventSet) /\ m.content \in Seq(Names)
      /\ m.element \in ValueElements \cup {"none"}
      /\ n \in Names
  BY DEF Heard, Tokens
<1>2. Lost(m) \in Heard
  BY DEF Lost, Heard
<1> HIDE DEF o, es, n, Names, EventSet
<1>3. Append(o, n) \in Seq(Names) /\ (o # <<>> => Front(o) \in Seq(Names))
  BY <1>1, AppendFacts, FrontLast
<1>4. \A e \in EventSet : Append(es, e) \in Seq(EventSet)
  BY <1>1, AppendFacts
<1>5. \A ps \in Seq(Names), fs \in Seq(EventSet) : At(ps, fs) \in Heard
  BY HeardForms
<1>6. HearTop(m, t) \in Heard
  <2>1. CASE t.kind = "decl"
    BY <2>1 DEF HearTop
  <2>2. CASE t.kind = "start" /\ n \in Collections
    <3>1. n # "plist"
      BY <2>2 DEF Collections
    <3>2. HearTop(m, t) = At(Append(o, n), Append(es, R!Event(n, <<>>)))
      BY <2>2, <3>1 DEF HearTop, o, n, es
    <3>3. R!Event(n, <<>>) \in EventSet
      BY <2>2, EventForms
    <3> QED
      BY <1>3, <1>4, <1>5, <3>2, <3>3
  <2>3. CASE t.kind = "start" /\ n = "plist"
    <3>1. HearTop(m, t) = At(Append(o, n), es)
      BY <2>3 DEF HearTop, o, n, es
    <3> QED
      BY <1>1, <1>3, <1>5, <3>1
  <2>4. CASE t.kind = "start" /\ n \notin Collections \cup {"plist"} /\ n \in Booleans
    <3>1. HearTop(m, t) = At(Append(o, n), Append(es, R!Event("value", <<n>>)))
      BY <2>4 DEF HearTop, o, n, es
    <3>2. R!Event("value", <<n>>) \in EventSet
      BY <2>4, EventForms DEF Values
    <3> QED
      BY <1>3, <1>4, <1>5, <3>1, <3>2
  <2>5. CASE t.kind = "start" /\ n \notin Collections \cup {"plist"} /\ n \notin Booleans
    <3>1. ~Closes(m, t)
      BY <2>5 DEF Closes
    <3>2. CASE n \in ValueElements
      <4>1. HearTop(m, t) = Inside(Append(o, n), n, <<>>, es)
        BY <2>5, <3>2 DEF HearTop, o, n, es
      <4>2. <<>> \in Seq(Names)
        BY EmptySeq
      <4> QED
        BY <1>1, <1>3, <3>2, <4>1, <4>2, HeardForms
    <3>3. CASE n \notin ValueElements
      BY <1>2, <2>5, <3>1, <3>3 DEF HearTop, n
    <3> QED
      BY <3>2, <3>3
  <2>6. CASE t.kind \notin {"decl", "start"}
    <3>1. CASE Closes(m, t)
      <4> DEFINE fs == IF n \in Collections THEN Append(es, R!Event("end", <<>>)) ELSE es
      <4>1. HearTop(m, t) = At(Front(o), fs)
        BY <2>6, <3>1 DEF HearTop, o, n, es
      <4>2. fs \in Seq(EventSet)
        BY <1>1, <1>4, EventForms
      <4>3. o # <<>>
        BY <3>1 DEF Closes, o
      <4> HIDE DEF fs
      <4> QED
        BY <1>3, <1>5, <4>1, <4>2, <4>3
    <3>2. CASE ~Closes(m, t)
      BY <1>2, <2>6, <3>2 DEF HearTop
    <3> QED
      BY <3>1, <3>2
  <2> QED
    BY <2>1, <2>2, <2>3, <2>4, <2>5, <2>6
<1>7. HearWithin(m, t) \in Heard
  <2>1. CASE t.kind = "text"
    <3>1. HearWithin(m, t) = [m EXCEPT !.content = Append(m.content, n)]
      BY <2>1 DEF HearWithin, n
    <3>2. Append(m.content, n) \in Seq(Names)
      BY <1>1, AppendFacts
    <3> QED
      BY <3>1, <3>2 DEF Heard
  <2>2. CASE t.kind # "text" /\ Closes(m, t) /\ Readable(m.element, m.content)
    <3> DEFINE v == ValueOf(m.element, m.content)
    <3>1. HearWithin(m, t) = At(Front(o), Append(es, R!Event("value", <<v>>)))
      BY <2>2 DEF HearWithin, o, es
    <3>2. v \in Values
      BY <2>2 DEF Readable
    <3> HIDE DEF v
    <3>3. R!Event("value", <<v>>) \in EventSet /\ o # <<>>
      BY <2>2, <3>2, EventForms DEF Closes, o
    <3> QED
      BY <1>3, <1>4, <1>5, <3>1, <3>3
  <2>3. CASE t.kind # "text" /\ ~(Closes(m, t) /\ Readable(m.element, m.content))
    BY <1>2, <2>3 DEF HearWithin
  <2> QED
    BY <2>1, <2>2, <2>3
<1> QED
  BY <1>6, <1>7 DEF Hear

(* The tokens are followed one by one. *)
LEMMA HearingFollows ==
  ASSUME NEW ts \in Seq(Tokens)
  PROVE  /\ Hearing(ts)[0] = Silence
         /\ \A k \in 1..Len(ts) : Hearing(ts)[k] = Hear(Hearing(ts)[k - 1], ts[k])
         /\ \A k \in 0..Len(ts) : Hearing(ts)[k] \in Heard
         /\ Outcome(Reads(ts), ts, Silence,
                    [x \in Heard \X Tokens |-> Hear(x[1], x[2])])
<1> DEFINE V == Heard
           h == [x \in V \X Tokens |-> Hear(x[1], x[2])]
           n == Len(ts)
           Counts(f) == f = [k \in 0..n |-> IF k = 0 THEN Silence ELSE Hear(f[k - 1], ts[k])]
           heard == CHOOSE f : Counts(f)
<1>1. n \in Nat /\ (\A k \in 1..n : ts[k] \in Tokens) /\ Silence \in V
  <2>1. Silence \in V
    BY EmptySeq, HeardForms DEF Silence
  <2> QED
    BY <2>1, LenProperties, ElementOfSeq
<1>2. h \in [V \X Tokens -> V]
  BY HearType
<1>3. \A o \in V, t \in Tokens : h[<<o, t>>] = Hear(o, t)
  OBVIOUS
<1> HIDE DEF h, V
<1>4. PICK g \in [0..n -> V] : Scans(g, ts, Silence, h)
  BY <1>1, <1>2, ScanExists
<1>5. g[0] = Silence /\ \A k \in 1..n : g[k] = h[<<g[k - 1], ts[k]>>]
  BY <1>4 DEF Scans
<1> HIDE DEF n
<1>6. \A k \in 1..n : g[k] = Hear(g[k - 1], ts[k])
  <2> SUFFICES ASSUME NEW k \in 1..n
               PROVE  g[k] = Hear(g[k - 1], ts[k])
    OBVIOUS
  <2>1. k - 1 \in 0..n
    BY <1>1
  <2>2. g[k - 1] \in V /\ ts[k] \in Tokens
    BY <1>1, <2>1
  <2> QED
    BY <1>3, <1>5, <2>2
<1>7. Counts(g)
  <2> DEFINE f == [k \in 0..n |-> IF k = 0 THEN Silence ELSE Hear(g[k - 1], ts[k])]
  <2>1. ASSUME NEW k \in 0..n
        PROVE  g[k] = f[k]
    BY <1>1, <1>5, <1>6
  <2>2. f = [k \in 0..n |-> f[k]]
    OBVIOUS
  <2> HIDE DEF f
  <2>3. g = f
    BY <2>1, <2>2
  <2> QED
    BY <2>3 DEF f
<1>8. Counts(heard)
  <2> HIDE DEF Counts
  <2> QED
    BY <1>7
<1> HIDE DEF heard
<1>9. heard[0] = Silence /\ \A k \in 1..n : heard[k] = Hear(heard[k - 1], ts[k])
  BY <1>1, <1>8
<1>10. \A k \in 1..n : heard[k - 1] \in V => heard[k] = h[<<heard[k - 1], ts[k]>>]
  BY <1>1, <1>3, <1>9
<1>11. Scans(heard, ts, Silence, h) /\ heard[n] \in V
  <2>1. Silence \in V /\ ts \in Seq(Tokens) /\ n = Len(ts)
    BY <1>1 DEF n
  <2>2. StaysAmong(heard, ts, Silence, h, V)
    BY <1>9, <1>10 DEF StaysAmong, n
  <2>3. Scans(heard, ts, Silence, h) /\ heard[Len(ts)] \in V
    BY <1>2, <2>1, <2>2, ScanOfValues
  <2> QED
    BY <2>1, <2>3
<1>12. Hearing(ts) = heard
  BY DEF Hearing, heard, Silence, n, Counts
<1>13. Reads(ts) = heard[n]
  BY <1>12 DEF Reads, n
<1>14. \A k \in 0..n : heard[k] \in V
  <2> DEFINE T == {k \in 0..n : heard[k] \in V}
  <2>1. 0 \in T
    BY <1>1, <1>9
  <2>2. ASSUME NEW k \in 1..n, k - 1 \in T
        PROVE  k \in T
    <3>1. k \in 0..n /\ heard[k - 1] \in V /\ ts[k] \in Tokens
      BY <1>1, <2>2
    <3>2. heard[k] = Hear(heard[k - 1], ts[k])
      BY <1>9
    <3>3. heard[k] \in V
      BY <3>1, <3>2, HearType DEF V
    <3> QED
      BY <3>1, <3>3
  <2> HIDE DEF T
  <2>3. 0..n \subseteq T
    BY <1>1, <2>1, <2>2, BoundedInduction
  <2> QED
    BY <2>3 DEF T
<1>15. Outcome(Reads(ts), ts, Silence, h)
  BY <1>11, <1>13 DEF Outcome, n
<1> QED
  BY <1>9, <1>12, <1>14, <1>15 DEF h, n, V

(* What one token more leads to. *)
LEMMA TokenHeard ==
  ASSUME NEW ts \in Seq(Tokens), NEW t \in Tokens
  PROVE  Reads(Append(ts, t)) = Hear(Reads(ts), t)
<1> DEFINE h == [x \in Heard \X Tokens |-> Hear(x[1], x[2])]
           us == Append(ts, t)
           m == Reads(ts)
           n == Reads(us)
<1> HIDE DEF Tokens, Heard
<1>1. us \in Seq(Tokens)
  BY AppendFacts
<1> HIDE DEF us
<1>2. m \in Heard
  <2>1. Len(ts) \in 0..Len(ts)
    BY LenProperties
  <2> QED
    BY <2>1, HearingFollows DEF Reads
<1>3. Outcome(m, ts, Silence, h)
  BY HearingFollows
<1>4. Outcome(n, us, Silence, h)
  BY <1>1, HearingFollows
<1>5. h[<<m, t>>] = Hear(m, t)
  BY <1>2
<1> HIDE DEF h, m, n
<1>6. n = h[<<m, t>>]
  BY <1>3, <1>4, OutcomeOfAppend DEF us
<1> QED
  BY <1>5, <1>6 DEF us, m, n

(***************************************************************************)
(* What the tokens of a call are read as, whatever they follow.            *)
(***************************************************************************)
Leads(us, m, n) ==
  /\ us \in Seq(Tokens)
  /\ \A ts \in Seq(Tokens) : Reads(ts) = m => Reads(ts \o us) = n

LEMMA LeadsToken ==
  ASSUME NEW t \in Tokens, NEW m
  PROVE  Leads(<<t>>, m, Hear(m, t))
<1> HIDE DEF Tokens
<1>1. <<t>> \in Seq(Tokens)
  OBVIOUS
<1>2. ASSUME NEW ts \in Seq(Tokens), Reads(ts) = m
      PROVE  Reads(ts \o <<t>>) = Hear(m, t)
  <2>1. ts \o <<t>> = Append(ts, t)
    BY ConcatOfOne
  <2>2. Reads(Append(ts, t)) = Hear(Reads(ts), t)
    BY TokenHeard
  <2> QED
    BY <1>2, <2>1, <2>2
<1> QED
  BY <1>1, <1>2 DEF Leads

LEMMA LeadsConcat ==
  ASSUME NEW us, NEW vs, NEW m, NEW n, NEW o, Leads(us, m, n), Leads(vs, n, o)
  PROVE  Leads(us \o vs, m, o)
<1>1. us \in Seq(Tokens) /\ vs \in Seq(Tokens)
  BY DEF Leads
<1> HIDE DEF Tokens
<1>2. us \o vs \in Seq(Tokens)
  BY <1>1, ConcatFacts
<1>3. ASSUME NEW ts \in Seq(Tokens), Reads(ts) = m
      PROVE  Reads(ts \o (us \o vs)) = o
  <2>1. ts \o (us \o vs) = (ts \o us) \o vs
    BY <1>1, ConcatAssociates, SMTT(30)
  <2>2. ts \o us \in Seq(Tokens) /\ Reads(ts \o us) = n
    BY <1>1, <1>3, ConcatFacts DEF Leads
  <2> DEFINE ws == ts \o us
  <2>3. Reads(ws \o vs) = o
    BY <2>2 DEF Leads
  <2> QED
    BY <2>1, <2>3
<1> QED
  BY <1>2, <1>3 DEF Leads

(* Each kind of token by itself. *)
LEMMA HeardAtTop ==
  ASSUME BooleansAssumption, NEW open \in Seq(Names), NEW es \in Seq(EventSet)
  PROVE  /\ \A n : Hear(At(open, es), Token("decl", n)) = At(open, es)
         /\ Hear(At(open, es), Token("start", "plist")) = At(Append(open, "plist"), es)
         /\ \A ty \in Collections :
              Hear(At(open, es), Token("start", ty))
                = At(Append(open, ty), Append(es, R!Event(ty, <<>>)))
         /\ \A v \in Booleans :
              Hear(At(open, es), Token("start", v))
                = At(Append(open, v), Append(es, R!Event("value", <<v>>)))
         /\ \A el \in ValueElements :
              Hear(At(open, es), Token("start", el)) = Inside(Append(open, el), el, <<>>, es)
<1> DEFINE m == At(open, es)
<1>1. m.opened = open /\ m.events = es /\ m.element = "none" /\ m.ok = TRUE
  BY DEF At
<1>2. \A k, n : Token(k, n).kind = k /\ Token(k, n).name = n
  BY DEF Token
<1> HIDE DEF m
<1>3. \A t : Hear(m, t) = HearTop(m, t)
  BY <1>1 DEF Hear
<1>4. \A n : HearTop(m, Token("decl", n)) = m
  BY <1>2 DEF HearTop
<1>5. HearTop(m, Token("start", "plist")) = At(Append(open, "plist"), es)
  BY <1>1, <1>2 DEF HearTop
<1>6. ASSUME NEW ty \in Collections
      PROVE  HearTop(m, Token("start", ty))
               = At(Append(open, ty), Append(es, R!Event(ty, <<>>)))
  <2>1. ty # "plist"
    BY DEF Collections
  <2> QED
    BY <1>1, <1>2, <2>1 DEF HearTop
<1>7. ASSUME NEW v \in Booleans
      PROVE  HearTop(m, Token("start", v))
               = At(Append(open, v), Append(es, R!Event("value", <<v>>)))
  <2>1. v # "plist" /\ v \notin Collections
    BY DEF BooleansAssumption, Collections
  <2> QED
    BY <1>1, <1>2, <2>1 DEF HearTop
<1>8. ASSUME NEW el \in ValueElements
      PROVE  HearTop(m, Token("start", el)) = Inside(Append(open, el), el, <<>>, es)
  <2>1. el # "plist" /\ el \notin Collections /\ el \notin Booleans
    BY DEF BooleansAssumption, Collections, ValueElements
  <2> QED
    BY <1>1, <1>2, <2>1 DEF HearTop
<1> QED
  BY <1>3, <1>4, <1>5, <1>6, <1>7, <1>8 DEF m

LEMMA HeardEnds ==
  ASSUME NEW open \in Seq(Names), NEW es \in Seq(EventSet)
  PROVE  /\ \A n \in Collections :
              Hear(At(Append(open, n), es), Token("end", n))
                = At(open, Append(es, R!Event("end", <<>>)))
         /\ \A n \in Names \ Collections :
              Hear(At(Append(open, n), es), Token("end", n)) = At(open, es)
         /\ \A c : \A el \in ValueElements :
              Readable(el, c) =>
                Hear(Inside(Append(open, el), el, c, es), Token("end", el))
                  = At(open, Append(es, R!Event("value", <<ValueOf(el, c)>>)))
<1>1. \A k, n : Token(k, n).kind = k /\ Token(k, n).name = n
  BY DEF Token
<1>2. ASSUME NEW n \in Names
      PROVE  /\ Append(open, n) # <<>> /\ Last(Append(open, n)) = n
             /\ Front(Append(open, n)) = open
  <2> HIDE DEF Names
  <2> QED
    BY AppendFacts, FrontOfAppend
<1>3. ASSUME NEW n \in Names
      PROVE  Hear(At(Append(open, n), es), Token("end", n))
               = At(open, IF n \in Collections THEN Append(es, R!Event("end", <<>>)) ELSE es)
  <2> DEFINE m == At(Append(open, n), es)
             t == Token("end", n)
  <2>1. m.opened = Append(open, n) /\ m.events = es /\ m.element = "none" /\ m.ok = TRUE
    BY DEF At
  <2>2. t.kind = "end" /\ t.name = n
    BY <1>1
  <2> HIDE DEF m, t
  <2>3. Closes(m, t)
    BY <1>2, <2>1, <2>2 DEF Closes
  <2>4. Hear(m, t) = HearTop(m, t)
    BY <2>1 DEF Hear
  <2>5. HearTop(m, t) = At(Front(m.opened), IF n \in Collections
                                            THEN Append(m.events, R!Event("end", <<>>))
                                            ELSE m.events)
    BY <2>2, <2>3 DEF HearTop
  <2> QED
    BY <1>2, <2>1, <2>4, <2>5 DEF m, t
<1>4. ASSUME NEW el \in ValueElements, NEW c, Readable(el, c)
      PROVE  Hear(Inside(Append(open, el), el, c, es), Token("end", el))
               = At(open, Append(es, R!Event("value", <<ValueOf(el, c)>>)))
  <2> DEFINE m == Inside(Append(open, el), el, c, es)
             t == Token("end", el)
  <2>1. /\ m.opened = Append(open, el) /\ m.events = es /\ m.element = el
        /\ m.content = c /\ m.ok = TRUE
    BY DEF Inside
  <2>2. t.kind = "end" /\ t.name = el
    BY <1>1
  <2>3. el \in Names /\ el # "none"
    BY DEF ValueElements, Names
  <2> HIDE DEF m, t
  <2>4. Closes(m, t)
    BY <1>2, <2>1, <2>2, <2>3 DEF Closes
  <2>5. Hear(m, t) = HearWithin(m, t)
    BY <2>1, <2>3 DEF Hear
  <2>6. HearWithin(m, t) = At(Front(m.opened),
                              Append(m.events, R!Event("value", <<ValueOf(m.element, m.content)>>)))
    BY <1>4, <2>1, <2>2, <2>4 DEF HearWithin
  <2> QED
    BY <1>2, <2>1, <2>3, <2>5, <2>6 DEF m, t
<1>5. Collections \subseteq Names
  BY DEF Collections, Names
<1> QED
  BY <1>3, <1>4, <1>5

LEMMA HeardText ==
  ASSUME NEW open, NEW el \in ValueElements, NEW c, NEW es, NEW x
  PROVE  Hear(Inside(open, el, c, es), Token("text", x)) = Inside(open, el, Append(c, x), es)
  BY DEF Inside, Token, Hear, HearWithin, ValueElements

(* The tokens of a value are read as that value. *)
LEMMA ValueHeard ==
  ASSUME BooleansAssumption, NEW v \in Values \ Uids,
         NEW open \in Seq(Names), NEW es \in Seq(EventSet)
  PROVE  Leads(ValueElement(v), At(open, es), At(open, Append(es, R!Event("value", <<v>>))))
<1> DEFINE fs == Append(es, R!Event("value", <<v>>))
           space == Token("text", "space")
           t == Token("text", v)
           name == IF expecting_key THEN "key" ELSE "string"
<1>1. \/ v \in Booleans /\ ValueElement(v) = Element(v, <<>>)
      \/ v \in Texts /\ ValueElement(v) = Element("text", <<t>>)
      \/ v \in Datas /\ ValueElement(v) = Element("data", <<space, t, space>>)
      \/ v \in Strings /\ ValueElement(v) = Element(name, <<t>>)
  BY DEF Values, ValueElement
<1>2. \A n \in Names, k \in {"start", "end", "text"} : Token(k, n) \in Tokens
  BY DEF Token, Tokens
<1>3. v \in Names /\ ValueElements \subseteq Names /\ "space" \in Names
      /\ name \in ValueElements \ {"text", "data"}
  BY DEF Names, ValueElements
<1>4. fs \in Seq(EventSet)
  BY EventForms, AppendFacts
<1> HIDE DEF fs, Names, Tokens
<1>5. CASE v \in Booleans /\ ValueElement(v) = Element(v, <<>>)
  <2> DEFINE a == Token("start", v)
             b == Token("end", v)
             n == At(Append(open, v), fs)
  <2>1. v \notin Collections
    BY <1>5 DEF BooleansAssumption, Collections
  <2>2. Hear(At(open, es), a) = n
    BY <1>5, HeardAtTop DEF fs
  <2>3. Hear(n, b) = At(open, fs)
    BY <1>3, <1>4, <2>1, HeardEnds
  <2>4. a \in Tokens /\ b \in Tokens
    BY <1>2, <1>3
  <2>5. Element(v, <<>>) = <<a>> \o <<b>>
    <3>1. <<a>> \in Seq(Tokens)
      BY <2>4
    <3>2. <<a>> \o <<>> = <<a>>
      BY <3>1, ConcatOfNone
    <3> QED
      BY <3>2 DEF Element
  <2> HIDE DEF a, b, n
  <2>6. Leads(<<a>>, At(open, es), n) /\ Leads(<<b>>, n, At(open, fs))
    BY <2>2, <2>3, <2>4, LeadsToken
  <2> QED
    BY <1>5, <2>5, <2>6, LeadsConcat DEF fs
<1>6. ASSUME NEW el \in ValueElements, NEW c \in Seq(Tokens), NEW x,
             Readable(el, x), ValueOf(el, x) = v,
             Leads(c, Inside(Append(open, el), el, <<>>, es), Inside(Append(open, el), el, x, es))
      PROVE  Leads(Element(el, c), At(open, es), At(open, fs))
  <2> DEFINE a == Token("start", el)
             b == Token("end", el)
             m == Inside(Append(open, el), el, <<>>, es)
             n == Inside(Append(open, el), el, x, es)
  <2>1. Hear(At(open, es), a) = m
    BY HeardAtTop
  <2>2. Hear(n, b) = At(open, fs)
    BY <1>6, HeardEnds DEF fs
  <2>3. a \in Tokens /\ b \in Tokens
    BY <1>2, <1>3
  <2>4. Element(el, c) = (<<a>> \o c) \o <<b>>
    BY DEF Element
  <2>5. Leads(c, m, n)
    BY <1>6
  <2> HIDE DEF a, b, m, n
  <2>6. Leads(<<a>>, At(open, es), m) /\ Leads(<<b>>, n, At(open, fs))
    BY <2>1, <2>2, <2>3, LeadsToken
  <2>7. Leads(<<a>> \o c, At(open, es), n)
    BY <2>5, <2>6, LeadsConcat
  <2>8. Leads((<<a>> \o c) \o <<b>>, At(open, es), At(open, fs))
    BY <2>6, <2>7, LeadsConcat
  <2> QED
    BY <2>4, <2>8
<1>7. t \in Tokens /\ space \in Tokens
  BY <1>2, <1>3
<1>8. ASSUME NEW el \in ValueElements, NEW ps, NEW c, NEW x \in Names
      PROVE  Leads(<<Token("text", x)>>, Inside(ps, el, c, es), Inside(ps, el, Append(c, x), es))
  BY <1>2, LeadsToken, HeardText
<1>9. \A ps : \A el \in ValueElements :
        Leads(<<t>>, Inside(ps, el, <<>>, es), Inside(ps, el, <<v>>, es))
  <2>1. Append(<<>>, v) = <<v>>
    OBVIOUS
  <2> QED
    BY <1>3, <1>8, <2>1
<1>10. <<t>> \in Seq(Tokens)
  BY <1>7
<1>11. CASE v \in Texts /\ ValueElement(v) = Element("text", <<t>>)
  <2>1. Readable("text", <<v>>) /\ ValueOf("text", <<v>>) = v /\ "text" \in ValueElements
    BY <1>11 DEF Readable, ValueOf, Values, ValueElements
  <2>2. Leads(<<t>>, Inside(Append(open, "text"), "text", <<>>, es),
              Inside(Append(open, "text"), "text", <<v>>, es))
    BY <1>9, <2>1
  <2>3. Leads(Element("text", <<t>>), At(open, es), At(open, fs))
    <3> HIDE DEF t
    <3> QED
      BY <1>6, <1>10, <2>1, <2>2
  <2> QED
    BY <1>11, <2>3 DEF fs
<1>12. CASE v \in Strings /\ ValueElement(v) = Element(name, <<t>>)
  <2>1. Readable(name, <<v>>) /\ ValueOf(name, <<v>>) = v
    <3> HIDE DEF name
    <3> QED
      BY <1>3, <1>12 DEF Readable, ValueOf, Values
  <2> HIDE DEF name
  <2>2. Leads(<<t>>, Inside(Append(open, name), name, <<>>, es),
              Inside(Append(open, name), name, <<v>>, es))
    BY <1>3, <1>9
  <2>3. Leads(Element(name, <<t>>), At(open, es), At(open, fs))
    <3> HIDE DEF t
    <3> QED
      BY <1>3, <1>6, <1>10, <2>1, <2>2
  <2> QED
    BY <1>12, <2>3 DEF fs
<1>13. CASE v \in Datas /\ ValueElement(v) = Element("data", <<space, t, space>>)
  <2> DEFINE c == <<"space", v, "space">>
             us == <<space, t, space>>
             ps == Append(open, "data")
             m1 == Inside(ps, "data", <<>>, es)
             m2 == Inside(ps, "data", <<"space">>, es)
             m3 == Inside(ps, "data", <<"space", v>>, es)
             m4 == Inside(ps, "data", c, es)
  <2>1. Readable("data", c) /\ ValueOf("data", c) = v /\ "data" \in ValueElements
    BY <1>13 DEF Readable, ValueOf, Values, ValueElements
  <2>2. /\ Append(<<>>, "space") = <<"space">>
        /\ Append(<<"space">>, v) = <<"space", v>>
        /\ Append(<<"space", v>>, "space") = c
    <3>0. "space" \in Names /\ v \in Names
      BY <1>3
    <3>1. /\ <<"space">> \in Seq(Names)
          /\ <<"space", v>> = <<"space">> \o <<v>>
          /\ c = (<<"space">> \o <<v>>) \o <<"space">>
      <4>1. <<"space">> \in Seq(Names)
        BY <3>0
      <4>2. <<"space", v>> = <<"space">> \o <<v>>
        BY <3>0, PairIsConcat
      <4>3. c = (<<"space">> \o <<v>>) \o <<"space">>
        BY <3>0, TripleIsConcat
      <4> QED
        BY <4>1, <4>2, <4>3
    <3>2. Append(<<"space">>, v) = <<"space", v>>
      BY <1>3, <3>1, ConcatOfOne
    <3>3. Append(<<"space", v>>, "space") = c
      <4> DEFINE s == <<"space", v>>
      <4>1. s \in Seq(Names) /\ c = s \o <<"space">>
        <5>1. s \in Seq(Names)
          BY <3>0
        <5> QED
          BY <3>1, <5>1
      <4> HIDE DEF s, c
      <4>2. Append(s, "space") = c
        BY <1>3, <4>1, ConcatOfOne
      <4> QED
        BY <4>2 DEF s
    <3> QED
      BY <3>2, <3>3
  <2>3. Leads(<<space>>, m1, m2) /\ Leads(<<t>>, m2, m3) /\ Leads(<<space>>, m3, m4)
    BY <1>3, <1>8, <2>1, <2>2
  <2>4. us = (<<space>> \o <<t>>) \o <<space>>
    BY <1>7, TripleIsConcat
  <2>5. us \in Seq(Tokens)
    BY <1>7
  <2> HIDE DEF us, space, t, m1, m2, m3, m4
  <2>6. Leads(<<space>> \o <<t>>, m1, m3)
    BY <2>3, LeadsConcat
  <2>7. Leads(us, m1, m4)
    BY <2>3, <2>4, <2>6, LeadsConcat
  <2>8. Leads(Element("data", us), At(open, es), At(open, fs))
    BY <1>6, <2>1, <2>5, <2>7 DEF m1, m4
  <2> QED
    BY <1>13, <2>8 DEF fs, us, space, t
<1> QED
  BY <1>1, <1>5, <1>11, <1>12, <1>13

(* The tags of collections and of the document.                             *)
LEMMA TagsHeard ==
  ASSUME BooleansAssumption, NEW open \in Seq(Names), NEW es \in Seq(EventSet)
  PROVE  /\ Leads(PlistEnd, At(Append(open, "plist"), es), At(open, es))
         /\ Leads(Prologue, At(open, es), At(Append(open, "plist"), es))
         /\ \A ty \in Collections :
              /\ Leads(<<Token("start", ty)>>, At(open, es),
                       At(Append(open, ty), Append(es, R!Event(ty, <<>>))))
              /\ Leads(<<Token("end", ty)>>, At(Append(open, ty), es),
                       At(open, Append(es, R!Event("end", <<>>))))
              /\ Leads(Element(ty, <<>>), At(open, es),
                       At(open, Append(Append(es, R!Event(ty, <<>>)), R!Event("end", <<>>))))
<1> DEFINE a == Token("decl", "xml")
           b == Token("decl", "DOCTYPE")
           c == Token("start", "plist")
           e == Token("end", "plist")
           m == At(open, es)
           n == At(Append(open, "plist"), es)
<1>1. {a, b, c, e} \subseteq Tokens
  BY DEF Tokens, Token, Names
<1>2. "plist" \in Names \ Collections /\ Collections \subseteq Names
  BY DEF Names, Collections
<1>3. Hear(m, a) = m /\ Hear(m, b) = m /\ Hear(m, c) = n
  BY HeardAtTop
<1>4. Hear(n, e) = m
  BY <1>2, HeardEnds
<1>5. Prologue = <<a, b, c>> /\ PlistEnd = <<e>>
  BY DEF Prologue, PlistEnd
<1>6. \A ty \in Collections : Token("start", ty) \in Tokens /\ Token("end", ty) \in Tokens
  BY <1>2 DEF Tokens, Token
<1> HIDE DEF a, b, c, e, Tokens, m, n
<1>7. Leads(PlistEnd, n, m)
  BY <1>1, <1>4, <1>5, LeadsToken
<1>8. Leads(Prologue, m, n)
  <2>1. Leads(<<a>>, m, m) /\ Leads(<<b>>, m, m) /\ Leads(<<c>>, m, n)
    BY <1>1, <1>3, LeadsToken
  <2>2. Leads(<<a>> \o <<b>>, m, m)
    BY <2>1, LeadsConcat
  <2>3. Leads((<<a>> \o <<b>>) \o <<c>>, m, n)
    BY <2>1, <2>2, LeadsConcat
  <2>4. Prologue = (<<a>> \o <<b>>) \o <<c>>
    <3>1. a \in Tokens /\ b \in Tokens /\ c \in Tokens
      BY <1>1
    <3>2. <<a, b, c>> = (<<a>> \o <<b>>) \o <<c>>
      BY <3>1, TripleIsConcat
    <3> QED
      BY <1>5, <3>2
  <2> QED
    BY <2>3, <2>4
<1>9. ASSUME NEW ty \in Collections
      PROVE  /\ Leads(<<Token("start", ty)>>, m,
                      At(Append(open, ty), Append(es, R!Event(ty, <<>>))))
             /\ Leads(<<Token("end", ty)>>, At(Append(open, ty), es),
                      At(open, Append(es, R!Event("end", <<>>))))
             /\ Leads(Element(ty, <<>>), m,
                      At(open, Append(Append(es, R!Event(ty, <<>>)), R!Event("end", <<>>))))
  <2> DEFINE s == Token("start", ty)
             t == Token("end", ty)
             fs == Append(es, R!Event(ty, <<>>))
             gs == Append(fs, R!Event("end", <<>>))
             o == At(Append(open, ty), fs)
             p == At(Append(open, ty), es)
  <2>1. s \in Tokens /\ t \in Tokens
    BY <1>6
  <2>2. fs \in Seq(EventSet)
    <3>1. R!Event(ty, <<>>) \in EventSet
      BY EventForms
    <3> HIDE DEF EventSet
    <3> QED
      BY <3>1, AppendFacts
  <2>3. Hear(m, s) = o
    BY HeardAtTop DEF m
  <2> HIDE DEF fs
  <2>4. Hear(p, t) = At(open, Append(es, R!Event("end", <<>>)))
    BY HeardEnds
  <2>5. Hear(o, t) = At(open, gs)
    BY <2>2, HeardEnds
  <2> HIDE DEF s, t, o, p, gs
  <2>6. Leads(<<s>>, m, o) /\ Leads(<<t>>, o, At(open, gs))
        /\ Leads(<<t>>, p, At(open, Append(es, R!Event("end", <<>>))))
    BY <2>1, <2>3, <2>4, <2>5, LeadsToken
  <2>7. Element(ty, <<>>) = <<s>> \o <<t>>
    <3>1. <<s>> \in Seq(Tokens)
      BY <2>1
    <3>2. <<s>> \o <<>> = <<s>>
      BY <3>1, ConcatOfNone
    <3> QED
      BY <3>2 DEF Element, s, t
  <2>8. Leads(<<s>> \o <<t>>, m, At(open, gs))
    BY <2>6, LeadsConcat
  <2> QED
    BY <2>6, <2>7, <2>8 DEF s, t, o, p, fs, gs
<1> QED
  BY <1>7, <1>8, <1>9 DEF m, n

(***************************************************************************)
(* The invariant of the writer: what has been written so far is read as    *)
(* the calls that have been carried out.  An empty collection is written   *)
(* by its end, while the start counts as carried out from the moment that  *)
(* it is taken.                                                            *)
(***************************************************************************)
Said(es) == IF taken = "none" THEN es ELSE Append(es, R!Event(taken, <<>>))

ReadAs(open, es) == es \in Seq(EventSet) /\ Reads(output) = At(open, es)

OutputHeard ==
  Usable /\ PlistsEnded <= 1 =>
    \E es : ReadAs(Root(PlistsEnded) \o stack, es) /\ Answers(Said(es), input)

TakenAlone == taken # "none" => pending_collection = "none"

EInv == input \in Seq(Calls) /\ TakenAlone /\ OutputHeard

(* One event more, and the call that it answers.                            *)
LEMMA AnswersMore ==
  ASSUME NEW es \in Seq(EventSet), NEW cs \in Seq(Calls), Answers(es, cs),
         NEW e \in EventSet, NEW c \in Calls, AsCall(e) = c
  PROVE  Answers(Append(es, e), Append(cs, c))
<1> HIDE DEF EventSet, Calls
<1> DEFINE fs == Append(es, e)
           ds == Append(cs, c)
<1>1. /\ Len(fs) = Len(es) + 1 /\ Len(es) \in Nat
      /\ (\A i \in 1..Len(es) : fs[i] = es[i]) /\ fs[Len(es) + 1] = e
  BY AppendFacts
<1>2. /\ Len(ds) = Len(cs) + 1 /\ Len(cs) \in Nat
      /\ (\A i \in 1..Len(cs) : ds[i] = cs[i]) /\ ds[Len(cs) + 1] = c
  BY AppendFacts
<1> HIDE DEF fs, ds
<1>3. Len(es) = Len(cs) /\ \A i \in 1..Len(es) : AsCall(es[i]) = cs[i]
  BY DEF Answers
<1>4. ASSUME NEW i \in 1..Len(fs)
      PROVE  AsCall(fs[i]) = ds[i]
  <2>1. i \in 1..Len(es) \/ i = Len(es) + 1
    BY <1>1
  <2>2. CASE i \in 1..Len(es)
    BY <1>1, <1>2, <1>3, <2>2
  <2>3. CASE i = Len(es) + 1
    BY <1>1, <1>2, <1>3, <2>3
  <2> QED
    BY <2>1, <2>2, <2>3
<1>5. Len(fs) = Len(ds)
  BY <1>1, <1>2, <1>3
<1> QED
  BY <1>4, <1>5 DEF Answers, fs, ds

(* The tags us are read as one event more than has been said.               *)
Tells(us, from, to, e) ==
  \A base \in Seq(Names), es \in Seq(EventSet) :
    Leads(us, At(base \o from, es), At(base \o to, Append(Said(es), e)))

LEMMA SaidType ==
  ASSUME NInv, NEW es \in Seq(EventSet)
  PROVE  Said(es) \in Seq(EventSet)
<1>1. taken # "none" => R!Event(taken, <<>>) \in EventSet
  BY EventForms DEF NInv, OutputTypeOK
<1> HIDE DEF EventSet
<1> QED
  BY <1>1, AppendFacts DEF Said

(* A call that has been carried out is read as its event. *)
LEMMA WriteEventHeard ==
  ASSUME BooleansAssumption, NInv, EInv, Usable, NEW e \in Calls, NEW us,
         NEW before, NEW to \in Seq(Collections), NEW key, NEW next,
         WriteEvent(e, us, before, to, key, next), verdict' = "ok",
         NEW f \in EventSet, AsCall(f) = e, Turns(us, stack, to), Tells(us, stack, to, f),
         taken' = "none"
  PROVE  EInv'
<1> DEFINE ts == Opening
           vs == ts \o us
           ws == vs \o Closing(to)
           first == PlistsIn(output)
           root == IF write_root_element /\ first = 0 THEN <<"plist">> ELSE <<>>
<1>1. /\ started_plist' = TRUE /\ output' = ws /\ stack' = to
      /\ write_root_element' = write_root_element /\ input' = Append(input, e)
  BY DEF WriteEvent, Broken, Done
<1>2. /\ output \in Seq(Tokens) /\ stack \in Seq(Collections) /\ us \in Seq(Tokens)
  BY DEF NInv, OutputTypeOK, Turns
<1>3. first \in Nat /\ (~started_plist => stack = <<>> /\ first = 0)
  BY <1>2, PlistTags DEF NInv, NestedOutput, PlistsEnded
<1>4. Collections \subseteq Names /\ "plist" \in Names
  BY DEF Collections, Names
<1> HIDE DEF Tokens, Collections, Names, EventSet, Calls
<1>5. input' \in Seq(Calls)
  BY <1>1, AppendFacts DEF EInv, TakenAlone
<1>6. root \in Seq(Names) /\ stack \in Seq(Names) /\ to \in Seq(Names)
  <2>1. <<"plist">> \in Seq(Names) /\ <<>> \in Seq(Names)
    BY <1>4
  <2>2. stack \in Seq(Names) /\ to \in Seq(Names)
    BY <1>2, <1>4
  <2> QED
    BY <2>1, <2>2
<1>7. PlistsIn(ts) = first /\ ts \in Seq(Tokens)
  BY <1>2, PlistTags DEF Opening
<1>8. PlistsIn(vs) = first
  BY <1>2, <1>7 DEF Turns
<1>9. vs \in Seq(Tokens)
  BY <1>2, <1>7, ConcatFacts
<1>10. ASSUME first <= 1
       PROVE  \E es \in Seq(EventSet) :
                Answers(Said(es), input) /\ Reads(ts) = At(root \o stack, es)
  <2>1. PICK es : ReadAs(Root(first) \o stack, es) /\ Answers(Said(es), input)
    BY <1>10 DEF EInv, OutputHeard, PlistsEnded
  <2>2. es \in Seq(EventSet) /\ Reads(output) = At(Root(first) \o stack, es)
    BY <2>1 DEF ReadAs
  <2>3. CASE ~started_plist /\ write_root_element
    <3>1. ts = output \o Prologue /\ Root(first) = <<>> /\ root = <<"plist">> /\ stack = <<>>
      BY <1>3, <2>3 DEF Opening, Root
    <3> DEFINE o == <<>>
    <3>2. o \in Seq(Names) /\ Append(o, "plist") = <<"plist">>
      BY <1>4, EmptySeq
    <3>3. Root(first) \o stack = o
      <4>1. Root(first) = o /\ stack = o
        BY <3>1
      <4>2. o \o <<>> = o
        BY <3>2, ConcatOfNone
      <4> QED
        BY <4>1, <4>2
    <3>4. root \o stack = Append(o, "plist")
      <4> HIDE DEF first
      <4>1. root \o <<>> = root
        BY <1>6, ConcatOfNone
      <4> QED
        BY <3>1, <3>2, <4>1
    <3> HIDE DEF o, root, ts
    <3>5. Leads(Prologue, At(o, es), At(Append(o, "plist"), es))
      BY <2>2, <3>2, TagsHeard
    <3>6. Reads(output) = At(o, es)
      BY <2>2, <3>3
    <3>7. Reads(ts) = At(Append(o, "plist"), es)
      BY <1>2, <3>1, <3>5, <3>6 DEF Leads
    <3>8. Reads(ts) = At(root \o stack, es)
      BY <3>4, <3>7
    <3> QED
      BY <2>1, <2>2, <3>8
  <2>4. CASE ~(~started_plist /\ write_root_element)
    <3>1. ts = output /\ Root(first) = root
      BY <2>4 DEF Opening, Root
    <3> HIDE DEF root, ts
    <3> QED
      BY <2>1, <2>2, <3>1
  <2> QED
    BY <2>3, <2>4
<1> HIDE DEF first
<1>11. ASSUME first <= 1
       PROVE  \E es \in Seq(EventSet) :
                Answers(es, input') /\ Reads(vs) = At(root \o to, es)
  <2>1. PICK es \in Seq(EventSet) : Answers(Said(es), input) /\ Reads(ts) = At(root \o stack, es)
    BY <1>10, <1>11
  <2> DEFINE s == Said(es)
             gs == Append(s, f)
  <2>2. s \in Seq(EventSet)
    BY <2>1, SaidType
  <2>3. Leads(us, At(root \o stack, es), At(root \o to, gs))
    BY <1>6, <2>1 DEF Tells
  <2> HIDE DEF s, root, ts
  <2>4. gs \in Seq(EventSet)
    BY <2>2, AppendFacts
  <2>5. Answers(gs, input')
    <3>1. Answers(s, input) /\ input \in Seq(Calls)
      BY <2>1 DEF s, EInv
    <3> QED
      BY <1>1, <2>2, <3>1, AnswersMore
  <2>6. Reads(vs) = At(root \o to, gs)
    BY <1>7, <2>1, <2>3 DEF Leads
  <2> QED
    BY <2>4, <2>5, <2>6
<1>12. CASE to = <<>> /\ write_root_element
  <2>1. ws = vs \o PlistEnd
    BY <1>12 DEF Closing
  <2>2. PlistsIn(ws) = first + 1
    BY <1>8, <1>9, <2>1, PlistTags
  <2> HIDE DEF vs, ws
  <2>3. PlistsEnded' = first + 1
    BY <1>1, <2>2 DEF PlistsEnded
  <2>4. ASSUME PlistsEnded' <= 1
        PROVE  \E es \in Seq(EventSet) :
                 Answers(es, input') /\ Reads(ws) = At(<<>>, es)
    <3>1. first = 0 /\ first <= 1
      BY <1>3, <2>3, <2>4
    <3>2. PICK es \in Seq(EventSet) : Answers(es, input') /\ Reads(vs) = At(root \o to, es)
      BY <1>11, <3>1
    <3> DEFINE o == <<>>
    <3>3. o \in Seq(Names) /\ Append(o, "plist") = <<"plist">>
      BY <1>4, EmptySeq
    <3>4. root \o to = Append(o, "plist")
      <4>1. root \o <<>> = root
        BY <1>6, ConcatOfNone
      <4> QED
        BY <1>12, <3>1, <3>3, <4>1
    <3> HIDE DEF o, root
    <3>5. Leads(PlistEnd, At(Append(o, "plist"), es), At(o, es))
      BY <3>2, <3>3, TagsHeard
    <3>6. Reads(ws) = At(o, es)
      BY <1>9, <2>1, <3>2, <3>4, <3>5 DEF Leads
    <3> QED
      BY <3>2, <3>6 DEF o
  <2>5. PlistsEnded' <= 1 => Root(PlistsEnded)' \o stack' = <<>>
    <3> DEFINE o == <<>>
    <3>1. PlistsEnded' <= 1 => Root(PlistsEnded)' = o
      BY <1>3, <2>3 DEF Root
    <3>2. o \o o = o
      <4>1. o \in Seq(Names)
        BY EmptySeq
      <4> QED
        BY <4>1, ConcatOfNone
    <3>3. stack' = o
      BY <1>1, <1>12
    <3> HIDE DEF o
    <3>4. PlistsEnded' <= 1 => Root(PlistsEnded)' \o stack' = o
      BY <3>1, <3>2, <3>3
    <3> QED
      BY <3>4 DEF o
  <2>6. OutputHeard'
    BY <1>1, <2>4, <2>5 DEF OutputHeard, ReadAs, Said
  <2> QED
    BY <1>5, <2>6 DEF EInv, TakenAlone
<1>13. CASE ~(to = <<>> /\ write_root_element)
  <2>1. ws = vs
    <3>1. Closing(to) = <<>>
      BY <1>13 DEF Closing
    <3> HIDE DEF vs
    <3> QED
      BY <1>9, <3>1, ConcatOfNone
  <2> HIDE DEF vs, ws
  <2>2. PlistsEnded' = first
    BY <1>1, <1>8, <2>1 DEF PlistsEnded
  <2>3. Root(PlistsEnded)' = root
    BY <1>1, <2>2 DEF Root
  <2> HIDE DEF root
  <2>4. Root(PlistsEnded)' \o stack' = root \o to
    BY <1>1, <2>3
  <2>5. OutputHeard'
    BY <1>1, <1>11, <2>1, <2>2, <2>4 DEF OutputHeard, ReadAs, Said
  <2> QED
    BY <1>5, <2>5 DEF EInv, TakenAlone
<1> QED
  BY <1>12, <1>13

(* A call that is not carried out, or carried out without a word.           *)
LEMMA NotCarriedOut ==
  ASSUME EInv, input' = input, TakenAlone',
         \/ ~Usable'
         \/ Usable /\ UNCHANGED <<write_root_element, state, taken>>
  PROVE  EInv'
<1>1. CASE ~Usable'
  BY <1>1 DEF EInv, OutputHeard
<1>2. CASE Usable /\ UNCHANGED <<write_root_element, state, taken>>
  <2>1. /\ stack' = stack /\ output' = output /\ started_plist' = started_plist
        /\ write_root_element' = write_root_element /\ taken' = taken
    BY <1>2 DEF state
  <2>2. PlistsEnded' = PlistsEnded /\ Root(PlistsEnded)' = Root(PlistsEnded)
    BY <2>1 DEF PlistsEnded, Root
  <2>3. OutputHeard'
    BY <1>2, <2>1, <2>2 DEF EInv, OutputHeard, ReadAs, Said
  <2> QED
    BY <2>3 DEF EInv
<1> QED
  BY <1>1, <1>2

(* A writer that has not been called yet satisfies it. *)
LEMMA SilenceHeard == Reads(<<>>) = Silence
<1> DEFINE e == <<>>
           h == [x \in Heard \X Tokens |-> Hear(x[1], x[2])]
<1>1. e = <<>> /\ e \in Seq(Tokens)
  BY EmptySeq
<1> HIDE DEF e, h
<1>2. Outcome(Reads(e), e, Silence, h)
  BY <1>1, HearingFollows DEF h
<1>3. Reads(e) = Silence
  BY <1>1, <1>2, OutcomeOfEmpty
<1> QED
  BY <1>1, <1>3

LEMMA InitEInv == Init => EInv
<1> SUFFICES ASSUME Init
             PROVE  EInv
  OBVIOUS
<1> DEFINE e == <<>>
<1>1. stack = e /\ output = e /\ input = e /\ taken = "none"
      /\ started_plist = FALSE
  BY DEF Init
<1>2. \A S : e \in Seq(S)
  BY EmptySeq
<1>3. Reads(e) = At(e, e)
  BY SilenceHeard DEF Silence
<1>4. \A k : Root(k) = e
  BY <1>1 DEF Root
<1>5. e \o e = e
  BY <1>2, ConcatOfNone
<1>6. Answers(e, e)
  BY DEF Answers
<1> HIDE DEF e, EventSet, Calls
<1>7. Root(PlistsEnded) \o stack = e
  BY <1>1, <1>4, <1>5
<1>8. ReadAs(Root(PlistsEnded) \o stack, e)
  BY <1>1, <1>2, <1>3, <1>7 DEF ReadAs
<1>9. Said(e) = e
  BY <1>1 DEF Said
<1> QED
  BY <1>1, <1>2, <1>6, <1>8, <1>9 DEF EInv, TakenAlone, OutputHeard

(* The call of an event. *)
LEMMA CallsOfEvents ==
  /\ \A ty \in Collections \cup {"end"} : AsCall(R!Event(ty, <<>>)) = [kind |-> ty, arg |-> 0]
  /\ \A v : AsCall(R!Event("value", <<v>>)) = [kind |-> "value", arg |-> v]
  BY DEF AsCall, R!Event, Collections

(* What each call writes says that it has been called.                      *)
LEMMA StartTells ==
  ASSUME BooleansAssumption, NInv, taken = "none", NEW ty \in Collections
  PROVE  Tells(<<Token("start", ty)>>, stack, Pushed(ty), R!Event(ty, <<>>))
<1> SUFFICES ASSUME NEW base \in Seq(Names), NEW es \in Seq(EventSet)
             PROVE  Leads(<<Token("start", ty)>>, At(base \o stack, es),
                          At(base \o Append(stack, ty), Append(es, R!Event(ty, <<>>))))
  BY DEF Tells, Said, Pushed
<1>1. Collections \subseteq Names /\ stack \in Seq(Collections)
  BY DEF NInv, OutputTypeOK, Collections, Names
<1> HIDE DEF Collections, Names
<1>2. stack \in Seq(Names) /\ ty \in Names
  BY <1>1
<1>3. base \o stack \in Seq(Names) /\ Append(base \o stack, ty) = base \o Append(stack, ty)
  BY <1>2, ConcatFacts, PushedOnBase
<1> QED
  BY <1>3, TagsHeard

LEMMA EndTells ==
  ASSUME BooleansAssumption, NInv, taken = "none", stack # <<>>
  PROVE  Tells(<<Token("end", Last(stack))>>, stack, Front(stack), R!Event("end", <<>>))
<1> DEFINE n == Last(stack)
           rest == Front(stack)
<1> SUFFICES ASSUME NEW base \in Seq(Names), NEW es \in Seq(EventSet)
             PROVE  Leads(<<Token("end", n)>>, At(base \o stack, es),
                          At(base \o rest, Append(es, R!Event("end", <<>>))))
  BY DEF Tells, Said
<1>1. Collections \subseteq Names /\ stack \in Seq(Collections)
  BY DEF NInv, OutputTypeOK, Collections, Names
<1> HIDE DEF Collections, Names
<1>2. n \in Collections /\ rest \in Seq(Collections) /\ stack = Append(rest, n)
  BY <1>1, FrontLast, AppendOfFront
<1> HIDE DEF n, rest
<1>3. rest \in Seq(Names) /\ n \in Names
  BY <1>1, <1>2
<1>4. base \o rest \in Seq(Names) /\ Append(base \o rest, n) = base \o Append(rest, n)
  BY <1>3, ConcatFacts, PushedOnBase
<1>5. Append(base \o rest, n) = base \o stack
  BY <1>2, <1>4
<1>6. Leads(<<Token("end", n)>>, At(Append(base \o rest, n), es),
            At(base \o rest, Append(es, R!Event("end", <<>>))))
  BY <1>2, <1>4, TagsHeard
<1> QED
  BY <1>5, <1>6

LEMMA EmptyTells ==
  ASSUME BooleansAssumption, NInv, taken # "none"
  PROVE  Tells(Element(taken, <<>>), stack, stack, R!Event("end", <<>>))
<1> SUFFICES ASSUME NEW base \in Seq(Names), NEW es \in Seq(EventSet)
             PROVE  Leads(Element(taken, <<>>), At(base \o stack, es),
                          At(base \o stack, Append(Append(es, R!Event(taken, <<>>)),
                                                   R!Event("end", <<>>))))
  BY DEF Tells, Said
<1>1. Collections \subseteq Names /\ stack \in Seq(Collections) /\ taken \in Collections
  BY DEF NInv, OutputTypeOK, Collections, Names
<1> HIDE DEF Collections, Names
<1>2. stack \in Seq(Names)
  BY <1>1
<1>3. base \o stack \in Seq(Names)
  BY <1>2, ConcatFacts
<1> QED
  BY <1>1, <1>3, TagsHeard

LEMMA ValueTells ==
  ASSUME BooleansAssumption, NInv, taken = "none", NEW v \in Values \ Uids
  PROVE  Tells(ValueElement(v), stack, stack, R!Event("value", <<v>>))
<1> SUFFICES ASSUME NEW base \in Seq(Names), NEW es \in Seq(EventSet)
             PROVE  Leads(ValueElement(v), At(base \o stack, es),
                          At(base \o stack, Append(es, R!Event("value", <<v>>))))
  BY DEF Tells, Said
<1>1. Collections \subseteq Names /\ stack \in Seq(Collections)
  BY DEF NInv, OutputTypeOK, Collections, Names
<1> HIDE DEF Collections, Names
<1>2. stack \in Seq(Names)
  BY <1>1
<1>3. base \o stack \in Seq(Names)
  BY <1>2, ConcatFacts
<1> QED
  BY <1>3, ValueHeard

(* Every call keeps the invariant. *)
LEMMA NextEInv == BooleansAssumption /\ NInv /\ EInv /\ [Next]_vars => EInv'
<1> SUFFICES ASSUME BooleansAssumption, NInv, EInv, [Next]_vars
             PROVE  EInv'
  OBVIOUS
<1>1. /\ stack \in Seq(Collections) /\ pending_collection \in Collections \cup {"none"}
      /\ taken \in Collections \cup {"none"} /\ request \in Calls \cup {NoCall}
      /\ taken # "none" => pending_collection = "none"
  BY DEF NInv, OutputTypeOK, EInv, TakenAlone
<1>2. /\ request # NoCall => Usable
      /\ request.kind = "value" => request.arg \notin Uids
      /\ taken # "none" => request.kind = "end"
  BY DEF NInv, RequestTaken
<1>3. /\ request.kind # "none" => Usable /\ request \in Calls
      /\ request.kind = "value" => /\ request.arg \in Values \ Uids
                                   /\ request = [kind |-> "value", arg |-> request.arg]
      /\ request.kind = "end" => request = [kind |-> "end", arg |-> 0]
  BY <1>1, <1>2 DEF NoCall, Calls
<1>4. /\ \A ty \in Collections : /\ Turns(<<Token("start", ty)>>, stack, Pushed(ty))
                                 /\ Pushed(ty) \in Seq(Collections)
                                 /\ [kind |-> ty, arg |-> 0] \in Calls
                                 /\ R!Event(ty, <<>>) \in EventSet
      /\ stack # <<>> => /\ Turns(<<Token("end", Last(stack))>>, stack, Front(stack))
                         /\ Front(stack) \in Seq(Collections)
      /\ R!Event("end", <<>>) \in EventSet
      /\ \A v \in Values : R!Event("value", <<v>>) \in EventSet
  <2>1. \A ty \in Collections : [kind |-> ty, arg |-> 0] \in Calls
    BY DEF Collections, Calls
  <2> QED
    BY <1>1, <2>1, TagsTurn, AppendFacts, FrontLast, EventForms DEF Pushed
<1>5. CASE \E e \in Calls : Submit(e)
  <2>1. /\ Usable /\ UNCHANGED <<write_root_element, state, taken>>
        /\ pending_collection' = pending_collection /\ input' = input
    BY <1>5 DEF Submit
  <2>2. TakenAlone'
    BY <1>1, <2>1 DEF TakenAlone
  <2> QED
    BY <2>1, <2>2, NotCarriedOut
<1>6. CASE StartPending
  <2> DEFINE ty == pending_collection
             e == [kind |-> ty, arg |-> 0]
             f == R!Event(ty, <<>>)
             us == <<Token("start", ty)>>
             to == Pushed(ty)
  <2>1. /\ request # NoCall /\ request.kind # "end" /\ ty \in Collections
        /\ pending_collection' = "none" /\ taken' = taken /\ taken = "none" /\ Usable
    BY <1>1, <1>2, <1>6 DEF StartPending
  <2>2. TakenAlone'
    BY <2>1 DEF TakenAlone
  <2>3. CASE expecting_key
    <3>1. input' = input /\ ~Usable'
      BY <1>6, <2>3 DEF StartPending, Refused, Done, Usable
    <3> QED
      BY <2>2, <3>1, NotCarriedOut
  <2>4. CASE ~expecting_key
    <3>1. WriteEvent(e, us, stack, to, InDictionary(to), request)
      BY <1>6, <2>4 DEF StartPending
    <3>2. AsCall(f) = e /\ Tells(us, stack, to, f)
      BY <2>1, CallsOfEvents, StartTells
    <3>3. /\ e \in Calls /\ f \in EventSet /\ to \in Seq(Collections)
          /\ Turns(us, stack, to)
      BY <1>4, <2>1
    <3> HIDE DEF e, f, us, to
    <3>4. CASE verdict' = "ok"
      BY <2>1, <3>1, <3>2, <3>3, <3>4, WriteEventHeard
    <3>5. CASE verdict' # "ok"
      <4>1. input' = input /\ ~Usable'
        BY <3>1, <3>5 DEF WriteEvent, Broken, Done, Usable
      <4> QED
        BY <2>2, <4>1, NotCarriedOut
    <3> QED
      BY <3>4, <3>5
  <2> QED
    BY <2>3, <2>4
<1>7. CASE WriteStartCollection
  <2>1. /\ request.kind \in Collections /\ taken' = taken /\ input' = input
        /\ UNCHANGED <<write_root_element, state, taken>>
    BY <1>7 DEF WriteStartCollection, Collections
  <2>2. taken = "none" /\ Usable
    BY <1>2, <1>3, <2>1 DEF Collections
  <2>3. TakenAlone'
    BY <2>1, <2>2 DEF TakenAlone
  <2> QED
    BY <2>1, <2>2, <2>3, NotCarriedOut
<1>8. CASE TakePending
  <2> DEFINE ty == pending_collection
             e == [kind |-> ty, arg |-> 0]
             f == R!Event(ty, <<>>)
  <2>1. /\ request.kind = "end" /\ taken' = ty /\ pending_collection' = "none"
        /\ input' = Append(input, e) /\ UNCHANGED <<write_root_element, state>>
        /\ ty \in Collections /\ taken = "none" /\ Usable
    BY <1>1, <1>3, <1>8 DEF TakePending, Done
  <2>2. TakenAlone'
    BY <2>1 DEF TakenAlone
  <2>3. e \in Calls /\ f \in EventSet /\ AsCall(f) = e
    BY <1>4, <2>1, CallsOfEvents
  <2>4. /\ stack' = stack /\ output' = output /\ started_plist' = started_plist
        /\ write_root_element' = write_root_element
    BY <2>1 DEF state
  <2>5. PlistsEnded' = PlistsEnded /\ Root(PlistsEnded)' = Root(PlistsEnded)
    BY <2>4 DEF PlistsEnded, Root
  <2>6. input \in Seq(Calls)
    BY DEF EInv
  <2> HIDE DEF e, Calls, EventSet
  <2>7. input' \in Seq(Calls)
    BY <2>1, <2>3, <2>6, AppendFacts
  <2>8. OutputHeard'
    <3> SUFFICES ASSUME PlistsEnded <= 1
                 PROVE  \E es : ReadAs(Root(PlistsEnded) \o stack, es)'
                                /\ Answers(Said(es)', input')
      BY <2>4, <2>5 DEF OutputHeard
    <3>1. PICK es : ReadAs(Root(PlistsEnded) \o stack, es) /\ Answers(Said(es), input)
      BY <2>1 DEF EInv, OutputHeard
    <3>2. es \in Seq(EventSet) /\ Said(es) = es /\ Said(es)' = Append(es, f)
      BY <2>1, <3>1 DEF ReadAs, Said, Collections
    <3>3. Answers(Append(es, f), input')
      BY <2>1, <2>3, <2>6, <3>1, <3>2, AnswersMore
    <3>4. ReadAs(Root(PlistsEnded) \o stack, es)'
      BY <2>4, <2>5, <3>1 DEF ReadAs
    <3> QED
      BY <3>2, <3>3, <3>4
  <2> QED
    BY <2>2, <2>7, <2>8 DEF EInv
<1>9. CASE WriteEmpty
  <2> DEFINE f == R!Event("end", <<>>)
             us == Element(taken, <<>>)
  <2>1. /\ taken # "none" /\ taken' = "none"
        /\ WriteEvent(request, us, stack, stack, InDictionary(stack), NoCall)
    BY <1>9 DEF WriteEmpty
  <2>2. request.kind = "end" /\ Usable /\ request \in Calls /\ TakenAlone'
    BY <1>2, <1>3, <2>1 DEF TakenAlone
  <2>3. AsCall(f) = request /\ f \in EventSet
    BY <1>3, <1>4, <2>2, CallsOfEvents
  <2>4. Tells(us, stack, stack, f) /\ Turns(us, stack, stack)
    BY <1>1, <2>1, EmptyTells, ElementsAreSilent, SilentTurns
  <2> HIDE DEF f, us
  <2>5. CASE verdict' = "ok"
    BY <1>1, <2>1, <2>2, <2>3, <2>4, <2>5, WriteEventHeard
  <2>6. CASE verdict' # "ok"
    <3>1. input' = input /\ ~Usable'
      BY <2>1, <2>6 DEF WriteEvent, Broken, Done, Usable
    <3> QED
      BY <2>2, <3>1, NotCarriedOut
  <2> QED
    BY <2>5, <2>6
<1>10. CASE WriteEndCollection
  <2> DEFINE rest == IF stack = <<>> THEN <<>> ELSE Front(stack)
             f == R!Event("end", <<>>)
             us == <<Token("end", Last(stack))>>
  <2>1. /\ request.kind = "end" /\ taken = "none" /\ taken' = taken
    BY <1>10 DEF WriteEndCollection
  <2>2. Usable /\ request \in Calls /\ TakenAlone'
    BY <1>3, <2>1 DEF TakenAlone
  <2>3. CASE ~Closable
    <3>1. input' = input /\ ~Usable'
      BY <1>10, <2>3 DEF WriteEndCollection, Refused, Done, Usable
    <3> QED
      BY <2>2, <3>1, NotCarriedOut
  <2>4. CASE Closable
    <3>1. stack # <<>> /\ rest = Front(stack)
      BY <2>4 DEF Closable
    <3>2. WriteEvent(request, us, rest, rest, InDictionary(rest), NoCall)
      BY <1>10, <2>4 DEF WriteEndCollection
    <3>3. AsCall(f) = request /\ f \in EventSet
      BY <1>3, <1>4, <2>1, CallsOfEvents
    <3>4. Tells(us, stack, rest, f) /\ Turns(us, stack, rest) /\ rest \in Seq(Collections)
      BY <1>4, <2>1, <3>1, EndTells
    <3> HIDE DEF f, us, rest
    <3>5. CASE verdict' = "ok"
      BY <2>1, <2>2, <3>2, <3>3, <3>4, <3>5, WriteEventHeard
    <3>6. CASE verdict' # "ok"
      <4>1. input' = input /\ ~Usable'
        BY <3>2, <3>6 DEF WriteEvent, Broken, Done, Usable
      <4> QED
        BY <2>2, <4>1, NotCarriedOut
    <3> QED
      BY <3>5, <3>6
  <2> QED
    BY <2>3, <2>4
<1>11. CASE WriteValue
  <2> DEFINE v == request.arg
             f == R!Event("value", <<v>>)
             us == ValueElement(v)
             key == ~expecting_key /\ KeyAfterValue
  <2>1. request.kind = "value" /\ taken' = taken
    BY <1>11 DEF WriteValue
  <2>2. /\ Usable /\ request \in Calls /\ taken = "none" /\ v \in Values \ Uids
        /\ request = [kind |-> "value", arg |-> v] /\ TakenAlone'
    BY <1>2, <1>3, <2>1 DEF TakenAlone
  <2>3. CASE expecting_key /\ v \notin Strings
    <3>1. input' = input /\ ~Usable'
      BY <1>11, <2>3 DEF WriteValue, Refused, Done, Usable
    <3> QED
      BY <2>2, <3>1, NotCarriedOut
  <2>4. CASE ~(expecting_key /\ v \notin Strings)
    <3>1. WriteEvent(request, us, stack, stack, key, NoCall)
      BY <1>11, <2>4 DEF WriteValue
    <3>2. AsCall(f) = request /\ f \in EventSet
      BY <1>4, <2>2, CallsOfEvents
    <3>3. Tells(us, stack, stack, f) /\ Turns(us, stack, stack)
      BY <2>2, ValueTells, ElementsAreSilent, SilentTurns
    <3> HIDE DEF f, us, v, key
    <3>4. CASE verdict' = "ok"
      BY <1>1, <2>1, <2>2, <3>1, <3>2, <3>3, <3>4, WriteEventHeard
    <3>5. CASE verdict' # "ok"
      <4>1. input' = input /\ ~Usable'
        BY <3>1, <3>5 DEF WriteEvent, Broken, Done, Usable
      <4> QED
        BY <2>2, <4>1, NotCarriedOut
    <3> QED
      BY <3>4, <3>5
  <2> QED
    BY <2>3, <2>4
<1>12. CASE Rest \/ UNCHANGED vars
  <2>1. UNCHANGED vars
    BY <1>12 DEF Rest
  <2>2. /\ UNCHANGED <<write_root_element, state, taken>> /\ verdict' = verdict
        /\ pending_collection' = pending_collection /\ input' = input
    BY <2>1 DEF vars
  <2>3. TakenAlone' /\ (Usable' <=> Usable)
    BY <1>1, <2>2 DEF TakenAlone, Usable
  <2> QED
    BY <2>2, <2>3, NotCarriedOut
<1> QED
  BY <1>5, <1>6, <1>7, <1>8, <1>9, <1>10, <1>11, <1>12 DEF Next, Perform

(***************************************************************************)
(* The reader, token by token, does what Hear says.                        *)
(***************************************************************************)
Begins(s, t) == Len(s) <= Len(t) /\ \A i \in 1..Len(s) : s[i] = t[i]
Grows(m, n) == n.ok => m.ok /\ Begins(m.events, n.events)

(* Events are only added, and what is lost stays lost. *)
LEMMA HearGrows ==
  ASSUME NEW m \in Heard, NEW t \in Tokens
  PROVE  Grows(m, Hear(m, t))
<1>1. m.events \in Seq(EventSet) /\ Hear(m, t).events \in Seq(EventSet)
  BY HearType DEF Heard
<1>2. \/ Hear(m, t).events = m.events
      \/ \E e \in EventSet : Hear(m, t).events = Append(m.events, e)
  <2>1. /\ \A o, es : At(o, es).events = es
        /\ \A o, n, c, es : Inside(o, n, c, es).events = es
    BY DEF At, Inside
  <2>2. Lost(m).events = m.events /\ \A c : [m EXCEPT !.content = c].events = m.events
    BY DEF Lost, Heard
  <2>3. /\ \A ty \in Collections \cup {"end"} : R!Event(ty, <<>>) \in EventSet
        /\ \A v \in Values : R!Event("value", <<v>>) \in EventSet
    BY EventForms
  <2>4. \/ HearTop(m, t).events = m.events
        \/ \E e \in EventSet : HearTop(m, t).events = Append(m.events, e)
    <3>1. CASE t.kind = "start" /\ t.name = "plist"
      BY <2>1, <3>1 DEF HearTop
    <3>2. CASE t.kind = "start" /\ t.name # "plist" /\ t.name \in Collections
      <4>1. HearTop(m, t) = At(Append(m.opened, t.name),
                               Append(m.events, R!Event(t.name, <<>>)))
        BY <3>2 DEF HearTop
      <4> HIDE DEF EventSet
      <4> QED
        <5>1. R!Event(t.name, <<>>) \in EventSet
          BY <2>3, <3>2
        <5>2. HearTop(m, t).events = Append(m.events, R!Event(t.name, <<>>))
          BY <2>1, <4>1
        <5> QED
          BY <5>1, <5>2
    <3>3. CASE t.kind = "start" /\ t.name # "plist" /\ t.name \notin Collections
               /\ t.name \in Booleans
      <4>1. HearTop(m, t) = At(Append(m.opened, t.name),
                               Append(m.events, R!Event("value", <<t.name>>)))
        BY <3>3 DEF HearTop
      <4>2. t.name \in Values
        BY <3>3 DEF Values
      <4>3. R!Event("value", <<t.name>>) \in EventSet
        BY <2>3, <4>2
      <4>4. HearTop(m, t).events = Append(m.events, R!Event("value", <<t.name>>))
        BY <2>1, <4>1
      <4> HIDE DEF EventSet
      <4> QED
        BY <4>3, <4>4
    <3>4. CASE t.kind = "start" /\ t.name # "plist" /\ t.name \notin Collections
               /\ t.name \notin Booleans
      <4>1. ~Closes(m, t)
        BY <3>4 DEF Closes
      <4>2. CASE t.name \in ValueElements
        <5>1. HearTop(m, t) = Inside(Append(m.opened, t.name), t.name, <<>>, m.events)
          BY <3>4, <4>2 DEF HearTop
        <5>2. HearTop(m, t).events = m.events
          BY <2>1, <5>1
        <5> QED
          BY <5>2
      <4>3. CASE t.name \notin ValueElements
        <5>1. HearTop(m, t) = Lost(m)
          BY <3>4, <4>1, <4>3 DEF HearTop
        <5> QED
          BY <2>2, <5>1
      <4> QED
        BY <4>2, <4>3
    <3>5. CASE t.kind # "start"
      <4>1. CASE t.kind # "decl" /\ Closes(m, t) /\ t.name \in Collections
        <5>1. HearTop(m, t) = At(Front(m.opened), Append(m.events, R!Event("end", <<>>)))
          BY <3>5, <4>1 DEF HearTop
        <5>2. R!Event("end", <<>>) \in EventSet
          BY <2>3
        <5>3. HearTop(m, t).events = Append(m.events, R!Event("end", <<>>))
          BY <2>1, <5>1
        <5> HIDE DEF EventSet
        <5> QED
          BY <5>2, <5>3
      <4>2. CASE ~(t.kind # "decl" /\ Closes(m, t) /\ t.name \in Collections)
        BY <2>1, <2>2, <3>5, <4>2 DEF HearTop
      <4> QED
        BY <4>1, <4>2
    <3> QED
      BY <3>1, <3>2, <3>3, <3>4, <3>5
  <2>5. \/ HearWithin(m, t).events = m.events
        \/ \E e \in EventSet : HearWithin(m, t).events = Append(m.events, e)
    <3>1. CASE t.kind # "text" /\ Closes(m, t) /\ Readable(m.element, m.content)
      <4> DEFINE v == ValueOf(m.element, m.content)
      <4>1. HearWithin(m, t) = At(Front(m.opened), Append(m.events, R!Event("value", <<v>>)))
        BY <3>1 DEF HearWithin
      <4>2. v \in Values
        BY <3>1 DEF Readable
      <4> HIDE DEF v
      <4>3. R!Event("value", <<v>>) \in EventSet
        BY <2>3, <4>2
      <4>4. HearWithin(m, t).events = Append(m.events, R!Event("value", <<v>>))
        BY <2>1, <4>1
      <4> HIDE DEF EventSet
      <4> QED
        BY <4>3, <4>4
    <3>2. CASE ~(t.kind # "text" /\ Closes(m, t) /\ Readable(m.element, m.content))
      BY <2>2, <3>2 DEF HearWithin
    <3> QED
      BY <3>1, <3>2
  <2> QED
    BY <2>4, <2>5 DEF Hear
<1>3. Begins(m.events, Hear(m, t).events)
  <2> DEFINE es == m.events
             fs == Hear(m, t).events
  <2>1. es \in Seq(EventSet) /\ (fs = es \/ \E e \in EventSet : fs = Append(es, e))
    BY <1>1, <1>2
  <2> HIDE DEF es, fs, EventSet
  <2>2. fs = es => Begins(es, fs)
    <3>1. Len(es) \in Nat
      BY <2>1, LenProperties
    <3> QED
      BY <3>1 DEF Begins
  <2>3. ASSUME \E e \in EventSet : fs = Append(es, e)
        PROVE  Begins(es, fs)
    <3>1. PICK e \in EventSet : fs = Append(es, e)
      BY <2>3
    <3>2. /\ Len(fs) = Len(es) + 1 /\ Len(es) \in Nat
          /\ \A i \in 1..Len(es) : fs[i] = es[i]
      BY <2>1, <3>1, AppendFacts
    <3> QED
      BY <3>2 DEF Begins
  <2> QED
    BY <2>1, <2>2, <2>3 DEF es, fs
<1>4. ~m.ok => ~Hear(m, t).ok
  BY DEF Hear
<1> QED
  BY <1>3, <1>4 DEF Grows

LEMMA GrowsOn ==
  ASSUME NEW m \in Heard, NEW n \in Heard, NEW o \in Heard, Grows(m, n), Grows(n, o)
  PROVE  Grows(m, o)
<1> SUFFICES ASSUME o.ok
             PROVE  m.ok /\ Begins(m.events, o.events)
  BY DEF Grows
<1>1. n.ok /\ m.ok /\ Begins(m.events, n.events) /\ Begins(n.events, o.events)
  BY DEF Grows
<1>2. m.events \in Seq(EventSet) /\ n.events \in Seq(EventSet) /\ o.events \in Seq(EventSet)
  BY DEF Heard
<1> DEFINE r == m.events
           s == n.events
           t == o.events
<1>3. Len(r) \in Nat /\ Len(s) \in Nat /\ Len(t) \in Nat
  BY <1>2, LenProperties
<1>4. /\ Len(r) <= Len(s) /\ \A i \in 1..Len(r) : r[i] = s[i]
      /\ Len(s) <= Len(t) /\ \A i \in 1..Len(s) : s[i] = t[i]
  BY <1>1 DEF Begins
<1> HIDE DEF r, s, t
<1>5. Len(r) <= Len(t)
  BY <1>3, <1>4
<1>6. ASSUME NEW i \in 1..Len(r)
      PROVE  r[i] = t[i]
  <2>1. i \in 1..Len(s)
    BY <1>3, <1>4
  <2> QED
    BY <1>4, <2>1
<1>7. Begins(r, t)
  BY <1>5, <1>6 DEF Begins
<1> QED
  BY <1>1, <1>7 DEF r, t

(* What has been read at any time is the beginning of what will have been. *)
LEMMA HearingGrows ==
  ASSUME NEW ts \in Seq(Tokens), NEW k \in 0..Len(ts)
  PROVE  Grows(Hearing(ts)[k], Reads(ts))
<1> DEFINE n == Len(ts)
           run == Hearing(ts)
           T == {i \in 0..n : Grows(run[n - i], run[n])}
<1>1. n \in Nat /\ \A i \in 1..n : ts[i] \in Tokens
  BY LenProperties, ElementOfSeq
<1>2. /\ \A i \in 1..n : run[i] = Hear(run[i - 1], ts[i])
      /\ \A i \in 0..n : run[i] \in Heard
  BY HearingFollows
<1> HIDE DEF run, n, Tokens, Heard
<1>3. 0 \in T
  <2>1. run[n] \in Heard /\ n - 0 = n
    BY <1>1, <1>2
  <2>2. run[n].events \in Seq(EventSet)
    BY <2>1 DEF Heard
  <2>3. Len(run[n].events) \in Nat
    BY <2>2, LenProperties
  <2>4. Grows(run[n], run[n])
    BY <2>3 DEF Grows, Begins
  <2> QED
    BY <1>1, <2>1, <2>4
<1>4. ASSUME NEW i \in 1..n, i - 1 \in T
      PROVE  i \in T
  <2> DEFINE j == n - i
  <2>1. j \in 0..n /\ j + 1 \in 1..n /\ j + 1 \in 0..n /\ (j + 1) - 1 = j
        /\ n - (i - 1) = j + 1 /\ n \in 0..n /\ i \in 0..n
    BY <1>1
  <2>2. run[j + 1] = Hear(run[j], ts[j + 1]) /\ run[j] \in Heard /\ run[j + 1] \in Heard
        /\ run[n] \in Heard
    BY <1>2, <2>1
  <2>3. Grows(run[j], run[j + 1])
    BY <1>1, <2>1, <2>2, HearGrows
  <2>4. Grows(run[j + 1], run[n])
    BY <1>4, <2>1
  <2>5. Grows(run[j], run[n])
    BY <2>2, <2>3, <2>4, GrowsOn
  <2> QED
    BY <2>1, <2>5
<1> HIDE DEF T
<1>5. 0..n \subseteq T
  BY <1>1, <1>3, <1>4, BoundedInduction
<1>6. n - k \in 0..n /\ n - (n - k) = k
  BY <1>1 DEF n
<1>7. Grows(run[k], run[n])
  BY <1>5, <1>6 DEF T
<1> QED
  BY <1>7 DEF run, n, Reads

(* Data is indented: white space, the text, white space. *)
LEMMA DataStripped ==
  ASSUME NEW v, v # "space"
  PROVE  R!WithoutSpace(<<"space", v, "space">>) = <<v>>
<1> DEFINE c == <<"space", v, "space">>
           Counts(f) == f = [i \in 0..Len(c) |->
                               IF i = 0 THEN <<>>
                               ELSE IF c[i] = "space" THEN f[i - 1] ELSE Append(f[i - 1], c[i])]
           kept == CHOOSE f : Counts(f)
           g == [i \in 0..3 |-> IF i \in {0, 1} THEN <<>> ELSE <<v>>]
<1>1. Len(c) = 3 /\ c[1] = "space" /\ c[2] = v /\ c[3] = "space"
  OBVIOUS
<1>2. g[0] = <<>> /\ g[1] = <<>> /\ g[2] = <<v>> /\ g[3] = <<v>>
  OBVIOUS
<1>3. Append(<<>>, v) = <<v>>
  OBVIOUS
<1>4. R!WithoutSpace(c) = kept[Len(c)]
  BY DEF R!WithoutSpace, kept, Counts, c
<1>5. g = [i \in 0..3 |-> g[i]]
  OBVIOUS
<1> HIDE DEF c, g
<1>6. Counts(g)
  <2> DEFINE f == [i \in 0..3 |->
                     IF i = 0 THEN <<>>
                     ELSE IF c[i] = "space" THEN g[i - 1] ELSE Append(g[i - 1], c[i])]
  <2>1. f[0] = <<>> /\ f[1] = g[0] /\ f[2] = Append(g[1], v) /\ f[3] = g[2]
    BY <1>1
  <2>2. \A i \in 0..3 : i = 0 \/ i = 1 \/ i = 2 \/ i = 3
    OBVIOUS
  <2>3. f = [i \in 0..3 |-> f[i]]
    OBVIOUS
  <2> HIDE DEF f
  <2>4. f[0] = g[0] /\ f[1] = g[1] /\ f[2] = g[2] /\ f[3] = g[3]
    BY <1>2, <1>3, <2>1
  <2>5. \A i \in 0..3 : f[i] = g[i]
    BY <2>2, <2>4
  <2>6. f = g
    BY <1>5, <2>3, <2>5
  <2> QED
    BY <1>1, <2>6 DEF f
<1>7. Counts(kept)
  <2> HIDE DEF Counts
  <2> QED
    BY <1>6
<1> HIDE DEF kept
<1>8. /\ kept[0] = <<>> /\ kept[1] = kept[0]
      /\ kept[2] = Append(kept[1], v) /\ kept[3] = kept[2]
  BY <1>1, <1>7
<1>9. kept[3] = <<v>>
  BY <1>3, <1>8
<1> QED
  BY <1>1, <1>4, <1>9 DEF c

(* What the reader has made of what it has read. *)
ReaderAt ==
  [opened |-> rOpened, element |-> rElement, content |-> rContent, events |-> rEvents,
   ok |-> TRUE]

(* The reader takes the token t as Hear does. *)
TakesUp(t) ==
  /\ ReaderAt' = Hear(ReaderAt, t)
  /\ rAt' = rAt + 1
  /\ ~rFinished' /\ rReturned' # "error"
  /\ rElement' = "none" => rContent' = <<>>

LEMMA ReaderFields ==
  /\ ReaderAt.opened = rOpened /\ ReaderAt.element = rElement /\ ReaderAt.content = rContent
  /\ ReaderAt.events = rEvents /\ ReaderAt.ok = TRUE
  /\ ReaderAt = [opened |-> rOpened, element |-> rElement, content |-> rContent,
                 events |-> rEvents, ok |-> TRUE]
  /\ Lost(ReaderAt).ok = FALSE
  BY DEF ReaderAt, Lost

(* A token that the writer writes is no error of the parser's. *)
LEMMA NoReadError ==
  ASSUME NEW t \in Tokens, R!Peek = t, Hear(ReaderAt, t).ok
  PROVE  /\ ~R!ReadError
         /\ t.kind = "end" => Closes(ReaderAt, t)
<1>1. t.kind \in {"start", "end", "text", "decl"}
  BY DEF Tokens
<1>2. ASSUME t.kind = "end"
      PROVE  Closes(ReaderAt, t)
  <2> SUFFICES ASSUME ~Closes(ReaderAt, t)
               PROVE  FALSE
    OBVIOUS
  <2>1. HearTop(ReaderAt, t) = Lost(ReaderAt) /\ HearWithin(ReaderAt, t) = Lost(ReaderAt)
    BY <1>2 DEF HearTop, HearWithin
  <2>2. Hear(ReaderAt, t) = Lost(ReaderAt)
    BY <2>1, ReaderFields DEF Hear
  <2> QED
    BY <2>2, ReaderFields
<1>3. ~R!Mismatched(t)
  <2>1. t.kind = "end" => rOpened # <<>> /\ R!Last(rOpened) = t.name
    BY <1>2, ReaderFields, SameStack DEF Closes
  <2> QED
    BY <2>1 DEF R!Mismatched
<1>4. ~R!ReadError
  BY <1>1, <1>3 DEF R!ReadError, R!Erroneous
<1> QED
  BY <1>2, <1>4

(* Between elements, and at the tags. *)
LEMMA TopTakesUp ==
  ASSUME BooleansAssumption, NEW t \in Tokens, R!Peek = t, Hear(ReaderAt, t).ok,
         rElement = "none", rContent = <<>>, ~rFinished, rReturned # "error", R!Read
  PROVE  TakesUp(t)
<1> DEFINE m == ReaderAt
           n == t.name
<1>1. /\ m.opened = rOpened /\ m.element = "none" /\ m.events = rEvents /\ m.content = <<>>
      /\ m.ok = TRUE /\ Lost(m).ok = FALSE
  BY ReaderFields
<1>2. Hear(m, t) = HearTop(m, t)
  BY <1>1 DEF Hear
<1>3. HearTop(m, t) # Lost(m)
  BY <1>1, <1>2
<1>4. ~R!ReadError /\ (t.kind = "end" => Closes(m, t))
  BY NoReadError
<1>5. t.kind \in {"start", "end", "text", "decl"}
  BY DEF Tokens
<1>6. t.kind # "text"
  BY <1>3 DEF HearTop, Closes
<1>7. ReaderAt' = [opened |-> rOpened', element |-> rElement', content |-> rContent',
                   events |-> rEvents', ok |-> TRUE]
  BY DEF ReaderAt
<1>8. ASSUME NEW kinds, R!AtTop(kinds), "eof" \notin kinds
      PROVE  /\ t.kind \in kinds /\ rAt' = rAt + 1
             /\ t.kind = "start" => rOpened' = Append(rOpened, n)
             /\ t.kind = "end" => rOpened' = Front(rOpened)
             /\ t.kind = "decl" => rOpened' = rOpened
  <2>1. R!Advance(t) /\ ~R!Mismatched(t) /\ t.kind \in kinds
    BY <1>8 DEF R!AtTop
  <2>2. rAt' = rAt + 1
    BY <1>8, <2>1 DEF R!Advance
  <2> QED
    BY <2>1, <2>2, ParserSteps
<1> HIDE DEF m, n
<1>9. ASSUME R!Skip
      PROVE  /\ ~rFinished' /\ rReturned' # "error"
             /\ rElement' = "none" /\ rContent' = <<>> /\ rEvents' = rEvents
  BY <1>9 DEF R!Skip
<1>10. ASSUME NEW e, R!Deliver(e)
       PROVE  /\ ~rFinished' /\ rReturned' # "error"
              /\ rElement' = "none" /\ rContent' = <<>> /\ rEvents' = Append(rEvents, e)
  BY <1>10 DEF R!Deliver
<1>11. CASE R!Declaration
  <2>1. t.kind = "decl" /\ rAt' = rAt + 1 /\ rOpened' = rOpened
    BY <1>8, <1>11 DEF R!Declaration
  <2>2. /\ ~rFinished' /\ rReturned' # "error"
        /\ rElement' = rElement /\ rContent' = rContent /\ rEvents' = rEvents
    BY <1>11 DEF R!Declaration
  <2>3. HearTop(m, t) = m
    BY <2>1 DEF HearTop
  <2>4. ReaderAt' = m
    BY <1>7, <2>1, <2>2 DEF m, ReaderAt
  <2> QED
    BY <1>2, <2>1, <2>2, <2>3, <2>4 DEF TakesUp, m
<1>12. CASE R!EndElement
  <2>1. t.kind = "end" /\ rAt' = rAt + 1 /\ rOpened' = Front(rOpened)
    BY <1>8, <1>12 DEF R!EndElement
  <2>2. HearTop(m, t) = At(Front(rOpened), IF n \in Collections
                                           THEN Append(rEvents, R!Event("end", <<>>))
                                           ELSE rEvents)
    BY <1>1, <1>4, <2>1 DEF HearTop, n
  <2>3. /\ ~rFinished' /\ rReturned' # "error"
        /\ rElement' = "none" /\ rContent' = <<>>
        /\ rEvents' = IF n \in Collections THEN Append(rEvents, R!Event("end", <<>>))
                                           ELSE rEvents
    <3>1. CASE n \in Collections
      <4>1. R!Deliver(R!Event("end", <<>>))
        BY <1>12, <3>1 DEF R!EndElement, Collections, n
      <4> QED
        BY <1>10, <3>1, <4>1
    <3>2. CASE n \notin Collections
      <4>1. R!Skip
        BY <1>12, <3>2 DEF R!EndElement, Collections, n
      <4> QED
        BY <1>9, <3>2, <4>1
    <3> QED
      BY <3>1, <3>2
  <2>4. ReaderAt' = HearTop(m, t)
    BY <1>7, <2>1, <2>2, <2>3 DEF At
  <2> QED
    BY <1>2, <2>1, <2>3, <2>4 DEF TakesUp, m
<1>13. CASE R!StartElement
  <2>1. t.kind = "start" /\ rAt' = rAt + 1 /\ rOpened' = Append(rOpened, n)
    BY <1>8, <1>13 DEF R!StartElement
  <2>2. CASE n = "plist"
    <3>1. R!Skip
      BY <1>13, <2>2 DEF R!StartElement, n
    <3>2. HearTop(m, t) = At(Append(rOpened, n), rEvents)
      BY <1>1, <2>1, <2>2 DEF HearTop, n
    <3>3. ReaderAt' = HearTop(m, t)
      BY <1>7, <1>9, <2>1, <3>1, <3>2 DEF At
    <3> QED
      BY <1>2, <1>9, <2>1, <3>1, <3>3 DEF TakesUp, m
  <2>3. CASE n \in Collections
    <3>1. n # "plist"
      BY <2>3 DEF Collections
    <3>2. R!Deliver(R!Event(n, <<>>))
      BY <1>13, <2>3 DEF R!StartElement, n, Collections
    <3>3. HearTop(m, t) = At(Append(rOpened, n), Append(rEvents, R!Event(n, <<>>)))
      BY <1>1, <2>1, <2>3, <3>1 DEF HearTop, n
    <3>4. ReaderAt' = HearTop(m, t)
      BY <1>7, <1>10, <2>1, <3>2, <3>3 DEF At
    <3> QED
      BY <1>2, <1>10, <2>1, <3>2, <3>4 DEF TakesUp, m
  <2>4. CASE n \in Booleans
    <3>1. n \notin {"plist", "array", "dict"} /\ n \notin Collections
      BY <2>4 DEF BooleansAssumption, Collections
    <3>2. R!Deliver(R!Event("value", <<n>>))
      BY <1>13, <2>4, <3>1 DEF R!StartElement, n
    <3>3. HearTop(m, t) = At(Append(rOpened, n), Append(rEvents, R!Event("value", <<n>>)))
      BY <1>1, <2>1, <2>4, <3>1 DEF HearTop, n
    <3>4. ReaderAt' = HearTop(m, t)
      BY <1>7, <1>10, <2>1, <3>2, <3>3 DEF At
    <3> QED
      BY <1>2, <1>10, <2>1, <3>2, <3>4 DEF TakesUp, m
  <2>5. CASE n \in ValueElements
    <3>1. n \notin Booleans /\ n \notin Collections /\ n # "plist" /\ n # "none"
      BY <2>5 DEF BooleansAssumption, Collections, ValueElements
    <3>2. /\ rElement' = n /\ rContent' = rContent /\ rEvents' = rEvents
          /\ rFinished' = rFinished /\ rReturned' = "reading"
      BY <1>13, <2>5, <3>1 DEF R!StartElement, n, ValueElements
    <3>3. HearTop(m, t) = Inside(Append(rOpened, n), n, <<>>, rEvents)
      BY <1>1, <2>1, <2>5, <3>1 DEF HearTop, n
    <3>4. ReaderAt' = HearTop(m, t)
      BY <1>7, <2>1, <3>2, <3>3 DEF Inside
    <3> QED
      BY <1>2, <2>1, <3>1, <3>2, <3>4 DEF TakesUp, m
  <2>6. n = "plist" \/ n \in Collections \cup Booleans \cup ValueElements
    BY <1>3, <2>1 DEF HearTop, Closes, n
  <2> QED
    BY <2>2, <2>3, <2>4, <2>5, <2>6
<1>14. ~(R!TextBetween \/ R!OtherBetween \/ R!EndOfDocument)
  BY <1>5, <1>6 DEF R!TextBetween, R!OtherBetween, R!EndOfDocument, R!AtTop
<1>15. ~(R!ContentText \/ R!ContentOther \/ R!ContentBroken \/ R!EndOfContent)
  BY DEF R!ContentText, R!ContentOther, R!ContentBroken, R!EndOfContent, R!Within
<1> QED
  BY <1>4, <1>11, <1>12, <1>13, <1>14, <1>15 DEF R!Read

(* Within the element of a value. *)
LEMMA WithinTakesUp ==
  ASSUME DatasAssumption, NEW t \in Tokens, R!Peek = t, Hear(ReaderAt, t).ok,
         rElement \in ValueElements, ~rFinished, rReturned # "error", R!Read
  PROVE  TakesUp(t)
<1> DEFINE m == ReaderAt
           n == t.name
           v == ValueOf(rElement, rContent)
<1>1. /\ m.opened = rOpened /\ m.element = rElement /\ m.events = rEvents
      /\ m.content = rContent /\ m.ok = TRUE /\ Lost(m).ok = FALSE
      /\ rElement # "none"
  BY ReaderFields DEF ValueElements
<1>2. Hear(m, t) = HearWithin(m, t)
  BY <1>1 DEF Hear
<1>3. HearWithin(m, t) # Lost(m)
  BY <1>1, <1>2
<1>4. ~R!ReadError
  BY NoReadError
<1>5. t.kind = "text" \/ (t.kind = "end" /\ Closes(m, t) /\ Readable(rElement, rContent))
  BY <1>1, <1>3 DEF HearWithin, Closes
<1>6. ReaderAt' = [opened |-> rOpened', element |-> rElement', content |-> rContent',
                   events |-> rEvents', ok |-> TRUE]
  BY DEF ReaderAt
<1>7. ASSUME NEW kinds, R!Within(kinds), "eof" \notin kinds
      PROVE  /\ t.kind \in kinds /\ rAt' = rAt + 1
             /\ t.kind = "end" => rOpened' = Front(rOpened)
             /\ t.kind = "text" => rOpened' = rOpened
  <2>1. R!Advance(t) /\ ~R!Mismatched(t) /\ t.kind \in kinds
    BY <1>7 DEF R!Within
  <2>2. rAt' = rAt + 1
    BY <1>7, <2>1 DEF R!Advance
  <2> QED
    BY <2>1, <2>2, ParserSteps
<1>8. CASE R!ContentText
  <2>1. t.kind = "text" /\ rAt' = rAt + 1 /\ rOpened' = rOpened
    BY <1>7, <1>8 DEF R!ContentText
  <2>2. /\ rContent' = Append(rContent, n) /\ rElement' = rElement /\ rEvents' = rEvents
        /\ rFinished' = rFinished /\ rReturned' = rReturned
    BY <1>8 DEF R!ContentText
  <2>3. HearWithin(m, t) = [m EXCEPT !.content = Append(rContent, n)]
    BY <1>1, <2>1 DEF HearWithin
  <2>4. ReaderAt' = HearWithin(m, t)
    BY <1>6, <2>1, <2>2, <2>3 DEF ReaderAt
  <2> QED
    BY <1>1, <1>2, <2>1, <2>2, <2>4 DEF TakesUp
<1>9. CASE R!EndOfContent
  <2>1. /\ t.kind = "end" /\ rAt' = rAt + 1 /\ rOpened' = Front(rOpened)
        /\ Closes(m, t) /\ Readable(rElement, rContent)
    BY <1>5, <1>7, <1>9 DEF R!EndOfContent
  <2>2. /\ rElement = "data" => rContent = <<"space", v, "space">> /\ v \in Datas
        /\ rElement # "data" => rContent = <<v>>
        /\ rElement = "text" => v \in Texts
    BY <2>1 DEF Readable
  <2> HIDE DEF v
  <2>3. R!Stripped = <<v>>
    <3>1. CASE rElement = "data"
      <4>1. R!WithoutSpace(rContent) = <<v>>
        BY <2>2, <3>1, DataStripped DEF DatasAssumption
      <4> QED
        BY <3>1, <4>1 DEF R!Stripped
    <3>2. CASE rElement # "data"
      BY <2>2, <3>2 DEF R!Stripped
    <3> QED
      BY <3>1, <3>2
  <2>4. R!Valid
    <3>1. CASE rElement \in {"key", "string"}
      BY <3>1 DEF R!Valid
    <3>2. CASE rElement \in {"data", "text"}
      <4>1. v \in Datas \cup Texts
        BY <2>2, <3>2
      <4>2. Len(<<v>>) = 1 /\ <<v>>[1] = v /\ <<v>> # <<>>
        OBVIOUS
      <4>3. \A i \in 1..1 : i = 1
        OBVIOUS
      <4>4. \A i \in 1..Len(<<v>>) : <<v>>[i] \in Datas \cup Texts
        BY <4>1, <4>2, <4>3
      <4> QED
        BY <2>3, <4>2, <4>4 DEF R!Valid
    <3> QED
      BY <3>1, <3>2 DEF ValueElements
  <2>5. R!Deliver(R!Event("value", <<v>>))
    BY <1>9, <2>3, <2>4 DEF R!EndOfContent
  <2>6. /\ ~rFinished' /\ rReturned' # "error" /\ rElement' = "none" /\ rContent' = <<>>
        /\ rEvents' = Append(rEvents, R!Event("value", <<v>>))
    BY <2>5 DEF R!Deliver
  <2>7. HearWithin(m, t) = At(Front(rOpened), Append(rEvents, R!Event("value", <<v>>)))
    BY <1>1, <2>1 DEF HearWithin, v
  <2>8. ReaderAt' = HearWithin(m, t)
    BY <1>6, <2>1, <2>6, <2>7 DEF At
  <2> QED
    BY <1>2, <2>1, <2>6, <2>8 DEF TakesUp
<1>10. ~(R!ContentOther \/ R!ContentBroken)
  BY <1>5 DEF R!ContentOther, R!ContentBroken, R!Within
<1>11. ~(R!Declaration \/ R!StartElement \/ R!EndElement \/ R!TextBetween
           \/ R!OtherBetween \/ R!EndOfDocument)
  BY <1>1 DEF R!Declaration, R!StartElement, R!EndElement, R!TextBetween,
              R!OtherBetween, R!EndOfDocument, R!AtTop
<1> QED
  BY <1>4, <1>8, <1>9, <1>10, <1>11 DEF R!Read

(***************************************************************************)
(* The invariant of the whole.  Before the turn the reader is untouched;   *)
(* after it, what it has read of the output is what Hearing says of the    *)
(* tokens before rAt, and of all of them when it has finished.             *)
(***************************************************************************)
Untouched ==
  /\ rAt = 1 /\ rOpened = <<>> /\ rElement = "none" /\ rContent = <<>> /\ rEvents = <<>>
  /\ rFinished = FALSE /\ rReturned = "reading"

(* The document is read as the calls. *)
Settled ==
  /\ document \in Seq(Tokens)
  /\ \E open, es : Reads(document) = At(open, es) /\ es \in Seq(EventSet) /\ Answers(es, input)

Follows ==
  /\ rReturned # "error"
  /\ rFinished => rEvents = Reads(document).events
  /\ ~rFinished =>
       /\ rAt \in 1..(Len(document) + 1)
       /\ ReaderAt = Hearing(document)[rAt - 1]
       /\ rElement = "none" => rContent = <<>>

SInv ==
  /\ NInv /\ EInv
  /\ ~reading => Untouched
  /\ reading /\ document = output => Settled /\ Follows

(* A reader that has not read anything yet. *)
LEMMA UntouchedFollows == ASSUME Untouched, Settled PROVE Follows
<1>1. Len(document) \in Nat /\ Hearing(document)[0] = Silence
  BY LenProperties, HearingFollows DEF Settled
<1>2. ReaderAt = Silence
  BY DEF Untouched, ReaderAt, Silence, At
<1>3. rAt \in 1..(Len(document) + 1) /\ rAt - 1 = 0
  BY <1>1 DEF Untouched
<1> QED
  BY <1>1, <1>2, <1>3 DEF Untouched, Follows

LEMMA InitSInv == RoundTripInit => SInv
<1> SUFFICES ASSUME RoundTripInit
             PROVE  SInv
  OBVIOUS
<1>1. NInv /\ EInv
  BY InitNInv, InitEInv DEF RoundTripInit
<1>2. Untouched
  BY DEF RoundTripInit, Untouched
<1>3. ASSUME document = output
      PROVE  Settled
  <2> DEFINE e == <<>>
  <2>1. document = e /\ input = e
    BY <1>3 DEF RoundTripInit, Init
  <2>2. \A S : e \in Seq(S)
    BY EmptySeq
  <2>3. Reads(e) = At(e, e)
    BY SilenceHeard DEF Silence
  <2>4. Answers(e, e)
    BY DEF Answers
  <2> HIDE DEF e, Tokens, EventSet
  <2> QED
    BY <2>1, <2>2, <2>3, <2>4 DEF Settled
<1> QED
  BY <1>1, <1>2, <1>3, UntouchedFollows DEF SInv

(* The writer is done, and its output is what is read. *)
LEMMA TurnSettles == ASSUME NInv, EInv, Turn PROVE Settled'
<1>1. /\ Usable /\ request = NoCall /\ PlistsEnded <= 1
      /\ document' = output /\ input' = input
  BY DEF Turn, Usable, vars
<1>2. taken = "none"
  BY <1>1 DEF NInv, RequestTaken, NoCall
<1>3. PICK es : ReadAs(Root(PlistsEnded) \o stack, es) /\ Answers(Said(es), input)
  BY <1>1 DEF EInv, OutputHeard
<1>4. Said(es) = es /\ es \in Seq(EventSet) /\ output \in Seq(Tokens)
      /\ Reads(output) = At(Root(PlistsEnded) \o stack, es)
  BY <1>2, <1>3 DEF Said, ReadAs, NInv, OutputTypeOK
<1> HIDE DEF Tokens, EventSet
<1> QED
  BY <1>1, <1>3, <1>4 DEF Settled

(* The reader goes on. *)
LEMMA ReadFollows ==
  ASSUME BooleansAssumption, DatasAssumption, Settled, Follows, R!Read
  PROVE  Follows' /\ document' = document
<1> DEFINE n == Len(document)
           run == Hearing(document)
           m == ReaderAt
           t == R!Peek
<1>1. /\ document \in Seq(Tokens) /\ n \in Nat /\ \A k \in 1..n : document[k] \in Tokens
      /\ Reads(document) = run[n]
  BY LenProperties, ElementOfSeq DEF Settled, Reads
<1>2. document' = document /\ ~rFinished
  BY DEF R!Read, R!ReadError, R!Declaration, R!StartElement, R!EndElement, R!TextBetween,
         R!OtherBetween, R!EndOfDocument, R!ContentText, R!ContentOther, R!ContentBroken,
         R!EndOfContent, R!AtTop, R!Within, R!Advance
<1>3. /\ rReturned # "error" /\ rAt \in 1..(n + 1) /\ m = run[rAt - 1]
      /\ rElement = "none" => rContent = <<>>
  BY <1>2 DEF Follows
<1>4. PICK open, es : Reads(document) = At(open, es)
  BY DEF Settled
<1>5. Reads(document).ok = TRUE /\ Reads(document).element = "none"
  BY <1>4 DEF At
<1>6. /\ \A k \in 1..n : run[k] = Hear(run[k - 1], document[k])
      /\ \A k \in 0..n : run[k] \in Heard /\ Grows(run[k], Reads(document))
  BY <1>1, HearingFollows, HearingGrows
<1> HIDE DEF n, run, m, t
<1>7. CASE rAt = n + 1
  <2>1. t.kind = "eof"
    BY <1>1, <1>7 DEF R!Peek, R!EndOfFile, t, n
  <2>2. m = Reads(document)
    BY <1>1, <1>3, <1>7
  <2>3. rElement = "none" /\ rEvents = Reads(document).events
    BY <1>5, <2>2, ReaderFields DEF m
  <2>4. R!EndOfDocument
    <3>1. ~R!ReadError
      BY <2>1 DEF R!ReadError, R!Erroneous, R!Mismatched, t
    <3>2. ~(R!Declaration \/ R!StartElement \/ R!EndElement \/ R!TextBetween
              \/ R!OtherBetween)
      BY <2>1 DEF R!Declaration, R!StartElement, R!EndElement, R!TextBetween,
                  R!OtherBetween, R!AtTop, t
    <3>3. ~(R!ContentText \/ R!ContentOther \/ R!ContentBroken \/ R!EndOfContent)
      BY <2>3 DEF R!ContentText, R!ContentOther, R!ContentBroken, R!EndOfContent, R!Within
    <3> QED
      BY <3>1, <3>2, <3>3 DEF R!Read
  <2>5. rFinished' = TRUE /\ rReturned' = "none" /\ rEvents' = rEvents
    BY <2>4 DEF R!EndOfDocument
  <2> QED
    BY <1>2, <2>3, <2>5 DEF Follows
<1>8. CASE rAt # n + 1
  <2>1. rAt \in 1..n /\ rAt - 1 \in 0..n /\ rAt \in 0..n
    BY <1>1, <1>3, <1>8
  <2>2. t = document[rAt] /\ t \in Tokens
    <3>1. ~(rAt > n)
      BY <1>1, <2>1
    <3> QED
      BY <1>1, <2>1, <3>1 DEF R!Peek, t, n
  <2>3. run[rAt] = Hear(m, t) /\ m \in Heard
    BY <1>3, <1>6, <2>1, <2>2
  <2>4. Hear(m, t).ok
    BY <1>5, <1>6, <2>1, <2>3 DEF Grows
  <2>5. rElement \in ValueElements \cup {"none"}
    BY <2>3, ReaderFields DEF Heard, m
  <2>6. TakesUp(t)
    <3>1. R!Peek = t
      BY DEF t
    <3>2. CASE rElement = "none"
      BY <1>2, <1>3, <2>2, <2>4, <3>1, <3>2, TopTakesUp DEF m
    <3>3. CASE rElement \in ValueElements
      BY <1>2, <1>3, <2>2, <2>4, <3>1, <3>3, WithinTakesUp DEF m
    <3> QED
      BY <2>5, <3>2, <3>3
  <2>7. /\ ReaderAt' = run[rAt] /\ rAt' = rAt + 1
        /\ ~rFinished' /\ rReturned' # "error"
        /\ rElement' = "none" => rContent' = <<>>
    BY <2>3, <2>6 DEF TakesUp, m
  <2>8. rAt' \in 1..(n + 1) /\ rAt' - 1 = rAt
    BY <1>1, <2>1, <2>7
  <2> QED
    BY <1>2, <2>7, <2>8 DEF Follows, n, run
<1> QED
  BY <1>2, <1>7, <1>8

(* Every step keeps the invariant. *)
LEMMA NextSInv ==
  BooleansAssumption /\ DatasAssumption /\ SInv /\ [RoundTripNext]_allVars => SInv'
<1> SUFFICES ASSUME BooleansAssumption, DatasAssumption, SInv, [RoundTripNext]_allVars
             PROVE  SInv'
  OBVIOUS
<1>1. NInv /\ EInv
  BY DEF SInv
<1>2. [Next]_vars
  BY DEF RoundTripNext, Write, Turn, Read, ReadFinished, allVars
<1>3. NInv' /\ EInv'
  BY <1>1, <1>2, NextNInv, NextEInv
<1>4. ASSUME UNCHANGED reader
      PROVE  Untouched' <=> Untouched
  BY <1>4 DEF reader, Untouched
<1>5. CASE Write
  <2>1. ~reading /\ ~reading' /\ UNCHANGED reader
    BY <1>5 DEF Write
  <2> QED
    BY <1>3, <1>4, <2>1 DEF SInv
<1>6. CASE Turn
  <2>1. ~reading /\ reading' /\ UNCHANGED reader
    BY <1>6 DEF Turn
  <2>2. Untouched'
    BY <1>4, <2>1 DEF SInv
  <2>3. Settled'
    BY <1>1, <1>6, TurnSettles
  <2>4. Follows'
    <3>1. Len(document') \in Nat /\ Hearing(document')[0] = Silence
      BY <2>3, LenProperties, HearingFollows DEF Settled
    <3>2. ReaderAt' = Silence
      BY <2>2 DEF Untouched, ReaderAt, Silence, At
    <3>3. rAt' \in 1..(Len(document') + 1) /\ rAt' - 1 = 0
      BY <2>2, <3>1 DEF Untouched
    <3> QED
      BY <2>2, <3>1, <3>2, <3>3 DEF Untouched, Follows
  <2> QED
    BY <1>3, <2>1, <2>3, <2>4 DEF SInv
<1>7. CASE Read
  <2>1. /\ reading /\ reading' /\ output' = output /\ input' = input /\ R!Read
    BY <1>7 DEF Read, vars, state
  <2>2. document' = document
    BY <2>1 DEF R!Read, R!ReadError, R!Declaration, R!StartElement, R!EndElement,
                R!TextBetween, R!OtherBetween, R!EndOfDocument, R!ContentText,
                R!ContentOther, R!ContentBroken, R!EndOfContent, R!AtTop, R!Within,
                R!Advance
  <2>3. ASSUME document = output
        PROVE  Settled' /\ Follows'
    <3>1. Settled /\ Follows
      BY <2>1, <2>3 DEF SInv
    <3>2. Settled'
      BY <2>1, <2>2, <3>1 DEF Settled
    <3> QED
      BY <2>1, <3>1, <3>2, ReadFollows
  <2> QED
    BY <1>3, <2>1, <2>2, <2>3 DEF SInv
<1>8. CASE ReadFinished \/ UNCHANGED allVars
  <2>1. /\ reading' = reading /\ output' = output /\ input' = input /\ document' = document
        /\ UNCHANGED <<rAt, rOpened, rFinished, rElement, rContent, rEvents>>
        /\ \/ rReturned' = rReturned
           \/ rReturned' = "none" /\ rFinished
    BY <1>8 DEF ReadFinished, R!Finished, R!parser, allVars, vars, state, reader
  <2>2. ~reading => Untouched'
    BY <2>1 DEF SInv, Untouched
  <2>3. ASSUME reading, document = output
        PROVE  Settled' /\ Follows'
    <3>1. Settled /\ Follows
      BY <2>3 DEF SInv
    <3>2. ReaderAt' = ReaderAt
      BY <2>1 DEF ReaderAt
    <3> QED
      BY <2>1, <3>1, <3>2 DEF Settled, Follows
  <2> QED
    BY <1>3, <2>1, <2>2, <2>3 DEF SInv
<1> QED
  BY <1>5, <1>6, <1>7, <1>8 DEF RoundTripNext

(* What XmlReader delivers of a document that XmlWriter has written are the *)
(* events that were written, in their order, all of them when it ends, and  *)
(* it never fails: for all values, however many calls are made, with or     *)
(* without the root element and whatever collections are empty.             *)
THEOREM ReadsBackWritten == RoundTripSpec => []XmlReadsBack
<1>1. SInv => XmlReadsBack
  <2> SUFFICES ASSUME SInv, reading, document = output
               PROVE  /\ rReturned # "error"
                      /\ Len(rEvents) <= Len(input)
                      /\ \A i \in 1..Len(rEvents) : AsCall(rEvents[i]) = input[i]
                      /\ rFinished => Len(rEvents) = Len(input)
    BY DEF XmlReadsBack
  <2>1. Settled /\ Follows
    BY DEF SInv
  <2> DEFINE all == Reads(document).events
  <2>2. PICK open, es : /\ Reads(document) = At(open, es) /\ es \in Seq(EventSet)
                        /\ Answers(es, input)
    BY <2>1 DEF Settled
  <2>3. all = es /\ Reads(document).ok = TRUE
    BY <2>2 DEF At
  <2>4. Len(all) \in Nat /\ Len(all) = Len(input)
        /\ \A i \in 1..Len(all) : AsCall(all[i]) = input[i]
    BY <2>2, <2>3, LenProperties DEF Answers
  <2>5. Begins(rEvents, all) /\ (rFinished => rEvents = all)
    <3>1. CASE rFinished
      BY <2>1, <2>4, <3>1 DEF Follows, Begins
    <3>2. CASE ~rFinished
      <4>1. /\ rAt \in 1..(Len(document) + 1) /\ document \in Seq(Tokens)
            /\ ReaderAt = Hearing(document)[rAt - 1]
        BY <2>1, <3>2 DEF Settled, Follows
      <4>2. rAt - 1 \in 0..Len(document)
        BY <4>1, LenProperties
      <4>3. Grows(ReaderAt, Reads(document))
        BY <4>1, <4>2, HearingGrows
      <4> QED
        BY <2>3, <3>2, <4>3, ReaderFields DEF Grows
    <3> QED
      BY <3>1, <3>2
  <2> HIDE DEF all
  <2>6. ASSUME NEW i \in 1..Len(rEvents)
        PROVE  AsCall(rEvents[i]) = input[i]
    <3>1. rEvents[i] = all[i] /\ Len(rEvents) <= Len(all)
      BY <2>5 DEF Begins
    <3>2. i \in 1..Len(all)
      <4>1. i \in Int /\ 1 <= i /\ i <= Len(rEvents)
        OBVIOUS
      <4> QED
        BY <2>4, <2>5, <3>1, <4>1
    <3> QED
      BY <2>4, <3>1, <3>2
  <2> QED
    BY <2>1, <2>4, <2>5, <2>6 DEF Follows, Begins
<1> QED
  BY <1>1, BooleansAssumption, DatasAssumption, InitSInv, NextSInv, PTL DEF RoundTripSpec

=============================================================================
