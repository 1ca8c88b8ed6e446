------------------------- MODULE ValueBuilderProofs -------------------------
(***************************************************************************)
(* The Builder finishes a Value exactly for the calls that are one whole   *)
(* plist, and its stack is well formed, for any leaves and any number of   *)
(* calls.                                                                  *)
(***************************************************************************)
EXTENDS ValueBuilder, SequenceLemmas

(***************************************************************************)
(* The entries of a dictionary.                                            *)
(***************************************************************************)
(* Where a key is found. *)
LEMMA IndexOfFacts ==
  ASSUME NEW es, Len(es) \in Nat, NEW k
  PROVE  \/ IndexOf(es, k) = 0 /\ \A i \in 1..Len(es) : es[i].key # k
         \/ IndexOf(es, k) \in 1..Len(es) /\ es[IndexOf(es, k)].key = k
<1> DEFINE U == {i \in 1..Len(es) : es[i].key = k}
<1>1. IndexOf(es, k) = IF U # {} THEN CHOOSE x \in U : \A y \in U : x =< y ELSE 0
  BY DEF IndexOf, SelectInSeq, Min
<1>2. CASE U = {}
  BY <1>1, <1>2
<1>3. CASE U # {}
  <2>1. \E x \in U : \A y \in U : x <= y
    <3>1. U \subseteq Nat
      OBVIOUS
    <3> HIDE DEF U
    <3> QED
      BY <1>3, <3>1, LeastNumber
  <2>2. IndexOf(es, k) \in U
    <3> HIDE DEF U
    <3> QED
      BY <1>1, <1>3, <2>1
  <2> QED
    BY <2>2
<1> QED
  BY <1>2, <1>3

(* Entries with a key each, no key twice. *)
AreEntries(es) ==
  /\ \E K, V : es \in Seq([key : K, value : V])
  /\ \A i, j \in 1..Len(es) : es[i].key = es[j].key => i = j

(* insert neither loses the entries nor doubles a key.                      *)
LEMMA InsertedFacts ==
  ASSUME NEW es, AreEntries(es), NEW k, NEW v
  PROVE  AreEntries(Inserted(es, k, v))
<1>1. PICK K0, V0 : es \in Seq([key : K0, value : V0])
  BY DEF AreEntries
<1> DEFINE K == K0 \cup {k}
           V == V0 \cup {v}
           E == [key : K, value : V]
           n == Len(es)
           r == Inserted(es, k, v)
<1>2. es \in Seq(E)
  <2>1. [key : K0, value : V0] \subseteq E
    OBVIOUS
  <2> HIDE DEF E
  <2> QED
    BY <1>1, <2>1, SeqMonotonic
<1>3. n \in Nat /\ \A i \in 1..n : es[i] \in E
  <2> HIDE DEF E
  <2> QED
    BY <1>2, LenProperties, ElementOfSeq
<1>4. k \in K /\ v \in V
  OBVIOUS
<1>5. \A i, j \in 1..n : es[i].key = es[j].key => i = j
  BY DEF AreEntries
<1> HIDE DEF K, V
<1>6. CASE IndexOf(es, k) = 0 /\ \A i \in 1..n : es[i].key # k
  <2> DEFINE e == [key |-> k, value |-> v]
  <2>1. e \in E /\ e.key = k
    BY <1>4
  <2> HIDE DEF e, E
  <2>2. /\ Append(es, e) \in Seq(E) /\ Len(Append(es, e)) = n + 1
        /\ \A i \in 1..n : Append(es, e)[i] = es[i]
        /\ Append(es, e)[n + 1] = e
    BY <1>2, <2>1, AppendFacts
  <2>3. r = Append(es, e)
    BY <1>6 DEF Inserted, e
  <2> HIDE DEF r, n
  <2>4. ASSUME NEW i \in 1..(n + 1), NEW j \in 1..(n + 1), r[i].key = r[j].key
        PROVE  i = j
    <3>1. CASE i \in 1..n /\ j \in 1..n
      BY <1>5, <2>2, <2>3, <2>4, <3>1
    <3>2. CASE i \in 1..n /\ j = n + 1
      BY <1>6, <2>1, <2>2, <2>3, <2>4, <3>2
    <3>3. CASE i = n + 1 /\ j \in 1..n
      BY <1>6, <2>1, <2>2, <2>3, <2>4, <3>3
    <3> QED
      BY <1>3, <3>1, <3>2, <3>3
  <2>5. r \in Seq(E) /\ Len(r) = n + 1
    BY <2>2, <2>3
  <2>6. AreEntries(r)
    BY <2>4, <2>5 DEF AreEntries, E
  <2> QED
    BY <2>6 DEF r
<1>7. CASE IndexOf(es, k) \in 1..n /\ es[IndexOf(es, k)].key = k
  <2> DEFINE x == IndexOf(es, k)
             e == [es[x] EXCEPT !.value = v]
  <2>1. x \in 1..n /\ es[x].key = k
    BY <1>7
  <2>2. r = [es EXCEPT ![x] = e]
    <3>1. x # 0
      BY <2>1
    <3> QED
      BY <3>1 DEF Inserted
  <2> HIDE DEF x
  <2>3. e \in E /\ e.key = es[x].key
    BY <1>3, <1>4, <2>1
  <2> HIDE DEF e, E
  <2>4. /\ [es EXCEPT ![x] = e] \in Seq(E) /\ Len([es EXCEPT ![x] = e]) = n
        /\ \A i \in 1..n : [es EXCEPT ![x] = e][i] = IF i = x THEN e ELSE es[i]
    BY <1>2, <2>1, <2>3, ExceptSeq
  <2> HIDE DEF r, n
  <2>5. r \in Seq(E) /\ Len(r) = n /\ \A i \in 1..n : r[i].key = es[i].key
    BY <2>2, <2>3, <2>4
  <2>6. AreEntries(r)
    BY <1>5, <2>5 DEF AreEntries, E
  <2> QED
    BY <2>6 DEF r
<1> QED
  BY <1>3, <1>6, <1>7, IndexOfFacts

(***************************************************************************)
(* What is on the stack.                                                   *)
(***************************************************************************)
IsStackItem(item) ==
  /\ item = [kind |-> item.kind, items |-> item.items, key |-> item.key]
  /\ item.kind \in {"root", "array", "dict", "dictkey"}
  /\ item.key \in IF item.kind = "dictkey" THEN Strings ELSE {NoKey}
  /\ item.kind = "root" => item.items # <<>>
  /\ item.kind \in {"dict", "dictkey"} => AreEntries(item.items)

IsBuilderStack(s) ==
  /\ IsStack(s)
  /\ \A d \in 1..Len(s) : IsStackItem(s[d]) /\ (s[d].kind = "root" => d = 1)

(* What an item becomes when a value is put into it.                        *)
Turns(item) == IF item.kind = "dict" THEN "dictkey"
               ELSE IF item.kind = "dictkey" THEN "dict" ELSE item.kind

(* Whether a value may be put there.                                        *)
Takes(item, v) == item.kind # "root" /\ (item.kind = "dict" => IsString(v))

(* What putting a value into a collection makes of it.                      *)
LEMMA PutFacts ==
  ASSUME NEW item, IsStackItem(item), NEW v
  PROVE  /\ ~Takes(item, v) => Put(item, v) = Error
         /\ Takes(item, v) => /\ Put(item, v) # Error
                              /\ IsStackItem(Put(item, v))
                              /\ Put(item, v).kind = Turns(item)
                              /\ Put(item, v).kind # "root"
<1>1. CASE item.kind = "root"
  BY <1>1 DEF Takes, Put
<1>2. CASE item.kind = "array"
  <2>1. Put(item, v) = [kind |-> "array", items |-> Append(item.items, v), key |-> item.key]
    <3> DEFINE i == item.items
               k == item.key
    <3>1. item = [kind |-> "array", items |-> i, key |-> k]
      BY <1>2 DEF IsStackItem
    <3>2. Put(item, v) = [item EXCEPT !.items = Append(i, v)]
      BY <1>2 DEF Put
    <3> HIDE DEF i, k
    <3>3. Put(item, v) = [kind |-> "array", items |-> Append(i, v), key |-> k]
      BY <3>1, <3>2
    <3> QED
      BY <3>3 DEF i, k
  <2> QED
    BY <1>2, <2>1 DEF Takes, Turns, IsStackItem, Error
<1>3. CASE item.kind = "dict"
  <2>1. IsString(v) =>
          Put(item, v) = [kind |-> "dictkey", items |-> item.items, key |-> v.items[1]]
    <3> DEFINE i == item.items
               k == item.key
    <3>1. item = [kind |-> "dict", items |-> i, key |-> k]
      BY <1>3 DEF IsStackItem
    <3>2. IsString(v) => Put(item, v) = [item EXCEPT !.kind = "dictkey", !.key = v.items[1]]
      BY <1>3 DEF Put
    <3> HIDE DEF i, k
    <3>3. IsString(v) => Put(item, v) = [kind |-> "dictkey", items |-> i, key |-> v.items[1]]
      BY <3>1, <3>2
    <3> QED
      BY <3>3 DEF i
  <2>2. ~IsString(v) => Put(item, v) = Error
    BY <1>3 DEF Put
  <2>3. IsString(v) => v.items[1] \in Strings
    BY DEF IsString
  <2> QED
    BY <1>3, <2>1, <2>2, <2>3 DEF Takes, Turns, IsStackItem, Error
<1>4. CASE item.kind = "dictkey"
  <2> DEFINE es == Inserted(item.items, item.key, v)
  <2>1. Put(item, v) = [kind |-> "dict", items |-> es, key |-> NoKey]
    BY <1>4 DEF Put, Item
  <2>2. AreEntries(es)
    BY <1>4, InsertedFacts DEF IsStackItem
  <2> HIDE DEF es
  <2> QED
    BY <1>4, <2>1, <2>2 DEF Takes, Turns, IsStackItem, Error
<1> QED
  BY <1>1, <1>2, <1>3, <1>4 DEF IsStackItem

(* An item that holds nothing yet. *)
LEMMA NewItemFacts ==
  /\ IsStackItem(Item("array", <<>>)) /\ Item("array", <<>>).kind = "array"
  /\ IsStackItem(Item("dict", <<>>)) /\ Item("dict", <<>>).kind = "dict"
  /\ \A v : IsStackItem(Item("root", <<v>>)) /\ Item("root", <<v>>).kind = "root"
<1>1. AreEntries(<<>>)
  <2> DEFINE es == <<>>
  <2>1. es \in Seq([key : {}, value : {}]) /\ Len(es) = 0
    BY EmptySeq
  <2> HIDE DEF es
  <2>2. AreEntries(es)
    BY <2>1 DEF AreEntries
  <2> QED
    BY <2>2 DEF es
<1>2. \A k, i : Item(k, i) = [kind |-> k, items |-> i, key |-> NoKey]
  BY DEF Item
<1>3. ASSUME NEW v
      PROVE  <<v>> # <<>>
  OBVIOUS
<1> QED
  BY <1>1, <1>2, <1>3 DEF IsStackItem

(***************************************************************************)
(* Putting a value on the stack.                                           *)
(***************************************************************************)
LEMMA WriteValueOnFacts ==
  ASSUME NEW below, IsBuilderStack(below), NEW v, WriteValueOn(below, v)
  PROVE  /\ IsBuilderStack(stack')
         /\ below = <<>> => verdict' = verdict /\ Len(stack') = 1 /\ stack'[1].kind = "root"
         /\ below # <<>> /\ ~Takes(Last(below), v) => verdict' = "error"
         /\ below # <<>> /\ Takes(Last(below), v) =>
              /\ verdict' = verdict /\ Len(stack') = Len(below)
              /\ \A i \in 1..(Len(below) - 1) : stack'[i].kind = below[i].kind
              /\ stack'[Len(below)].kind = Turns(Last(below))
<1> DEFINE n == Len(below)
           f == Front(below)
           top == Last(below)
<1>1. IsStack(below)
  BY DEF IsBuilderStack
<1>2. CASE below = <<>>
  <2> DEFINE root == Item("root", <<v>>)
             none == <<>>
  <2>1. IsStackItem(root) /\ root.kind = "root" /\ root # Error
    BY NewItemFacts DEF IsStackItem, Error
  <2>2. stack' = Append(none, root) /\ verdict' = verdict
    BY <1>2, <2>1 DEF WriteValueOn
  <2> HIDE DEF root, none
  <2>3. IsStack(none) /\ Len(none) = 0
    BY EmptySeq DEF IsStack, none
  <2>4. IsStack(stack') /\ Len(stack') = 1 /\ stack'[1] = root
    <3>1. /\ IsStack(Append(none, root)) /\ Len(Append(none, root)) = Len(none) + 1
          /\ Append(none, root)[Len(none) + 1] = root
      BY <2>3, StackPushed
    <3> QED
      BY <2>2, <2>3, <3>1
  <2>5. IsBuilderStack(stack')
    BY <2>1, <2>4 DEF IsBuilderStack
  <2> QED
    BY <1>2, <2>1, <2>2, <2>4, <2>5
<1>3. CASE below # <<>>
  <2>1. /\ IsStack(f) /\ Len(f) = n - 1 /\ n \in Nat \ {0}
        /\ \A i \in 1..(n - 1) : f[i] = below[i]
        /\ top = below[n]
    BY <1>1, <1>3, StackPopped
  <2>2. IsStackItem(top)
    BY <2>1 DEF IsBuilderStack
  <2>3. IF Put(top, v) = Error THEN verdict' = "error" /\ stack' = f
        ELSE stack' = Append(f, Put(top, v)) /\ verdict' = verdict
    BY <1>3 DEF WriteValueOn
  <2>4. \A d \in 1..n : IsStackItem(below[d]) /\ (below[d].kind = "root" => d = 1)
    BY DEF IsBuilderStack
  <2> HIDE DEF f, top, n
  <2>5. CASE ~Takes(top, v)
    <3>1. stack' = f /\ verdict' = "error"
      BY <2>2, <2>3, <2>5, PutFacts
    <3>2. IsBuilderStack(f)
      BY <2>1, <2>4 DEF IsBuilderStack
    <3> QED
      BY <1>3, <2>5, <3>1, <3>2 DEF top
  <2>6. CASE Takes(top, v)
    <3> DEFINE item == Put(top, v)
    <3>1. item # Error /\ IsStackItem(item) /\ item.kind = Turns(top) /\ item.kind # "root"
      BY <2>2, <2>6, PutFacts
    <3>2. stack' = Append(f, item) /\ verdict' = verdict
      BY <2>3, <3>1
    <3> HIDE DEF item
    <3>3. /\ IsStack(stack') /\ Len(stack') = n
          /\ \A i \in 1..(n - 1) : stack'[i] = below[i]
          /\ stack'[n] = item
      BY <2>1, <3>2, StackPushed
    <3>4. IsBuilderStack(stack')
      BY <2>1, <2>4, <3>1, <3>3 DEF IsBuilderStack
    <3>5. \A i \in 1..(n - 1) : stack'[i].kind = below[i].kind
      BY <3>3
    <3>6. stack'[n].kind = Turns(top)
      BY <3>1, <3>3
    <3> QED
      BY <1>3, <2>6, <3>2, <3>3, <3>4, <3>5, <3>6 DEF top, n
  <2> QED
    BY <2>5, <2>6
<1> QED
  BY <1>2, <1>3

(***************************************************************************)
(* Calls that are to be one plist, followed one by one.                    *)
(***************************************************************************)
IsReading(es, g) ==
  /\ g = [i \in 0..Len(es) |-> g[i]]
  /\ g[0] = Sink!Unread
  /\ \A i \in 1..Len(es) : g[i] = Sink!Follow(g[i - 1], es[i])

(* Reading the events one by one decides whether they are whole.            *)
LEMMA ReadingDecides ==
  ASSUME NEW es \in Seq(Calls), NEW g, IsReading(es, g)
  PROVE  Sink!WholePlist(es) <=> Sink!Complete(g[Len(es)])
<1> DEFINE n == Len(es)
           Fn(f) == [i \in 0..n |-> IF i = 0 THEN Sink!Unread ELSE Sink!Follow(f[i - 1], es[i])]
           after == CHOOSE f : f = Fn(f)
<1>1. n \in Nat
  BY LenProperties
<1>2. Sink!WholePlist(es) <=> Sink!Complete(after[n])
  BY DEF Sink!WholePlist
<1> HIDE DEF n
<1>3. g = Fn(g)
  <2>0. g[0] = Sink!Unread /\ \A i \in 1..n : g[i] = Sink!Follow(g[i - 1], es[i])
    BY DEF IsReading, n
  <2>1. \A i \in 0..n : g[i] = IF i = 0 THEN Sink!Unread ELSE Sink!Follow(g[i - 1], es[i])
    BY <1>1, <2>0
  <2>2. g = [i \in 0..n |-> g[i]]
    BY DEF IsReading, n
  <2> QED
    BY <2>1, <2>2
<1> HIDE DEF Fn
<1>4. after = Fn(after)
  BY <1>3
<1> HIDE DEF after
<1> DEFINE T == {i \in 0..n : after[i] = g[i]}
<1>5. \A i \in 0..n : /\ g[i] = IF i = 0 THEN Sink!Unread ELSE Sink!Follow(g[i - 1], es[i])
                      /\ after[i] = IF i = 0 THEN Sink!Unread ELSE Sink!Follow(after[i - 1], es[i])
  <2>1. Fn(after) = [i \in 0..n |-> IF i = 0 THEN Sink!Unread ELSE Sink!Follow(after[i - 1], es[i])]
    BY DEF Fn
  <2>2. \A i \in 0..n : after[i] = IF i = 0 THEN Sink!Unread ELSE Sink!Follow(after[i - 1], es[i])
    BY <1>4, <2>1
  <2>0. g[0] = Sink!Unread /\ \A i \in 1..n : g[i] = Sink!Follow(g[i - 1], es[i])
    BY DEF IsReading, n
  <2>3. \A i \in 0..n : g[i] = IF i = 0 THEN Sink!Unread ELSE Sink!Follow(g[i - 1], es[i])
    BY <1>1, <2>0
  <2> QED
    BY <2>2, <2>3
<1>6. 0 \in T
  BY <1>1, <1>5
<1>7. \A i \in 1..n : i - 1 \in T => i \in T
  BY <1>1, <1>5
<1>8. 0..n \subseteq T
  <2> HIDE DEF T
  <2> QED
    BY <1>1, <1>6, <1>7, BoundedInduction
<1>9. after[n] = g[n]
  BY <1>1, <1>8
<1> QED
  BY <1>2, <1>9 DEF n

(* One event more is followed from what is known of those before.           *)
LEMMA ReadingGoesOn ==
  ASSUME NEW es \in Seq(Calls), NEW g, IsReading(es, g), NEW e \in Calls
  PROVE  \E f : IsReading(Append(es, e), f) /\ f[Len(es) + 1] = Sink!Follow(g[Len(es)], e)
<1> DEFINE n == Len(es)
           t == Append(es, e)
           f == [i \in 0..(n + 1) |-> IF i <= n THEN g[i] ELSE Sink!Follow(g[n], e)]
<1>1. /\ n \in Nat /\ Len(t) = n + 1 /\ t[n + 1] = e
      /\ \A i \in 1..n : t[i] = es[i]
  BY AppendFacts
<1>2. g[0] = Sink!Unread /\ \A i \in 1..n : g[i] = Sink!Follow(g[i - 1], es[i])
  BY DEF IsReading
<1> HIDE DEF n, t
<1>3. f[0] = Sink!Unread
  BY <1>1, <1>2
<1>4. \A i \in 1..(n + 1) : f[i] = Sink!Follow(f[i - 1], t[i])
  <2> SUFFICES ASSUME NEW i \in 1..(n + 1)
               PROVE  f[i] = Sink!Follow(f[i - 1], t[i])
    OBVIOUS
  <2>1. CASE i = n + 1
    <3>1. f[i] = Sink!Follow(g[n], e) /\ f[i - 1] = g[n] /\ t[i] = e
      BY <1>1, <2>1
    <3> QED
      BY <3>1
  <2>2. CASE i \in 1..n
    <3>1. f[i] = g[i] /\ f[i - 1] = g[i - 1] /\ t[i] = es[i]
      BY <1>1, <2>2
    <3> QED
      BY <1>2, <2>2, <3>1
  <2> QED
    BY <1>1, <2>1, <2>2
<1>5. f = [i \in 0..(n + 1) |-> f[i]] /\ f[n + 1] = Sink!Follow(g[n], e)
  BY <1>1
<1> HIDE DEF f
<1>6. IsReading(t, f)
  BY <1>1, <1>3, <1>4, <1>5 DEF IsReading
<1> QED
  BY <1>5, <1>6 DEF t, n

(***************************************************************************)
(* How the stack follows what is open.                                     *)
(***************************************************************************)
Expected == {"array", "key", "value"}

(* Below the top a collection waits for the one above it to be closed.      *)
Waits(x, kind) ==
  \/ x = "array" /\ kind = "array"
  \/ x = "key" /\ kind = "dictkey"
Expects(x, kind) ==
  \/ x = "array" /\ kind = "array"
  \/ x = "key" /\ kind = "dict"
  \/ x = "value" /\ kind = "dictkey"

Follows(st, s) ==
  IF st = <<>> THEN Len(s) = 1 /\ s[1].kind = "root"
  ELSE /\ Len(s) = Len(st)
       /\ \A i \in 1..(Len(s) - 1) : Waits(st[i], s[i].kind)
       /\ Expects(st[Len(st)], s[Len(s)].kind)

(* A call that was not legal has left something open above what cannot take *)
(* it: it is found out when that is closed.                                 *)
Doomed(s) == \E d \in 1..(Len(s) - 1) : s[d].kind \in {"root", "dict"}

Tracks(F, s) ==
  IF ~F.legal THEN Doomed(s)
  ELSE /\ F.stack \in Seq(Expected)
       /\ IF F.begun THEN Follows(F.stack, s) ELSE s = <<>> /\ F.stack = <<>>

IsState(F) == F.begun \in BOOLEAN /\ F.legal \in BOOLEAN

Reads(F) ==
  /\ IsState(F)
  /\ verdict = "ok" /\ result = <<>> => Tracks(F, stack)
  /\ verdict = "error" => ~Sink!Complete(F)
  /\ result # <<>> => Sink!Complete(F)

BuilderInv ==
  /\ IsBuilderStack(stack)
  /\ verdict \in {"ok", "error"}
  /\ input \in Seq(Calls)
  /\ \E g : IsReading(input, g) /\ Reads(g[Len(input)])

(* The invariant holds at first.                                            *)
LEMMA InitBuilderInv == Init => BuilderInv
<1> SUFFICES ASSUME Init
             PROVE  BuilderInv
  OBVIOUS
<1> DEFINE none == <<>>
           g == [i \in 0..0 |-> Sink!Unread]
<1>1. stack = none /\ verdict = "ok" /\ result = <<>> /\ input = none
  BY DEF Init
<1>2. none \in Seq(Calls) /\ none \in Seq({}) /\ Len(none) = 0
  BY EmptySeq
<1> HIDE DEF none
<1>3. IsBuilderStack(stack)
  BY <1>1, <1>2 DEF IsBuilderStack, IsStack
<1>4. IsReading(input, g)
  BY <1>1, <1>2 DEF IsReading
<1>5. g[0] = Sink!Unread
  OBVIOUS
<1> HIDE DEF g
<1>6. Reads(Sink!Unread)
  <2> DEFINE F == Sink!Unread
  <2>1. F.begun = FALSE /\ F.legal = TRUE /\ F.stack = <<>>
    BY DEF Sink!Unread
  <2> HIDE DEF F
  <2>2. F.stack \in Seq(Expected)
    BY <2>1, EmptySeq
  <2>3. Reads(F)
    BY <1>1, <2>1, <2>2 DEF Reads, IsState, Tracks, none
  <2> QED
    BY <2>3 DEF F
<1> QED
  BY <1>1, <1>2, <1>3, <1>4, <1>5, <1>6 DEF BuilderInv

(* What a call leads to, of what is known of the calls before it.           *)
LEMMA FollowFacts ==
  ASSUME NEW F, IsState(F), NEW e \in Calls
  PROVE  /\ IsState(Sink!Follow(F, e))
         /\ F.legal /\ ~Sink!Complete(F) /\ Sink!LegalIn(F.stack, e) =>
              /\ Sink!Follow(F, e).legal /\ Sink!Follow(F, e).begun
              /\ Sink!Follow(F, e).stack = Sink!AfterIn(F.stack, e)
         /\ ~(F.legal /\ ~Sink!Complete(F) /\ Sink!LegalIn(F.stack, e)) =>
              /\ ~Sink!Follow(F, e).legal /\ ~Sink!Complete(Sink!Follow(F, e))
<1>1. CASE F.legal /\ ~Sink!Complete(F) /\ Sink!LegalIn(F.stack, e)
  <2> DEFINE st == Sink!AfterIn(F.stack, e)
  <2>1. Sink!Follow(F, e) = [begun |-> TRUE, legal |-> TRUE, stack |-> st]
    BY <1>1, Zenon DEF Sink!Follow
  <2> HIDE DEF st
  <2> QED
    BY <1>1, <2>1 DEF IsState, st
<1>2. CASE ~(F.legal /\ ~Sink!Complete(F) /\ Sink!LegalIn(F.stack, e))
  <2>1. Sink!Follow(F, e) = [Sink!Unread EXCEPT !.legal = FALSE]
    BY <1>2, Zenon DEF Sink!Follow
  <2>2. Sink!Follow(F, e) = [begun |-> FALSE, legal |-> FALSE, stack |-> <<>>]
    BY <2>1 DEF Sink!Unread
  <2> DEFINE G == Sink!Follow(F, e)
  <2>3. G.begun = FALSE /\ G.legal = FALSE
    BY <2>2
  <2> HIDE DEF G
  <2>4. IsState(G) /\ ~G.legal /\ ~Sink!Complete(G)
    BY <2>3 DEF IsState, Sink!Complete
  <2> QED
    BY <1>2, <2>4 DEF G
<1> QED
  BY <1>1, <1>2

(***************************************************************************)
(* What the writer of a plist expects after each call.                     *)
(***************************************************************************)
(* What the innermost collection expects after what it has got.             *)
Turn(x) == IF x = "array" THEN "array" ELSE IF x = "key" THEN "value" ELSE "key"

(* What the innermost collection expects after an element.                  *)
LEMMA TurnedFacts ==
  ASSUME NEW st \in Seq(Expected), st # <<>>
  PROVE  /\ Sink!Turned(st) \in Seq(Expected) /\ Len(Sink!Turned(st)) = Len(st)
         /\ Len(st) \in Nat \ {0} /\ st[Len(st)] \in Expected
         /\ \A i \in 1..(Len(st) - 1) : Sink!Turned(st)[i] = st[i]
         /\ Sink!Turned(st)[Len(st)] = Turn(st[Len(st)])
<1> DEFINE n == Len(st)
           x == st[n]
           u == Sink!Turned(st)
<1>1. n \in Nat \ {0}
  BY FrontLast
<1>2. n \in 1..n /\ x \in Expected
  BY <1>1, ElementOfSeq
<1>3. ASSUME NEW y \in Expected
      PROVE  /\ [st EXCEPT ![n] = y] \in Seq(Expected) /\ Len([st EXCEPT ![n] = y]) = n
             /\ \A i \in 1..n : [st EXCEPT ![n] = y][i] = IF i = n THEN y ELSE st[i]
  BY <1>2, ExceptSeq
<1>4. /\ x = "array" => u = st
      /\ x = "key" => u = [st EXCEPT ![n] = "value"]
      /\ x = "value" => u = [st EXCEPT ![n] = "key"]
  BY DEF Sink!Turned, Sink!Innermost
<1> HIDE DEF n, u
<1>5. CASE x = "array"
  BY <1>1, <1>2, <1>4, <1>5 DEF Turn, n, u
<1>6. CASE x = "key"
  <2> DEFINE w == [st EXCEPT ![n] = "value"]
  <2>1. "value" \in Expected
    BY DEF Expected
  <2>2. /\ w \in Seq(Expected) /\ Len(w) = n
        /\ \A i \in 1..n : w[i] = IF i = n THEN "value" ELSE st[i]
    BY <1>3, <2>1
  <2>3. u = w
    BY <1>4, <1>6
  <2> HIDE DEF w
  <2>4. \A i \in 1..(n - 1) : u[i] = st[i]
    BY <1>1, <2>2, <2>3
  <2> QED
    BY <1>1, <1>2, <1>6, <2>2, <2>3, <2>4 DEF Turn, n, u
<1>7. CASE x = "value"
  <2> DEFINE w == [st EXCEPT ![n] = "key"]
  <2>1. "key" \in Expected
    BY DEF Expected
  <2>2. /\ w \in Seq(Expected) /\ Len(w) = n
        /\ \A i \in 1..n : w[i] = IF i = n THEN "key" ELSE st[i]
    BY <1>3, <2>1
  <2>3. u = w
    BY <1>4, <1>7
  <2> HIDE DEF w
  <2>4. \A i \in 1..(n - 1) : u[i] = st[i]
    BY <1>1, <2>2, <2>3
  <2> QED
    BY <1>1, <1>2, <1>7, <2>2, <2>3, <2>4 DEF Turn, n, u
<1> QED
  BY <1>2, <1>5, <1>6, <1>7 DEF Expected

(* What is expected of the kinds of calls.                                  *)
LEMMA CallFacts ==
  ASSUME NEW e \in Calls
  PROVE  /\ e.kind \in {"value", "array", "dict", "end"}
         /\ e.kind = "value" => IsString(Leaf(e.arg)) = (e.arg \in Strings)
<1>1. e.kind \in {"value", "array", "dict", "end"}
  BY DEF Calls
<1>2. IsString(Leaf(e.arg)) = (e.arg \in Strings)
  BY DEF IsString, Leaf
<1> QED
  BY <1>1, <1>2

(* A start is pushed. *)
LEMMA StartTracks ==
  ASSUME IsBuilderStack(stack), NEW F, IsState(F), Tracks(F, stack),
         NEW e \in Calls, e.kind \in {"array", "dict"}, stack' = Append(stack, Item(e.kind, <<>>))
  PROVE  IsBuilderStack(stack') /\ Tracks(Sink!Follow(F, e), stack')
<1> DEFINE n == Len(stack)
           item == Item(e.kind, <<>>)
           G == Sink!Follow(F, e)
           x == IF e.kind = "array" THEN "array" ELSE "key"
<1>1. IsStack(stack) /\ \A d \in 1..n : IsStackItem(stack[d]) /\ (stack[d].kind = "root" => d = 1)
  BY DEF IsBuilderStack
<1>2. IsStackItem(item) /\ item.kind = e.kind
  BY NewItemFacts
<1> HIDE DEF item
<1>3. /\ IsStack(stack') /\ Len(stack') = n + 1 /\ n \in Nat
      /\ \A i \in 1..n : stack'[i] = stack[i]
      /\ stack'[n + 1] = item
  BY <1>1, StackPushed DEF item
<1>4. (stack = <<>>) <=> (n = 0)
  BY <1>1, StackEmpty
<1> HIDE DEF n
<1>5. IsBuilderStack(stack')
  BY <1>1, <1>2, <1>3 DEF IsBuilderStack
<1>6. Doomed(stack) \/ (\E d \in 1..n : stack[d].kind \in {"root", "dict"}) => Doomed(stack')
  BY <1>3 DEF Doomed, n
<1>7. ~G.legal /\ Doomed(stack') => Tracks(G, stack')
  BY DEF Tracks
<1>8. CASE ~F.legal
  BY <1>5, <1>6, <1>7, <1>8, FollowFacts DEF Tracks
<1>9. CASE F.legal /\ F.begun /\ F.stack = <<>>
  <2>1. ~G.legal
    BY <1>9, FollowFacts DEF Sink!Complete
  <2>2. n = 1 /\ stack[1].kind = "root"
    BY <1>9 DEF Tracks, Follows, n
  <2> QED
    BY <1>5, <1>6, <1>7, <2>1, <2>2
<1>10. x \in Expected /\ Expects(x, item.kind)
  BY <1>2 DEF Expected, Expects
<1>11. ASSUME F.legal, F.begun => F.stack # <<>>, Sink!LegalIn(F.stack, e)
       PROVE  G.legal /\ G.begun /\ G.stack = Append(Sink!Turned(F.stack), x)
  <2>1. G.legal /\ G.begun /\ G.stack = Sink!AfterIn(F.stack, e)
    BY <1>11, FollowFacts DEF Sink!Complete
  <2> QED
    BY <2>1 DEF Sink!AfterIn
<1> HIDE DEF G, x
<1>12. CASE F.legal /\ ~F.begun
  <2>1. stack = <<>> /\ F.stack = <<>> /\ n = 0
    BY <1>4, <1>12 DEF Tracks
  <2>2. Sink!LegalIn(F.stack, e) /\ Sink!Turned(F.stack) = <<>>
    BY <2>1 DEF Sink!LegalIn, Sink!Turned
  <2> DEFINE none == <<>>
  <2>3. G.legal /\ G.begun /\ G.stack = Append(none, x)
    BY <1>11, <1>12, <2>2
  <2>4. none \in Seq(Expected) /\ Len(none) = 0
    BY EmptySeq
  <2> HIDE DEF none
  <2>5. /\ Append(none, x) \in Seq(Expected) /\ Len(Append(none, x)) = Len(none) + 1
        /\ Append(none, x)[Len(none) + 1] = x /\ Append(none, x) # <<>>
    BY <1>10, <2>4, AppendFacts
  <2>6. G.stack \in Seq(Expected) /\ Len(G.stack) = 1 /\ G.stack[1] = x /\ G.stack # <<>>
    BY <2>3, <2>4, <2>5
  <2>7. Follows(G.stack, stack')
    BY <1>3, <1>10, <2>1, <2>6 DEF Follows
  <2> QED
    BY <1>5, <2>3, <2>6, <2>7 DEF Tracks, G
<1>13. CASE F.legal /\ F.begun /\ F.stack # <<>>
  <2> DEFINE st == F.stack
             u == Sink!Turned(st)
             v == Append(u, x)
  <2>1. st \in Seq(Expected) /\ st # <<>> /\ Follows(st, stack)
    BY <1>13 DEF Tracks
  <2>2. /\ Len(st) = n /\ \A i \in 1..(n - 1) : Waits(st[i], stack[i].kind)
        /\ Expects(st[n], stack[n].kind)
    BY <2>1 DEF Follows, n
  <2>3. /\ u \in Seq(Expected) /\ Len(u) = n /\ n \in Nat \ {0}
        /\ \A i \in 1..(n - 1) : u[i] = st[i]
        /\ u[n] = Turn(st[n])
    BY <2>1, <2>2, TurnedFacts
  <2>4. Sink!LegalIn(st, e) <=> st[n] # "key"
    BY <2>1, <2>2 DEF Sink!LegalIn, Sink!Innermost
  <2>5. CASE st[n] = "key"
    <3>1. ~G.legal
      BY <2>4, <2>5, FollowFacts DEF G
    <3>2. stack[n].kind = "dict" /\ n \in 1..n
      BY <2>2, <2>3, <2>5 DEF Expects
    <3> QED
      BY <1>5, <1>6, <1>7, <3>1, <3>2 DEF G
  <2>6. CASE st[n] # "key"
    <3>1. G.legal /\ G.begun /\ G.stack = v
      BY <1>11, <1>13, <2>4, <2>6
    <3> HIDE DEF st, u
    <3>2. /\ v \in Seq(Expected) /\ Len(v) = n + 1 /\ v # <<>>
          /\ \A i \in 1..n : v[i] = u[i]
          /\ v[n + 1] = x
      <4>1. /\ v \in Seq(Expected) /\ Len(v) = Len(u) + 1 /\ v # <<>>
            /\ \A i \in 1..Len(u) : v[i] = u[i]
            /\ v[Len(u) + 1] = x
        BY <1>10, <2>3, AppendFacts
      <4> QED
        BY <2>3, <4>1
    <3> HIDE DEF v
    <3>3. Waits(u[n], stack[n].kind)
      BY <2>2, <2>3, <2>6 DEF Expects, Waits, Turn
    <3>4. \A i \in 1..n : Waits(v[i], stack'[i].kind)
      <4> SUFFICES ASSUME NEW i \in 1..n
                   PROVE  Waits(v[i], stack'[i].kind)
        OBVIOUS
      <4>1. v[i] = u[i] /\ stack'[i] = stack[i]
        BY <1>3, <3>2
      <4>2. CASE i = n
        BY <3>3, <4>1, <4>2
      <4>3. CASE i # n
        <5>1. i \in 1..(n - 1)
          BY <2>3, <4>3
        <5> QED
          BY <2>2, <2>3, <4>1, <5>1
      <4> QED
        BY <4>2, <4>3
    <3>5. Follows(v, stack')
      BY <1>3, <1>10, <3>2, <3>4 DEF Follows
    <3> QED
      BY <1>5, <3>1, <3>2, <3>5 DEF Tracks, G
  <2> QED
    BY <2>5, <2>6
<1> QED
  BY <1>8, <1>9, <1>12, <1>13

(* A leaf is put on the stack. *)
LEMMA ValueTracks ==
  ASSUME IsBuilderStack(stack), NEW F, IsState(F), Tracks(F, stack), verdict = "ok",
         NEW e \in Calls, e.kind = "value", WriteValueOn(stack, Leaf(e.arg))
  PROVE  /\ IsBuilderStack(stack') /\ verdict' \in {"ok", "error"}
         /\ verdict' = "ok" => Tracks(Sink!Follow(F, e), stack')
         /\ verdict' = "error" => ~Sink!Complete(Sink!Follow(F, e))
<1> DEFINE n == Len(stack)
           v == Leaf(e.arg)
           G == Sink!Follow(F, e)
<1>1. IsStack(stack) /\ n \in Nat /\ ((stack = <<>>) <=> (n = 0))
  BY StackEmpty DEF IsBuilderStack
<1>2. stack # <<>> => Last(stack) = stack[n]
  BY <1>1, StackPopped
<1>3. /\ IsBuilderStack(stack')
      /\ stack = <<>> => verdict' = "ok" /\ Len(stack') = 1 /\ stack'[1].kind = "root"
      /\ stack # <<>> /\ ~Takes(stack[n], v) => verdict' = "error"
      /\ stack # <<>> /\ Takes(stack[n], v) =>
           /\ verdict' = "ok" /\ Len(stack') = n
           /\ \A i \in 1..(n - 1) : stack'[i].kind = stack[i].kind
           /\ stack'[n].kind = Turns(stack[n])
  BY <1>2, WriteValueOnFacts
<1>4. verdict' \in {"ok", "error"}
  BY <1>3
<1>5. IsString(v) = (e.arg \in Strings)
  BY CallFacts
<1>6. F.legal /\ ~Sink!Complete(F) /\ Sink!LegalIn(F.stack, e) =>
        G.legal /\ G.begun /\ G.stack = Sink!Turned(F.stack)
  <2>1. Sink!AfterIn(F.stack, e) = Sink!Turned(F.stack)
    BY DEF Sink!AfterIn
  <2> QED
    BY <2>1, FollowFacts
<1>7. ~(F.legal /\ ~Sink!Complete(F) /\ Sink!LegalIn(F.stack, e)) =>
        ~G.legal /\ ~Sink!Complete(G)
  BY FollowFacts
<1> HIDE DEF n, v, G
<1>8. CASE ~F.legal
  <2>1. ~G.legal /\ ~Sink!Complete(G) /\ Doomed(stack)
    BY <1>7, <1>8 DEF Tracks
  <2>2. PICK d \in 1..(n - 1) : stack[d].kind \in {"root", "dict"}
    BY <2>1 DEF Doomed, n
  <2>3. stack # <<>>
    BY <1>1, <2>2
  <2>4. verdict' = "ok" => Doomed(stack')
    BY <1>3, <2>2, <2>3 DEF Doomed
  <2> QED
    BY <1>3, <1>4, <2>1, <2>4 DEF Tracks, G
<1>9. CASE F.legal /\ F.begun /\ F.stack = <<>>
  <2>1. ~G.legal /\ ~Sink!Complete(G)
    BY <1>7, <1>9 DEF Sink!Complete
  <2>2. n = 1 /\ stack[1].kind = "root"
    BY <1>9 DEF Tracks, Follows, n
  <2>3. ~Takes(stack[n], v) /\ stack # <<>>
    BY <1>1, <2>2 DEF Takes
  <2> QED
    BY <1>3, <1>4, <2>1, <2>3 DEF G
<1>10. CASE F.legal /\ ~F.begun
  <2>1. stack = <<>> /\ F.stack = <<>>
    BY <1>10 DEF Tracks
  <2>2. Sink!LegalIn(F.stack, e) /\ Sink!Turned(F.stack) = <<>>
    BY <2>1 DEF Sink!LegalIn, Sink!Turned
  <2>3. G.legal /\ G.begun /\ G.stack = <<>>
    BY <1>6, <1>10, <2>2 DEF Sink!Complete
  <2>4. verdict' = "ok" /\ Follows(G.stack, stack')
    BY <1>3, <2>1, <2>3 DEF Follows
  <2>5. G.stack \in Seq(Expected)
    BY <2>3, EmptySeq
  <2> QED
    BY <1>3, <2>3, <2>4, <2>5 DEF Tracks, G
<1>11. CASE F.legal /\ F.begun /\ F.stack # <<>>
  <2> DEFINE st == F.stack
             u == Sink!Turned(st)
  <2>1. st \in Seq(Expected) /\ st # <<>> /\ Follows(st, stack)
    BY <1>11 DEF Tracks
  <2>2. /\ Len(st) = n /\ \A i \in 1..(n - 1) : Waits(st[i], stack[i].kind)
        /\ Expects(st[n], stack[n].kind)
    BY <2>1 DEF Follows, n
  <2>3. /\ u \in Seq(Expected) /\ Len(u) = n /\ n \in Nat \ {0}
        /\ \A i \in 1..(n - 1) : u[i] = st[i]
        /\ u[n] = Turn(st[n])
    BY <2>1, <2>2, TurnedFacts
  <2>4. u # <<>> /\ stack # <<>>
    BY <1>1, <2>3, EmptyIffZero
  <2>5. Sink!LegalIn(st, e) <=> (st[n] = "key" => e.arg \in Strings)
    BY <2>1, <2>2 DEF Sink!LegalIn, Sink!Innermost
  <2>6. Takes(stack[n], v) <=> (st[n] = "key" => e.arg \in Strings)
    BY <1>5, <2>2 DEF Takes, Expects
  <2> HIDE DEF u
  <2>7. CASE Sink!LegalIn(st, e)
    <3>1. G.legal /\ G.begun /\ G.stack = u
      BY <1>6, <1>11, <2>7 DEF Sink!Complete, u
    <3>2. /\ verdict' = "ok" /\ Len(stack') = n
          /\ \A i \in 1..(n - 1) : stack'[i].kind = stack[i].kind
          /\ stack'[n].kind = Turns(stack[n])
      BY <1>3, <2>4, <2>5, <2>6, <2>7
    <3>3. Expects(u[n], stack'[n].kind)
      BY <2>2, <2>3, <3>2 DEF Expects, Turn, Turns
    <3>4. Follows(u, stack')
      BY <2>2, <2>3, <2>4, <3>2, <3>3 DEF Follows
    <3> QED
      BY <1>3, <2>3, <3>1, <3>2, <3>4 DEF Tracks, G
  <2>8. CASE ~Sink!LegalIn(st, e)
    <3>1. ~G.legal /\ ~Sink!Complete(G)
      BY <1>7, <2>8
    <3>2. verdict' = "error"
      BY <1>3, <2>4, <2>5, <2>6, <2>8
    <3> QED
      BY <1>3, <3>1, <3>2 DEF G
  <2> QED
    BY <2>7, <2>8
<1> QED
  BY <1>8, <1>9, <1>10, <1>11

(* What is open is closed, and put into what is below it.                   *)
LEMMA EndTracks ==
  ASSUME IsBuilderStack(stack), NEW F, IsState(F), Tracks(F, stack), verdict = "ok",
         NEW e \in Calls, WriteEndCollection(e)
  PROVE  /\ IsBuilderStack(stack') /\ verdict' \in {"ok", "error"}
         /\ verdict' = "ok" => Tracks(Sink!Follow(F, e), stack')
         /\ verdict' = "error" => ~Sink!Complete(Sink!Follow(F, e))
<1> DEFINE n == Len(stack)
           below == Front(stack)
           v == [kind |-> Last(stack).kind, items |-> Last(stack).items]
           G == Sink!Follow(F, e)
<1>0. e.kind = "end"
  BY DEF WriteEndCollection
<1>1. IsStack(stack) /\ n \in Nat /\ ((stack = <<>>) <=> (n = 0))
  BY StackEmpty DEF IsBuilderStack
<1>2. stack # <<>> => /\ IsStack(below) /\ Len(below) = n - 1 /\ n \in Nat \ {0}
                      /\ \A i \in 1..(n - 1) : below[i] = stack[i]
                      /\ Last(stack) = stack[n]
  BY <1>1, StackPopped
<1>3. stack # <<>> => IsBuilderStack(below)
  <2> HIDE DEF below
  <2> QED
    BY <1>2 DEF IsBuilderStack
<1>4. IF stack # <<>> /\ Closable(stack[n]) THEN WriteValueOn(below, v)
      ELSE verdict' = "error" /\ stack' = IF stack = <<>> THEN stack ELSE below
  BY <1>2 DEF WriteEndCollection
<1>5. ~Closable(stack[n]) \/ stack = <<>> =>
        verdict' = "error" /\ IsBuilderStack(stack')
  BY <1>3, <1>4
<1>6. stack # <<>> /\ Closable(stack[n]) => ~IsString(v)
  BY <1>2 DEF Closable, IsString
<1> HIDE DEF v
<1>7. ASSUME stack # <<>>, Closable(stack[n])
      PROVE  /\ IsBuilderStack(stack')
             /\ n = 1 => verdict' = "ok" /\ Len(stack') = 1 /\ stack'[1].kind = "root"
             /\ n > 1 /\ ~Takes(stack[n - 1], v) => verdict' = "error"
             /\ n > 1 /\ Takes(stack[n - 1], v) =>
                  /\ verdict' = "ok" /\ Len(stack') = n - 1
                  /\ \A i \in 1..(n - 2) : stack'[i].kind = stack[i].kind
                  /\ stack'[n - 1].kind = Turns(stack[n - 1])
  <2> HIDE DEF below, n
  <2>1. WriteValueOn(below, v) /\ IsBuilderStack(below)
    BY <1>3, <1>4, <1>7
  <2>2. /\ IsStack(below) /\ Len(below) = n - 1 /\ n \in Nat \ {0}
        /\ \A i \in 1..(n - 1) : below[i] = stack[i]
    BY <1>2, <1>7
  <2>3. (below = <<>>) <=> (n = 1)
    BY <2>2, StackEmpty
  <2>4. n > 1 => Last(below) = stack[n - 1]
    <3>1. n > 1 => below # <<>> /\ n - 1 \in 1..(n - 1)
      BY <2>2, <2>3
    <3>2. below # <<>> => Last(below) = below[Len(below)]
      BY <2>2, StackPopped
    <3> QED
      BY <2>2, <3>1, <3>2
  <2>5. /\ IsBuilderStack(stack')
        /\ below = <<>> => verdict' = "ok" /\ Len(stack') = 1 /\ stack'[1].kind = "root"
        /\ below # <<>> /\ ~Takes(Last(below), v) => verdict' = "error"
        /\ below # <<>> /\ Takes(Last(below), v) =>
             /\ verdict' = "ok" /\ Len(stack') = Len(below)
             /\ \A i \in 1..(Len(below) - 1) : stack'[i].kind = below[i].kind
             /\ stack'[Len(below)].kind = Turns(Last(below))
    BY <2>1, WriteValueOnFacts
  <2>6. ASSUME n > 1, Takes(stack[n - 1], v)
        PROVE  /\ verdict' = "ok" /\ Len(stack') = n - 1
               /\ \A i \in 1..(n - 2) : stack'[i].kind = stack[i].kind
               /\ stack'[n - 1].kind = Turns(stack[n - 1])
    <3>1. below # <<>> /\ Last(below) = stack[n - 1]
      BY <2>2, <2>3, <2>4, <2>6
    <3>2. /\ verdict' = "ok" /\ Len(stack') = Len(below)
          /\ \A i \in 1..(Len(below) - 1) : stack'[i].kind = below[i].kind
          /\ stack'[Len(below)].kind = Turns(Last(below))
      BY <2>5, <2>6, <3>1
    <3>3. \A i \in 1..(n - 2) : stack'[i].kind = stack[i].kind
      <4>1. \A i \in 1..(n - 2) : i \in 1..(Len(below) - 1) /\ i \in 1..(n - 1)
        BY <2>2
      <4> QED
        BY <2>2, <3>2, <4>1
    <3> QED
      BY <2>2, <3>1, <3>2, <3>3
  <2>7. n > 1 /\ ~Takes(stack[n - 1], v) => verdict' = "error"
    BY <2>2, <2>3, <2>4, <2>5
  <2>8. n = 1 => verdict' = "ok" /\ Len(stack') = 1 /\ stack'[1].kind = "root"
    BY <2>3, <2>5
  <2> QED
    BY <2>5, <2>6, <2>7, <2>8
<1>8. IsBuilderStack(stack') /\ verdict' \in {"ok", "error"}
  <2>1. n = 1 \/ n > 1 \/ stack = <<>>
    <3> HIDE DEF n
    <3> QED
      BY <1>1
  <2> QED
    BY <1>5, <1>7, <2>1
<1>9. F.legal /\ ~Sink!Complete(F) /\ Sink!LegalIn(F.stack, e) =>
        G.legal /\ G.begun /\ G.stack = Front(F.stack)
  <2>1. Sink!AfterIn(F.stack, e) = Front(F.stack)
    BY <1>0 DEF Sink!AfterIn, Front
  <2> QED
    BY <2>1, FollowFacts
<1>10. ~(F.legal /\ ~Sink!Complete(F) /\ Sink!LegalIn(F.stack, e)) =>
         ~G.legal /\ ~Sink!Complete(G)
  BY FollowFacts
<1> HIDE DEF n, below, G
<1>11. CASE ~F.legal
  <2>1. ~G.legal /\ ~Sink!Complete(G) /\ Doomed(stack)
    BY <1>10, <1>11 DEF Tracks
  <2>2. PICK d \in 1..(n - 1) : stack[d].kind \in {"root", "dict"}
    BY <2>1 DEF Doomed, n
  <2>3. verdict' = "ok" => Doomed(stack')
    <3> SUFFICES ASSUME verdict' = "ok"
                 PROVE  Doomed(stack')
      OBVIOUS
    <3>1. stack # <<>> /\ Closable(stack[n]) /\ n > 1
      BY <1>1, <1>5, <2>2
    <3>2. Takes(stack[n - 1], v)
      BY <1>7, <3>1
    <3>3. d # n - 1
      BY <1>6, <2>2, <3>1, <3>2 DEF Takes
    <3>4. d \in 1..(n - 2) /\ Len(stack') = n - 1 /\ stack'[d].kind = stack[d].kind
      BY <1>1, <1>7, <2>2, <3>1, <3>2, <3>3
    <3>5. d \in 1..(Len(stack') - 1)
      BY <1>1, <3>4
    <3> QED
      BY <2>2, <3>4, <3>5 DEF Doomed
  <2> QED
    BY <1>8, <2>1, <2>3 DEF Tracks, G
<1>12. CASE F.legal /\ (F.stack = <<>> \/ ~F.begun)
  <2>1. F.stack = <<>>
    BY <1>12 DEF Tracks
  <2>2. ~Sink!LegalIn(F.stack, e)
    BY <1>0, <2>1 DEF Sink!LegalIn
  <2>3. ~G.legal /\ ~Sink!Complete(G)
    BY <1>10, <2>2
  <2>4. verdict' = "error"
    <3>1. CASE ~F.begun
      BY <1>5, <1>12, <3>1 DEF Tracks
    <3>2. CASE F.begun
      <4>1. n = 1 /\ stack[1].kind = "root"
        BY <1>12, <2>1, <3>2 DEF Tracks, Follows, n
      <4> QED
        BY <1>5, <4>1 DEF Closable
    <3> QED
      BY <3>1, <3>2
  <2> QED
    BY <1>8, <2>3, <2>4 DEF G
<1>13. CASE F.legal /\ F.begun /\ F.stack # <<>>
  <2> DEFINE st == F.stack
             u == Front(st)
  <2>1. st \in Seq(Expected) /\ st # <<>> /\ Follows(st, stack)
    BY <1>13 DEF Tracks
  <2>2. /\ Len(st) = n /\ \A i \in 1..(n - 1) : Waits(st[i], stack[i].kind)
        /\ Expects(st[n], stack[n].kind)
    BY <2>1 DEF Follows, n
  <2>3. /\ u \in Seq(Expected) /\ Len(u) = n - 1 /\ n \in Nat \ {0}
        /\ \A i \in 1..(n - 1) : u[i] = st[i]
    BY <2>1, <2>2, FrontLast
  <2>4. stack # <<>> /\ ((u = <<>>) <=> (n = 1))
    BY <1>1, <2>3, EmptyIffZero
  <2>5. Sink!LegalIn(st, e) <=> st[n] # "value"
    BY <1>0, <2>1, <2>2 DEF Sink!LegalIn, Sink!Innermost
  <2>6. Closable(stack[n]) <=> st[n] # "value"
    BY <2>2 DEF Closable, Expects
  <2> HIDE DEF u
  <2>7. CASE st[n] = "value"
    <3>1. ~G.legal /\ ~Sink!Complete(G)
      BY <1>10, <2>5, <2>7
    <3>2. verdict' = "error"
      BY <1>5, <2>6, <2>7
    <3> QED
      BY <1>8, <3>1, <3>2 DEF G
  <2>8. CASE st[n] # "value"
    <3>1. G.legal /\ G.begun /\ G.stack = u
      BY <1>9, <1>13, <2>5, <2>8 DEF Sink!Complete, u
    <3>2. Closable(stack[n])
      BY <2>6, <2>8
    <3>3. CASE n = 1
      <4>1. verdict' = "ok" /\ Follows(u, stack')
        BY <1>7, <2>4, <3>2, <3>3 DEF Follows
      <4> QED
        BY <1>8, <2>3, <3>1, <4>1 DEF Tracks, G
    <3>4. CASE n # 1
      <4>1. n > 1 /\ n - 1 \in 1..(n - 1)
        BY <2>3, <3>4
      <4>2. Waits(st[n - 1], stack[n - 1].kind) /\ u[n - 1] = st[n - 1]
        BY <2>2, <2>3, <4>1
      <4>3. Takes(stack[n - 1], v)
        BY <4>2 DEF Takes, Waits
      <4>4. /\ verdict' = "ok" /\ Len(stack') = n - 1
            /\ \A i \in 1..(n - 2) : stack'[i].kind = stack[i].kind
            /\ stack'[n - 1].kind = Turns(stack[n - 1])
        BY <1>7, <2>4, <3>2, <4>1, <4>3
      <4>5. Expects(u[n - 1], stack'[n - 1].kind)
        BY <4>2, <4>4 DEF Waits, Expects, Turns
      <4>6. \A i \in 1..(n - 2) : Waits(u[i], stack'[i].kind)
        <5>1. \A i \in 1..(n - 2) : i \in 1..(n - 1)
          BY <2>3
        <5> QED
          BY <2>2, <2>3, <4>4, <5>1
      <4>7. Follows(u, stack')
        <5>1. (n - 1) - 1 = n - 2
          BY <2>3
        <5> QED
          BY <2>3, <2>4, <3>4, <4>4, <4>5, <4>6, <5>1 DEF Follows
      <4> QED
        BY <1>8, <2>3, <3>1, <4>4, <4>7 DEF Tracks, G
    <3> QED
      BY <3>3, <3>4
  <2> QED
    BY <2>7, <2>8
<1> QED
  BY <1>11, <1>12, <1>13

(***************************************************************************)
(* The invariant is inductive.                                             *)
(***************************************************************************)
(* Every call. *)
LEMMA WriteKeeps ==
  ASSUME BuilderInv, NEW e \in Calls, Write(e)
  PROVE  BuilderInv'
<1>1. PICK g : IsReading(input, g) /\ Reads(g[Len(input)])
  BY DEF BuilderInv
<1>a. PICK F : F = g[Len(input)]
  OBVIOUS
<1>b. PICK G : G = Sink!Follow(F, e)
  OBVIOUS
<1>2. input \in Seq(Calls) /\ IsBuilderStack(stack)
  BY DEF BuilderInv
<1>3. /\ verdict = "ok" /\ result = <<>> /\ input' = Append(input, e) /\ result' = <<>>
  BY DEF Write, WriteStartCollection, WriteEndCollection, WriteValue, Call
<1>4. IsState(F) /\ Tracks(F, stack)
  BY <1>a, <1>1, <1>3 DEF Reads
<1>5. PICK f : IsReading(input', f) /\ f[Len(input) + 1] = G
  BY <1>a, <1>b, <1>1, <1>2, <1>3, ReadingGoesOn
<1>6. input' \in Seq(Calls) /\ Len(input') = Len(input) + 1
  BY <1>2, <1>3, AppendFacts
<1>7. IsState(G)
  BY <1>b, <1>4, FollowFacts
<1>8. /\ IsBuilderStack(stack') /\ verdict' \in {"ok", "error"}
      /\ verdict' = "ok" => Tracks(G, stack')
      /\ verdict' = "error" => ~Sink!Complete(G)
  <2>1. CASE WriteStartCollection(e)
    <3>1. /\ e.kind \in {"array", "dict"} /\ stack' = Append(stack, Item(e.kind, <<>>))
          /\ verdict' = "ok"
      BY <1>3, <2>1 DEF WriteStartCollection
    <3> QED
      BY <1>b, <1>2, <1>4, <3>1, StartTracks
  <2>2. CASE WriteEndCollection(e)
    BY <1>b, <1>2, <1>3, <1>4, <2>2, EndTracks
  <2>3. CASE WriteValue(e)
    <3>1. e.kind = "value" /\ WriteValueOn(stack, Leaf(e.arg))
      BY <2>3 DEF WriteValue
    <3> QED
      BY <1>b, <1>2, <1>3, <1>4, <3>1, ValueTracks
  <2> QED
    BY <2>1, <2>2, <2>3 DEF Write
<1>9. Reads(G)'
  BY <1>3, <1>7, <1>8 DEF Reads
<1>10. IsReading(input', f) /\ f[Len(input')] = G
  BY <1>5, <1>6
<1> QED
  BY <1>6, <1>8, <1>9, <1>10 DEF BuilderInv, IsReading, Reads

(* finish *)
LEMMA FinishKeeps ==
  ASSUME BuilderInv, Finish
  PROVE  BuilderInv'
<1>1. PICK g : IsReading(input, g) /\ Reads(g[Len(input)])
  BY DEF BuilderInv
<1>a. PICK F : F = g[Len(input)]
  OBVIOUS
<1>2. verdict = "ok" /\ result = <<>> /\ input' = input /\ IsBuilderStack(stack)
  BY DEF Finish, BuilderInv
<1>3. IsState(F) /\ Tracks(F, stack)
  BY <1>a, <1>1, <1>2 DEF Reads
<1>4. stack # <<>> =>
        /\ IsStack(Front(stack)) /\ Len(Front(stack)) = Len(stack) - 1 /\ Len(stack) \in Nat \ {0}
        /\ \A i \in 1..(Len(stack) - 1) : Front(stack)[i] = stack[i]
        /\ Last(stack) = stack[Len(stack)]
  BY <1>2, StackPopped DEF IsBuilderStack
<1>5. IsBuilderStack(stack')
  <2>1. CASE stack = <<>>
    <3>1. stack' = stack
      BY <2>1 DEF Finish
    <3> QED
      BY <1>2, <3>1
  <2>2. CASE stack # <<>>
    <3> DEFINE f == Front(stack)
    <3>1. stack' = f
      BY <2>2 DEF Finish
    <3>2. IsStack(f) /\ Len(f) = Len(stack) - 1 /\ Len(stack) \in Nat \ {0}
          /\ \A i \in 1..(Len(stack) - 1) : f[i] = stack[i]
      BY <1>4, <2>2
    <3> HIDE DEF f
    <3>3. IsBuilderStack(f)
      BY <1>2, <3>2 DEF IsBuilderStack
    <3> QED
      BY <3>1, <3>3
  <2> QED
    BY <2>1, <2>2
<1>6. CASE stack # <<>> /\ Last(stack).kind = "root"
  <2>1. stack[Len(stack)].kind = "root" /\ Len(stack) \in 1..Len(stack)
    BY <1>4, <1>6
  <2>2. Len(stack) = 1 /\ stack[1].items # <<>>
    BY <1>2, <2>1 DEF IsBuilderStack, IsStackItem
  <2>3. F.legal
    BY <1>3, <2>2 DEF Tracks, Doomed
  <2>4. F.begun /\ F.stack = <<>>
    <3>1. F.begun
      BY <1>3, <1>6, <2>3 DEF Tracks
    <3>2. F.stack # <<>> => FALSE
      <4> SUFFICES ASSUME F.stack # <<>>
                   PROVE  FALSE
        OBVIOUS
      <4>1. Expects(F.stack[Len(F.stack)], stack[Len(stack)].kind)
        BY <1>3, <2>3, <3>1 DEF Tracks, Follows
      <4> QED
        BY <2>1, <4>1 DEF Expects
    <3> QED
      BY <3>1, <3>2
  <2>5. Sink!Complete(F) /\ result' # <<>> /\ verdict' = "ok"
    BY <1>2, <1>4, <1>6, <2>1, <2>2, <2>3, <2>4 DEF Finish, Sink!Complete
  <2>6. Reads(F)'
    BY <1>3, <2>5 DEF Reads
  <2> QED
    BY <1>a, <1>1, <1>2, <1>5, <2>5, <2>6 DEF BuilderInv, IsReading, Reads
<1>7. CASE ~(stack # <<>> /\ Last(stack).kind = "root")
  <2>1. verdict' = "error" /\ result' = <<>>
    BY <1>2, <1>7 DEF Finish
  <2>2. ~Sink!Complete(F)
    <3> SUFFICES ASSUME F.begun, F.legal, F.stack = <<>>
                 PROVE  FALSE
      BY DEF Sink!Complete
    <3>1. Len(stack) = 1 /\ stack[1].kind = "root"
      BY <1>3 DEF Tracks, Follows
    <3>2. stack # <<>>
      <4>1. IsStack(stack)
        BY <1>2 DEF IsBuilderStack
      <4>2. (stack = <<>>) <=> (Len(stack) = 0)
        BY <4>1, StackEmpty
      <4> QED
        BY <3>1, <4>2
    <3> QED
      BY <1>4, <1>7, <3>1, <3>2
  <2>3. Reads(F)'
    BY <1>3, <2>1, <2>2 DEF Reads
  <2> QED
    BY <1>a, <1>1, <1>2, <1>5, <2>1, <2>3 DEF BuilderInv, IsReading, Reads
<1> QED
  BY <1>6, <1>7

(* Every step of the builder keeps the invariant.                           *)
LEMMA NextKeepsBuilderInv == BuilderInv /\ [Next]_vars => BuilderInv'
<1> SUFFICES ASSUME BuilderInv, [Next]_vars
             PROVE  BuilderInv'
  OBVIOUS
<1>1. CASE \E e \in Calls : Write(e)
  BY <1>1, WriteKeeps
<1>2. CASE Finish
  BY <1>2, FinishKeeps
<1>3. CASE UNCHANGED vars
  BY <1>3 DEF vars, BuilderInv, IsReading, Reads, IsBuilderStack, Tracks, Doomed, Follows
<1> QED
  BY <1>1, <1>2, <1>3 DEF Next, Stopped

(***************************************************************************)
(* The theorems.                                                           *)
(***************************************************************************)

(* The stack has a root only at the bottom, keys that are strings, and      *)
(* dictionaries in which no key comes twice, whatever the calls are.        *)
THEOREM StackWellFormed == Spec => []TypeOK
<1>1. BuilderInv => TypeOK
  <2> SUFFICES ASSUME BuilderInv
               PROVE  TypeOK
    OBVIOUS
  <2>1. ASSUME NEW d \in 1..Len(stack)
        PROVE  /\ stack[d].kind \in {"root", "array", "dict", "dictkey"}
               /\ stack[d].key \in IF stack[d].kind = "dictkey" THEN Strings ELSE {NoKey}
               /\ stack[d].kind = "root" => d = 1
               /\ stack[d].kind \in {"dict", "dictkey"} =>
                    \A i, j \in 1..Len(stack[d].items) :
                      stack[d].items[i].key = stack[d].items[j].key => i = j
    <3>1. IsStackItem(stack[d]) /\ (stack[d].kind = "root" => d = 1)
      BY DEF BuilderInv, IsBuilderStack
    <3> QED
      BY <3>1 DEF IsStackItem, AreEntries
  <2> QED
    BY <2>1 DEF BuilderInv, TypeOK
<1> QED
  BY <1>1, InitBuilderInv, NextKeepsBuilderInv, PTL DEF Spec

(* A start is accepted anywhere and only found out when its collection is   *)
(* put into what is below it; finish has a Value all the same only for      *)
(* calls that are one whole plist, and an error only for those that are not *)
(* (Builder::write_* and finish in value.rs).                               *)
THEOREM FinishesOnlyWhole == Spec => []FinishesWhole
<1>1. BuilderInv => FinishesWhole
  <2> SUFFICES ASSUME BuilderInv
               PROVE  FinishesWhole
    OBVIOUS
  <2>1. PICK g : IsReading(input, g) /\ Reads(g[Len(input)])
    BY DEF BuilderInv
  <2>2. Sink!WholePlist(input) <=> Sink!Complete(g[Len(input)])
    BY <2>1, ReadingDecides DEF BuilderInv
  <2> QED
    BY <2>1, <2>2 DEF Reads, FinishesWhole
<1> QED
  BY <1>1, InitBuilderInv, NextKeepsBuilderInv, PTL DEF Spec

=============================================================================
