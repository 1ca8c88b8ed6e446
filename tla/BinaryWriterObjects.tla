------------------------- MODULE BinaryWriterObjects -------------------------
(***************************************************************************)
(* The object table that the binary writer writes is complete, and its     *)
(* buffer laid out as documented, for all values and however many calls    *)
(* are made.                                                               *)
(*                                                                         *)
(* The objects are counted before they are numbered: the number of them    *)
(* fixes the size of a reference.  So the references have to be a          *)
(* bijection from the objects that have one to the numbers below           *)
(* next_object_ref, and the positions in the offset table one from the     *)
(* references of the objects written to the positions in the file.         *)
(*                                                                         *)
(* The layout counts elements: the walk from block to block over those of  *)
(* a collection ends where the collection says.                            *)
(***************************************************************************)
EXTENDS BinaryWriterProofs, FiniteSetTheorems

(***************************************************************************)
(* The objects and their references.                                       *)
(***************************************************************************)
Collections(evs) == { q \in 1..Len(evs) : evs[q].kind = "collection" }

(* The collections and the values that have a reference.                    *)
Named(evs) == { q \in Collections(evs) : evs[q].object_ref # NoRef }
Numbered(vals) == { i \in 1..Len(vals) : vals[i].state # "unassigned" }

(* num_objects is the number of collections and of distinct values.         *)
Counted(evs) == num_objects = Cardinality(Collections(evs)) + Len(values)

(* No value is there twice.                                                 *)
Distinct == \A i, j \in 1..Len(values) : values[i].value = values[j].value => i = j

(* Every value is there for an event, or for a key that waits.              *)
Occurs(evs, i) == \E q \in 1..Len(evs) : evs[q].kind = "value" /\ evs[q].index = i
AwaitsEnd(i) == \E k \in 1..Len(dictionary_key_events) : dictionary_key_events[k] = i

Unnumbered ==
  /\ pos = 0
  /\ Counted(events)
  /\ \A i \in 1..Len(values) :
       values[i].state = "unassigned" /\ (Occurs(events, i) \/ AwaitsEnd(i))

(* The references are the numbers below n, each of one object.              *)
References(evs, vals, n) ==
  /\ Cardinality(Named(evs)) + Cardinality(Numbered(vals)) = n
  /\ \A q \in Named(evs) : evs[q].object_ref \in 0..(n - 1)
  /\ \A i \in Numbered(vals) : vals[i].ref \in 0..(n - 1)
  /\ \A q, p \in Named(evs) : evs[q].object_ref = evs[p].object_ref => q = p
  /\ \A i, j \in Numbered(vals) : vals[i].ref = vals[j].ref => i = j
  /\ \A q \in Named(evs), i \in Numbered(vals) : evs[q].object_ref # vals[i].ref
  /\ \A r \in 0..(n - 1) : \/ \E q \in Named(evs) : evs[q].object_ref = r
                           \/ \E i \in Numbered(vals) : vals[i].ref = r

(***************************************************************************)
(* The offset table of num numbers, when n of them are given and m objects *)
(* are written.                                                            *)
(***************************************************************************)
Located(table, num) == { r \in 0..(num - 1) : table[r] # 0 }

Locates(table, num, m, n) ==
  /\ table \in [0..(num - 1) -> 0..m]
  /\ Cardinality(Located(table, num)) = m
  /\ \A r, s \in Located(table, num) : table[r] = table[s] => r = s
  /\ \A r \in Located(table, num) : r < n

(* The collections before c are written, the one at c when it is begun, and *)
(* the values of which vals says so.                                        *)
LocatesWritten(table, evs, vals, c, begun) ==
  /\ \A q \in Named(evs) :
       table[evs[q].object_ref] # 0 <=> q < c \/ (q = c /\ begun)
  /\ \A i \in Numbered(vals) : table[vals[i].ref] # 0 <=> vals[i].state = "written"

(***************************************************************************)
(* What is written.                                                        *)
(***************************************************************************)
IsWritten(q) == values[todo[q].index].state = "written"

(* The positions of the keys of the dictionary at i.                        *)
KeysOfDict(i) == (ElementsEnd(todo, i) + 2)..(i + todo[i].skip)

(* What the cursor has passed is written, and so are the keys of the        *)
(* dictionaries it has passed; of the one at hand, those that do not wait.  *)
Done ==
  /\ \A q \in 1..Len(todo) : q < cursor =>
       /\ todo[q].kind = "value" => IsWritten(q)
       /\ todo[q].kind = "collection" =>
            q \in Named(todo) /\ \A p \in KeysOfDict(q) : IsWritten(p)
  /\ pc = "keys" => \A p \in KeysOfDict(cursor) :
                      IsWritten(p) \/ \E k \in 1..Len(pending) : pending[k] = p

(* The objects refer to numbers below n, and a value is there once.         *)
Contents(objects, vals, n) ==
  /\ \A i \in 1..Len(objects) : \A k \in 1..Len(objects[i].refs) : objects[i].refs[k] < n
  /\ \A i \in 1..Len(objects) : objects[i].kind = "value" =>
       \E v \in 1..Len(vals) :
         vals[v].state = "written" /\ objects[i].value = vals[v].value
  /\ \A i, j \in 1..Len(objects) :
       objects[i].kind = "value" /\ objects[j] = objects[i] => i = j

Tabled ==
  /\ Counted(todo)
  /\ \A i \in 1..Len(values) : Occurs(todo, i)
  /\ References(todo, values, next_object_ref)
  /\ pos = Len(file) + 1
  /\ Locates(offset_table, num_objects, Len(file), next_object_ref)
  /\ LocatesWritten(offset_table, todo, values, cursor, pc # "objects")
  /\ Done
  /\ Contents(file, values, next_object_ref)
  /\ pc = "refs" => file # <<>> /\ file[Len(file)].kind # "value"

(***************************************************************************)
(* The inductive invariant.                                                *)
(***************************************************************************)
OInv ==
  /\ WInv
  /\ Distinct
  /\ pc \in {"idle", "header"} => Unnumbered
  /\ Writing => Tabled

(***************************************************************************)
(* Counting.                                                               *)
(***************************************************************************)
(* A set of positions is finite.                                            *)
LEMMA PositionsFinite ==
  ASSUME NEW n \in Nat, NEW S, S \subseteq 1..n
  PROVE  IsFiniteSet(S) /\ Cardinality(S) \in Nat /\ Cardinality(S) <= n
<1>1. IsFiniteSet(1..n) /\ Cardinality(1..n) = n
  <2>1. IsFiniteSet(1..n) /\ Cardinality(1..n) = IF 1 > n THEN 0 ELSE n - 1 + 1
    BY FS_Interval
  <2> QED
    BY <2>1
<1>2. S \in SUBSET (1..n)
  OBVIOUS
<1>3. IsFiniteSet(S) /\ Cardinality(S) <= Cardinality(1..n)
  BY <1>1, <1>2, FS_Subset
<1> QED
  BY <1>1, <1>3, FS_CardinalityType

(* One more in a set of positions.                                          *)
LEMMA OneMore ==
  ASSUME NEW n \in Nat, NEW S, S \subseteq 1..n, NEW x, x \notin S, NEW T, T = S \cup {x}
  PROVE  Cardinality(T) = Cardinality(S) + 1
<1>1. IsFiniteSet(S)
  BY PositionsFinite
<1> QED
  BY <1>1, FS_AddElement

(* One more of the one kind or of the other.                                *)
LEMMA OneMoreOfBoth ==
  ASSUME NEW a \in Nat, NEW b \in Nat, NEW n, a + b = n
  PROVE  (a + 1) + b = n + 1 /\ a + (b + 1) = n + 1
  OBVIOUS

(* The collections and values that have a reference are among those there   *)
(* are.                                                                     *)
LEMMA NamesFacts ==
  ASSUME NEW evs, Len(evs) \in Nat, NEW vals, Len(vals) \in Nat
  PROVE  /\ Collections(evs) \subseteq 1..Len(evs) /\ Named(evs) \subseteq 1..Len(evs)
         /\ Numbered(vals) \subseteq 1..Len(vals)
         /\ Cardinality(Collections(evs)) \in Nat /\ Cardinality(Named(evs)) \in Nat
         /\ Cardinality(Numbered(vals)) \in Nat
         /\ Cardinality(Named(evs)) <= Cardinality(Collections(evs))
         /\ Cardinality(Numbered(vals)) <= Len(vals)
<1>1. /\ Collections(evs) \subseteq 1..Len(evs) /\ Named(evs) \subseteq 1..Len(evs)
      /\ Numbered(vals) \subseteq 1..Len(vals) /\ Named(evs) \subseteq Collections(evs)
  BY DEF Collections, Named, Numbered
<1>2. /\ IsFiniteSet(Collections(evs)) /\ Cardinality(Collections(evs)) \in Nat
      /\ Cardinality(Named(evs)) \in Nat
      /\ Cardinality(Numbered(vals)) \in Nat /\ Cardinality(Numbered(vals)) <= Len(vals)
  BY <1>1, PositionsFinite
<1>3. Cardinality(Named(evs)) <= Cardinality(Collections(evs))
  <2>1. Named(evs) \in SUBSET Collections(evs)
    BY <1>1
  <2> QED
    BY <1>2, <2>1, FS_Subset
<1> QED
  BY <1>1, <1>2, <1>3

(* There are no more references than objects.                               *)
LEMMA NoMoreReferences ==
  ASSUME NEW evs, Len(evs) \in Nat, NEW vals, Len(vals) \in Nat, NEW n,
         References(evs, vals, n), NEW num, num = Cardinality(Collections(evs)) + Len(vals)
  PROVE  n \in Nat /\ num \in Nat /\ n <= num
<1>1. /\ Cardinality(Collections(evs)) \in Nat /\ Cardinality(Named(evs)) \in Nat
      /\ Cardinality(Numbered(vals)) \in Nat
      /\ Cardinality(Named(evs)) <= Cardinality(Collections(evs))
      /\ Cardinality(Numbered(vals)) <= Len(vals)
  BY NamesFacts
<1> QED
  BY <1>1 DEF References

(* When every object has a reference there are as many.                     *)
LEMMA AsManyReferences ==
  ASSUME NEW evs, Len(evs) \in Nat, NEW vals, Len(vals) \in Nat, NEW n,
         References(evs, vals, n), Named(evs) = Collections(evs),
         Numbered(vals) = 1..Len(vals)
  PROVE  n = Cardinality(Collections(evs)) + Len(vals)
<1>1. Cardinality(Numbered(vals)) = Len(vals)
  <2> DEFINE m == Len(vals)
  <2>1. 1 \in Int /\ m \in Int /\ m \in Nat
    OBVIOUS
  <2> HIDE DEF m
  <2>2. Cardinality(1..m) = IF 1 > m THEN 0 ELSE m - 1 + 1
    BY <2>1, FS_Interval, Zenon
  <2> QED
    BY <2>1, <2>2 DEF m
<1> QED
  BY <1>1 DEF References

(***************************************************************************)
(* A reference is given.                                                   *)
(***************************************************************************)
(* The collection at h gets the next reference.                             *)
LEMMA CollectionNumbered ==
  ASSUME NEW k \in Nat, NEW evs \in Seq(EventsFor(k)), NEW evs2, NEW vals, Len(vals) \in Nat,
         NEW n \in Nat, NEW m, m = n + 1, References(evs, vals, n), NEW h \in 1..Len(evs),
         evs[h].kind = "collection", h \notin Named(evs),
         SameShape(evs, evs2), \A q \in 1..Len(evs) : q # h => evs2[q] = evs[q],
         evs2[h].object_ref = n
  PROVE  /\ References(evs2, vals, m) /\ Named(evs2) = Named(evs) \cup {h}
         /\ Collections(evs2) = Collections(evs)
         /\ \A q \in Named(evs) : evs2[q] = evs[q]
<1>1. Len(evs) \in Nat /\ Len(evs2) = Len(evs)
  BY DEF SameShape
<1>2. Collections(evs2) = Collections(evs)
  BY <1>1 DEF SameShape, Collections
<1>3. Named(evs2) = Named(evs) \cup {h}
  BY <1>1, <1>2 DEF Named, NoRef, Collections
<1>4. \A q \in Named(evs) : evs2[q] = evs[q] /\ q # h
  BY <1>1 DEF Named, Collections
<1>5. Cardinality(Named(evs2)) = Cardinality(Named(evs)) + 1
  BY <1>1, <1>3, NamesFacts, OneMore
<1>6. Cardinality(Named(evs)) \in Nat /\ Cardinality(Numbered(vals)) \in Nat
  BY <1>1, NamesFacts
<1> DEFINE N == Named(evs)
           M == Numbered(vals)
<1>7. Named(evs2) = N \cup {h}
  BY <1>3
<1>8. /\ Cardinality(N) + Cardinality(M) = n
      /\ \A q \in N : evs[q].object_ref \in 0..(n - 1)
      /\ \A i \in M : vals[i].ref \in 0..(n - 1)
      /\ \A q, p \in N : evs[q].object_ref = evs[p].object_ref => q = p
      /\ \A i, j \in M : vals[i].ref = vals[j].ref => i = j
      /\ \A q \in N, i \in M : evs[q].object_ref # vals[i].ref
      /\ \A r \in 0..(n - 1) : \/ \E q \in N : evs[q].object_ref = r
                               \/ \E i \in M : vals[i].ref = r
  BY DEF References
<1>9. Cardinality(Named(evs2)) + Cardinality(M) = m
  <2>1. Cardinality(Named(evs)) + Cardinality(Numbered(vals)) = n
    BY DEF References
  <2> QED
    BY <1>5, <1>6, <2>1
<1> HIDE DEF N, M
<1>10. \A q \in N : evs2[q] = evs[q]
  BY <1>4 DEF N
<1>11. /\ \A q \in Named(evs2) : evs2[q].object_ref \in 0..(m - 1)
       /\ \A i \in M : vals[i].ref \in 0..(m - 1)
  BY <1>7, <1>8, <1>10
<1>12. \A q, p \in Named(evs2) : evs2[q].object_ref = evs2[p].object_ref => q = p
  <2> TAKE q, p \in Named(evs2)
  <2>1. \A x \in N : evs2[x].object_ref # n /\ evs2[x].object_ref = evs[x].object_ref
    BY <1>8, <1>10
  <2> QED
    BY <1>7, <1>8, <2>1
<1>13. \A q \in Named(evs2), i \in M : evs2[q].object_ref # vals[i].ref
  <2> TAKE q \in Named(evs2), i \in M
  <2>1. vals[i].ref # n
    BY <1>8
  <2> QED
    BY <1>7, <1>8, <1>10, <2>1
<1>14. \A r \in 0..(m - 1) : \/ \E q \in Named(evs2) : evs2[q].object_ref = r
                       \/ \E i \in M : vals[i].ref = r
  <2> TAKE r \in 0..(m - 1)
  <2>1. CASE r = n
    BY <1>7, <2>1
  <2>2. CASE r # n
    <3>1. r \in 0..(n - 1)
      BY <2>2
    <3> QED
      BY <1>7, <1>8, <1>10, <3>1
  <2> QED
    BY <2>1, <2>2
<1>16. \A i, j \in M : vals[i].ref = vals[j].ref => i = j
  BY <1>8
<1>17. References(evs2, vals, m)
  BY <1>9, <1>11, <1>12, <1>13, <1>14, <1>16, Zenon DEF References, M
<1> QED
  BY <1>2, <1>3, <1>4, <1>17

(* The value i gets the next reference.                                     *)
LEMMA ValueNumbered ==
  ASSUME NEW evs, Len(evs) \in Nat, NEW vals, Len(vals) \in Nat, NEW vals2,
         NEW n \in Nat, NEW m, m = n + 1, References(evs, vals, n), NEW i \in 1..Len(vals),
         vals[i].state = "unassigned", Len(vals2) = Len(vals),
         \A j \in 1..Len(vals) : j # i => vals2[j] = vals[j],
         vals2[i].state = "unwritten", vals2[i].ref = n
  PROVE  /\ References(evs, vals2, m) /\ Numbered(vals2) = Numbered(vals) \cup {i}
         /\ \A j \in Numbered(vals) : vals2[j] = vals[j]
<1>1. Numbered(vals2) = Numbered(vals) \cup {i} /\ i \notin Numbered(vals)
  BY DEF Numbered
<1>2. \A j \in Numbered(vals) : vals2[j] = vals[j] /\ j # i
  BY <1>1 DEF Numbered
<1>3. Cardinality(Numbered(vals2)) = Cardinality(Numbered(vals)) + 1
  BY <1>1, NamesFacts, OneMore
<1>4. Cardinality(Named(evs)) \in Nat /\ Cardinality(Numbered(vals)) \in Nat
  BY NamesFacts
<1> DEFINE N == Named(evs)
           M == Numbered(vals)
<1>5. Numbered(vals2) = M \cup {i}
  BY <1>1
<1>6. /\ Cardinality(N) + Cardinality(M) = n
      /\ \A q \in N : evs[q].object_ref \in 0..(n - 1)
      /\ \A j \in M : vals[j].ref \in 0..(n - 1)
      /\ \A q, p \in N : evs[q].object_ref = evs[p].object_ref => q = p
      /\ \A j, l \in M : vals[j].ref = vals[l].ref => j = l
      /\ \A q \in N, j \in M : evs[q].object_ref # vals[j].ref
      /\ \A r \in 0..(n - 1) : \/ \E q \in N : evs[q].object_ref = r
                               \/ \E j \in M : vals[j].ref = r
  BY DEF References
<1>7. Cardinality(Named(evs)) + Cardinality(Numbered(vals2)) = m
  <2>1. Cardinality(Named(evs)) + Cardinality(Numbered(vals)) = n
    BY DEF References
  <2> QED
    BY <1>3, <1>4, <2>1, OneMoreOfBoth
<1> HIDE DEF N, M
<1>8. \A j \in M : vals2[j] = vals[j]
  BY <1>2 DEF M
<1>9. /\ \A q \in N : evs[q].object_ref \in 0..(m - 1)
      /\ \A j \in Numbered(vals2) : vals2[j].ref \in 0..(m - 1)
  BY <1>5, <1>6, <1>8
<1>10. \A j, l \in Numbered(vals2) : vals2[j].ref = vals2[l].ref => j = l
  <2> TAKE j, l \in Numbered(vals2)
  <2>1. \A x \in M : vals2[x].ref # n /\ vals2[x].ref = vals[x].ref
    BY <1>6, <1>8
  <2> QED
    BY <1>5, <1>6, <2>1
<1>11. \A q \in N, j \in Numbered(vals2) : evs[q].object_ref # vals2[j].ref
  <2> TAKE q \in N, j \in Numbered(vals2)
  <2>1. evs[q].object_ref # n
    BY <1>6
  <2> QED
    BY <1>5, <1>6, <1>8, <2>1
<1>12. \A r \in 0..(m - 1) : \/ \E q \in N : evs[q].object_ref = r
                       \/ \E j \in Numbered(vals2) : vals2[j].ref = r
  <2> TAKE r \in 0..(m - 1)
  <2>1. CASE r = n
    BY <1>5, <2>1
  <2>2. CASE r # n
    <3>1. r \in 0..(n - 1)
      BY <2>2
    <3>2. (\E q \in N : evs[q].object_ref = r) \/ (\E j \in M : vals[j].ref = r)
      BY <1>6, <3>1
    <3>3. ASSUME NEW j \in M, vals[j].ref = r
          PROVE  \E l \in Numbered(vals2) : vals2[l].ref = r
      <4>1. j \in Numbered(vals2) /\ vals2[j].ref = r
        BY <1>5, <1>8, <3>3
      <4> QED
        BY <4>1
    <3> QED
      BY <3>2, <3>3, Zenon
  <2> QED
    BY <2>1, <2>2
<1>14. \A q, p \in N : evs[q].object_ref = evs[p].object_ref => q = p
  BY <1>6
<1>15. References(evs, vals2, m)
  BY <1>7, <1>9, <1>10, <1>11, <1>12, <1>14, Zenon DEF References, N
<1> QED
  BY <1>1, <1>2, <1>15

(* It makes no difference to the references whether a value is written.     *)
LEMMA ReferencesStay ==
  ASSUME NEW evs, NEW vals, NEW vals2, NEW n, References(evs, vals, n),
         Len(vals2) = Len(vals), Numbered(vals2) = Numbered(vals),
         \A j \in Numbered(vals) : vals2[j].ref = vals[j].ref
  PROVE  References(evs, vals2, n)
  BY DEF References

(***************************************************************************)
(* An object is written.                                                   *)
(***************************************************************************)
(* The offset of reference r is recorded: that of the object written next.  *)
IsRecorded(table, table2, r, m) == table2 = [table EXCEPT ![r] = m + 1]

LEMMA OffsetRecorded ==
  ASSUME NEW num \in Nat, NEW m \in Nat, NEW n \in Nat, n <= num, NEW table, NEW table2,
         Locates(table, num, m, n), NEW r \in 0..(n - 1), table[r] = 0,
         IsRecorded(table, table2, r, m), NEW m2, m2 = m + 1
  PROVE  /\ Locates(table2, num, m2, n)
         /\ table2[r] # 0 /\ \A s \in 0..(num - 1) : s # r => table2[s] = table[s]
<1> DEFINE N == 0..(num - 1)
<1>1. r \in N /\ table \in [N -> 0..m]
  BY DEF Locates
<1>2. table2[r] = m + 1 /\ \A s \in N : s # r => table2[s] = table[s]
  BY <1>1 DEF IsRecorded
<1>3. table2 \in [N -> 0..m2]
  <2>1. table2 \in [N -> 0..(m + 1)]
    BY <1>1 DEF IsRecorded
  <2> QED
    BY <2>1
<1>4. Located(table2, num) = Located(table, num) \cup {r} /\ r \notin Located(table, num)
  <2> HIDE DEF N
  <2>1. Located(table2, num) = { s \in N : table2[s] # 0 }
    BY DEF Located, N
  <2>2. Located(table, num) = { s \in N : table[s] # 0 }
    BY DEF Located, N
  <2>3. m + 1 # 0
    OBVIOUS
  <2> QED
    BY <1>1, <1>2, <2>1, <2>2, <2>3
<1>5. Cardinality(Located(table2, num)) = m2
  <2>1. IsFiniteSet(Located(table, num))
    <3>1. IsFiniteSet(0..(num - 1))
      BY FS_Interval
    <3>2. Located(table, num) \in SUBSET (0..(num - 1))
      BY DEF Located
    <3> QED
      BY <3>1, <3>2, FS_Subset
  <2>2. Cardinality(Located(table, num)) = m
    BY DEF Locates
  <2> QED
    BY <1>4, <2>1, <2>2, FS_AddElement
<1>6. \A s \in Located(table, num) : s \in N /\ table[s] \in 0..m /\ s < n /\ s # r
  BY <1>1, <1>4 DEF Locates, Located
<1>7. \A s, t \in Located(table2, num) : table2[s] = table2[t] => s = t
  <2> TAKE s, t \in Located(table2, num)
  <2>1. \A x \in Located(table, num) : table2[x] = table[x] /\ table2[x] # m + 1
    BY <1>2, <1>6
  <2>2. \A x, y \in Located(table, num) : table[x] = table[y] => x = y
    BY DEF Locates
  <2> QED
    BY <1>2, <1>4, <2>1, <2>2
<1>8. \A s \in Located(table2, num) : s < n
  BY <1>4, <1>6
<1>9. Locates(table2, num, m2, n)
  BY <1>3, <1>5, <1>7, <1>8 DEF Locates
<1> QED
  BY <1>2, <1>9

(* A reference more is given, and nothing is there for it yet.              *)
LEMMA LocatesMore ==
  ASSUME NEW num \in Nat, NEW m, NEW n \in Nat, NEW table, NEW n2, n2 = n + 1, n2 <= num,
         Locates(table, num, m, n)
  PROVE  Locates(table, num, m, n2) /\ table[n] = 0
<1>1. \A r \in Located(table, num) : r \in Nat /\ r < n
  BY DEF Locates, Located
<1>2. Locates(table, num, m, n2)
  BY <1>1 DEF Locates
<1>3. table[n] = 0
  <2>1. n \in 0..(num - 1) /\ ~(n < n)
    OBVIOUS
  <2> QED
    BY <1>1, <2>1 DEF Located
<1> QED
  BY <1>2, <1>3

(* The collection at c is begun.                                            *)
LEMMA CollectionLocated ==
  ASSUME NEW evs, NEW vals, NEW table, NEW table2, NEW n \in Nat, NEW num \in Nat, n <= num,
         References(evs, vals, n), NEW c \in Nat, c \in Named(evs),
         LocatesWritten(table, evs, vals, c, FALSE),
         table2[evs[c].object_ref] # 0,
         \A s \in 0..(num - 1) : s # evs[c].object_ref => table2[s] = table[s],
         \A q \in Named(evs) : q \in Nat
  PROVE  LocatesWritten(table2, evs, vals, c, TRUE)
<1>1. ASSUME NEW q \in Named(evs)
      PROVE  table2[evs[q].object_ref] # 0 <=> q < c \/ (q = c /\ TRUE)
  <2>1. CASE q = c
    BY <2>1
  <2>2. CASE q # c
    <3>1. evs[q].object_ref # evs[c].object_ref /\ evs[q].object_ref \in 0..(n - 1)
      BY <2>2 DEF References
    <3>2. table2[evs[q].object_ref] = table[evs[q].object_ref]
      BY <3>1
    <3>3. table[evs[q].object_ref] # 0 <=> q < c \/ (q = c /\ FALSE)
      BY DEF LocatesWritten
    <3> QED
      BY <2>2, <3>2, <3>3
  <2> QED
    BY <2>1, <2>2
<1>2. ASSUME NEW i \in Numbered(vals)
      PROVE  table2[vals[i].ref] # 0 <=> vals[i].state = "written"
  <2>1. vals[i].ref # evs[c].object_ref /\ vals[i].ref \in 0..(n - 1)
    BY DEF References
  <2>2. table2[vals[i].ref] = table[vals[i].ref]
    BY <2>1
  <2> QED
    BY <2>2 DEF LocatesWritten
<1> QED
  BY <1>1, <1>2 DEF LocatesWritten

(* An offset is there for reference r, and else as there was.               *)
OneMoreOffset(table, table2, r, num) ==
  table2[r] # 0 /\ \A s \in 0..(num - 1) : s # r => table2[s] = table[s]

(* The value i is written, and nothing else is changed.                     *)
OneMoreWritten(vals, vals2, i) ==
  /\ Numbered(vals2) = Numbered(vals) /\ vals2[i].state = "written"
  /\ \A j \in Numbered(vals) : /\ vals2[j].ref = vals[j].ref
                               /\ j # i => vals2[j].state = vals[j].state

(* The value i is written.                                                  *)
LEMMA ValueLocated ==
  ASSUME NEW evs, NEW vals, NEW vals2, NEW table, NEW table2, NEW n \in Nat, NEW num \in Nat,
         n <= num, References(evs, vals, n), NEW i, i \in Numbered(vals),
         NEW c, NEW begun, LocatesWritten(table, evs, vals, c, begun),
         OneMoreWritten(vals, vals2, i), OneMoreOffset(table, table2, vals[i].ref, num)
  PROVE  LocatesWritten(table2, evs, vals2, c, begun)
<1>a. /\ Numbered(vals2) = Numbered(vals) /\ vals2[i].state = "written"
      /\ \A j \in Numbered(vals) : vals2[j].ref = vals[j].ref
      /\ \A j \in Numbered(vals) : j # i => vals2[j].state = vals[j].state
  <2>1. /\ Numbered(vals2) = Numbered(vals) /\ vals2[i].state = "written"
        /\ \A j \in Numbered(vals) : /\ vals2[j].ref = vals[j].ref
                                     /\ j # i => vals2[j].state = vals[j].state
    BY Zenon DEF OneMoreWritten
  <2> QED
    BY <2>1, Zenon
<1>b. /\ table2[vals[i].ref] # 0
      /\ \A s \in 0..(num - 1) : s # vals[i].ref => table2[s] = table[s]
  BY Zenon DEF OneMoreOffset
<1>1. ASSUME NEW q \in Named(evs)
      PROVE  table2[evs[q].object_ref] # 0 <=> q < c \/ (q = c /\ begun)
  <2>1. evs[q].object_ref # vals[i].ref /\ evs[q].object_ref \in 0..(n - 1)
    BY DEF References
  <2>2. table2[evs[q].object_ref] = table[evs[q].object_ref]
    BY <1>a, <1>b, <2>1
  <2> QED
    BY <2>2, Zenon DEF LocatesWritten
<1>2. ASSUME NEW j \in Numbered(vals2)
      PROVE  table2[vals2[j].ref] # 0 <=> vals2[j].state = "written"
  <2>1. j \in Numbered(vals) /\ vals2[j].ref = vals[j].ref
    BY <1>2, <1>a
  <2>2. CASE j = i
    BY <1>a, <1>b, <2>1, <2>2
  <2>3. CASE j # i
    <3>1. vals[j].ref # vals[i].ref /\ vals[j].ref \in 0..(n - 1)
      BY <2>1, <2>3 DEF References
    <3>2. table2[vals[j].ref] = table[vals[j].ref]
      BY <1>b, <3>1
    <3>3. vals2[j].state = vals[j].state
      BY <1>a, <2>1, <2>3
    <3>4. table[vals[j].ref] # 0 <=> vals[j].state = "written"
      BY <2>1 DEF LocatesWritten
    <3> QED
      BY <2>1, <3>2, <3>3, <3>4
  <2> QED
    BY <2>2, <2>3
<1> QED
  BY <1>1, <1>2, Zenon DEF LocatesWritten

(* vals is what Assigned makes of the values.                               *)
IsAssigned(vals, i, r) ==
  /\ Len(vals) = Len(values)
  /\ \A j \in 1..Len(values) : j # i => vals[j] = values[j]
  /\ vals[i].value = values[i].value /\ vals[i].state = "unwritten" /\ vals[i].ref = r

(* What Assigned makes of the values.                                       *)
LEMMA AssignedValue ==
  ASSUME values \in Seq(ValueRecords), NEW i \in 1..Len(values), NEW r \in Nat,
         NEW vals, vals = Assigned(i, r)
  PROVE  IsAssigned(vals, i, r)
<1> DEFINE e == [[values[i] EXCEPT !.state = "unwritten"] EXCEPT !.ref = r]
<1>1. values[i] \in ValueRecords
  BY SeqElements
<1>2. e.value = values[i].value /\ e.state = "unwritten" /\ e.ref = r /\ e \in ValueRecords
  BY <1>1 DEF ValueRecords
<1>3. vals = [values EXCEPT ![i] = e]
  BY DEF Assigned
<1> HIDE DEF e
<1>4. /\ Len([values EXCEPT ![i] = e]) = Len(values)
      /\ [values EXCEPT ![i] = e][i] = e
      /\ \A j \in 1..Len(values) : j # i => [values EXCEPT ![i] = e][j] = values[j]
  BY <1>2
<1> QED
  BY <1>2, <1>3, <1>4 DEF IsAssigned

(* What Written makes of the values.                                        *)
LEMMA WrittenValue ==
  ASSUME values \in Seq(ValueRecords), NEW i \in 1..Len(values),
         NEW vals, vals = Written(i)
  PROVE  /\ Len(vals) = Len(values) /\ \A j \in 1..Len(values) : j # i => vals[j] = values[j]
         /\ vals[i].value = values[i].value /\ vals[i].state = "written"
         /\ vals[i].ref = values[i].ref
<1> DEFINE e == [values[i] EXCEPT !.state = "written"]
<1>1. values[i] \in ValueRecords
  BY SeqElements
<1>2. /\ e.value = values[i].value /\ e.state = "written" /\ e.ref = values[i].ref
      /\ e \in ValueRecords
  BY <1>1 DEF ValueRecords
<1>3. vals = [values EXCEPT ![i] = e]
  BY DEF Written
<1> HIDE DEF e
<1>4. /\ Len([values EXCEPT ![i] = e]) = Len(values)
      /\ [values EXCEPT ![i] = e][i] = e
      /\ \A j \in 1..Len(values) : j # i => [values EXCEPT ![i] = e][j] = values[j]
  BY <1>2
<1> QED
  BY <1>2, <1>3, <1>4

(* The object o is written.                                                 *)
LEMMA ContentsAppended ==
  ASSUME NEW objects \in Seq(Objects), NEW o \in Objects, o.refs = <<>>,
         NEW vals, NEW vals2, NEW n, Contents(objects, vals, n),
         Len(vals2) = Len(vals),
         \A v \in 1..Len(vals) : vals2[v].value = vals[v].value,
         \A v \in 1..Len(vals) : vals[v].state = "written" => vals2[v].state = "written",
         o.kind = "value" => \E v \in 1..Len(vals) :
           /\ vals2[v].state = "written" /\ vals[v].state # "written"
           /\ o.value = vals[v].value
           /\ \A w \in 1..Len(vals) : vals[w].value = vals[v].value => w = v
  PROVE  Contents(Append(objects, o), vals2, n)
<1> DEFINE m == Len(objects)
           f == Append(objects, o)
<1>1. /\ m \in Nat /\ Len(f) = m + 1 /\ f[m + 1] = o /\ \A i \in 1..m : f[i] = objects[i]
      /\ f \in Seq(Objects)
  BY AppendFacts
<1> HIDE DEF f
<1>2. \A i \in 1..Len(f) : i \in 1..m \/ i = m + 1
  BY <1>1
<1> HIDE DEF m
<1>3. \A i \in 1..Len(f) : \A k \in 1..Len(f[i].refs) : f[i].refs[k] < n
  <2> TAKE i \in 1..Len(f)
  <2>1. CASE i \in 1..m
    BY <1>1, <2>1 DEF Contents, m
  <2>2. CASE i = m + 1
    <3>1. Len(f[i].refs) = 0
      BY <1>1, <2>2
    <3> QED
      BY <3>1
  <2> QED
    BY <1>2, <2>1, <2>2
<1>4. \A i \in 1..m : objects[i].kind = "value" =>
        \E v \in 1..Len(vals) : vals[v].state = "written" /\ objects[i].value = vals[v].value
  BY DEF Contents, m
<1>5. ASSUME NEW i \in 1..Len(f), f[i].kind = "value"
      PROVE  \E v \in 1..Len(vals2) : vals2[v].state = "written" /\ f[i].value = vals2[v].value
  <2>1. CASE i \in 1..m
    <3>1. PICK v \in 1..Len(vals) : vals[v].state = "written" /\ objects[i].value = vals[v].value
      BY <1>1, <1>4, <1>5, <2>1
    <3> QED
      BY <1>1, <2>1, <3>1
  <2>2. CASE i = m + 1
    BY <1>1, <1>5, <2>2
  <2> QED
    BY <1>2, <2>1, <2>2
<1>6. o.kind = "value" => \A i \in 1..m : objects[i] # o
  BY <1>4
<1>7. ASSUME NEW i \in 1..Len(f), NEW j \in 1..Len(f), f[i].kind = "value", f[j] = f[i]
      PROVE  i = j
  <2>1. \A x, y \in 1..m : objects[x].kind = "value" /\ objects[y] = objects[x] => x = y
    BY DEF Contents, m
  <2> QED
    BY <1>1, <1>2, <1>6, <1>7, <2>1, SMTT(40)
<1> QED
  BY <1>3, <1>5, <1>7 DEF Contents, f

(* A reference is written in the last object, a collection.                 *)
LEMMA ContentsReferred ==
  ASSUME NEW objects \in Seq(Objects), objects # <<>>, NEW ref \in Nat,
         objects[Len(objects)].kind # "value", NEW objects2,
         objects2 = [objects EXCEPT ![Len(objects)].refs = Append(@, ref)],
         NEW vals, NEW vals2, NEW n \in Nat, NEW n2 \in Nat, n <= n2, ref < n2,
         Contents(objects, vals, n), Len(vals2) = Len(vals),
         \A v \in 1..Len(vals) : vals2[v].value = vals[v].value,
         \A v \in 1..Len(vals) : vals[v].state = "written" => vals2[v].state = "written"
  PROVE  /\ Contents(objects2, vals2, n2) /\ Len(objects2) = Len(objects)
         /\ objects2 # <<>> /\ objects2[Len(objects)].kind # "value"
<1> DEFINE m == Len(objects)
           l == objects[m]
           e == [l EXCEPT !.refs = Append(@, ref)]
<1>1. m \in Nat \ {0} /\ m \in 1..m
  BY EmptyIffZero
<1>2. l \in Objects /\ l.refs \in Seq(Nat) /\ l.kind # "value"
  <2>1. l \in Objects
    BY <1>1
  <2> QED
    BY <2>1 DEF Objects
<1>3. e.kind = l.kind /\ e.refs = Append(l.refs, ref) /\ e \in Objects
  <2>1. Append(l.refs, ref) \in Seq(Nat)
    BY <1>2, AppendFacts
  <2> DEFINE x == Append(l.refs, ref)
  <2>2. e = [l EXCEPT !.refs = x] /\ x \in Seq(Nat)
    BY <2>1
  <2> HIDE DEF e, l, x
  <2>3. e.kind = l.kind /\ e.refs = x /\ e \in Objects
    BY <1>2, <2>2 DEF Objects
  <2> QED
    BY <2>3 DEF x
<1>4. objects2 = [objects EXCEPT ![m] = e]
  OBVIOUS
<1>5. \A k \in 1..Len(l.refs) : l.refs[k] \in Nat /\ l.refs[k] < n
  <2>1. \A k \in 1..Len(l.refs) : l.refs[k] < n
    <3>1. \A i \in 1..m : \A k \in 1..Len(objects[i].refs) : objects[i].refs[k] < n
      BY DEF Contents
    <3> QED
      BY <1>1, <3>1
  <2> HIDE DEF l
  <2>2. \A k \in 1..Len(l.refs) : l.refs[k] \in Nat
    BY <1>2, SeqElements
  <2> QED
    BY <2>1, <2>2
<1>6. \A k \in 1..Len(e.refs) : e.refs[k] < n2
  <2> HIDE DEF e, l
  <2>1. /\ Len(Append(l.refs, ref)) = Len(l.refs) + 1 /\ Len(l.refs) \in Nat
        /\ Append(l.refs, ref)[Len(l.refs) + 1] = ref
        /\ \A k \in 1..Len(l.refs) : Append(l.refs, ref)[k] = l.refs[k]
    BY <1>2, AppendFacts
  <2> QED
    BY <1>3, <1>5, <2>1
<1> HIDE DEF e
<1>7. /\ [objects EXCEPT ![m] = e] \in Seq(Objects)
      /\ Len([objects EXCEPT ![m] = e]) = m
      /\ [objects EXCEPT ![m] = e][m] = e
      /\ \A i \in 1..m : i # m => [objects EXCEPT ![m] = e][i] = objects[i]
  BY <1>1, <1>3
<1>8. /\ Len(objects2) = m /\ objects2[m] = e /\ objects2 \in Seq(Objects)
      /\ \A i \in 1..m : i # m => objects2[i] = objects[i]
  BY <1>4, <1>7, Zenon
<1> HIDE DEF l, m
<1>9. e.kind # "value" /\ l.kind # "value"
  BY <1>2, <1>3
<1>10. \A i \in 1..m : \A k \in 1..Len(objects2[i].refs) : objects2[i].refs[k] < n2
  <2> TAKE i \in 1..m
  <2>1. CASE i = m
    BY <1>6, <1>8, <2>1
  <2>2. CASE i # m
    <3> TAKE k \in 1..Len(objects2[i].refs)
    <3>1. objects2[i] = objects[i] /\ objects[i] \in Objects
      BY <1>8, <2>2 DEF m
    <3>2. objects[i].refs \in Seq(Nat)
      BY <3>1 DEF Objects
    <3>3. \A j \in 1..Len(objects[i].refs) : objects[i].refs[j] < n
      BY DEF Contents, m
    <3>4. objects[i].refs[k] < n
      BY <3>1, <3>3
    <3>5. objects[i].refs[k] \in Nat
      BY <3>1, <3>2, SeqElements
    <3> QED
      BY <3>1, <3>4, <3>5, SMTT(40)
  <2> QED
    BY <2>1, <2>2
<1>11. ASSUME NEW i \in 1..m, objects2[i].kind = "value"
       PROVE  i # m /\ objects2[i] = objects[i]
  BY <1>8, <1>9, <1>11
<1>12. ASSUME NEW i \in 1..m, objects2[i].kind = "value"
       PROVE  \E v \in 1..Len(vals2) :
                vals2[v].state = "written" /\ objects2[i].value = vals2[v].value
  <2>1. objects2[i] = objects[i]
    BY <1>11, <1>12
  <2>2. PICK v \in 1..Len(vals) : vals[v].state = "written" /\ objects[i].value = vals[v].value
    BY <1>12, <2>1 DEF Contents, m
  <2> QED
    BY <2>1, <2>2
<1>13. ASSUME NEW i \in 1..m, NEW j \in 1..m, objects2[i].kind = "value",
              objects2[j] = objects2[i]
       PROVE  i = j
  <2>1. objects2[i] = objects[i] /\ objects2[j] = objects[j]
    BY <1>11, <1>13
  <2> QED
    BY <1>13, <2>1 DEF Contents, m
<1>14. Contents(objects2, vals2, n2)
  BY <1>8, <1>10, <1>12, <1>13, ZenonT(60) DEF Contents
<1>15. objects2 # <<>> /\ objects2[m].kind # "value"
  BY <1>1, <1>8, <1>9 DEF m
<1> QED
  BY <1>8, <1>14, <1>15 DEF m


(***************************************************************************)
(* The calls.                                                              *)
(***************************************************************************)
(* An array is closed: it spans what follows it.                            *)
ArrayEnded(i, m) ==
  /\ Len(events') = m /\ events[i].ty = "array"
  /\ events'[i].kind = "collection" /\ events'[i].ty = "array"
  /\ events'[i].len = events[i].len /\ events'[i].skip = m - i
  /\ \A p \in 1..m : p # i => events'[p] = events[p]
  /\ dictionary_key_events' = dictionary_key_events

(* A dictionary is closed: its keys move from those that wait to the events. *)
DictEnded(i, m, pairs, start) ==
  /\ Len(events') = m + 1 + pairs /\ events[i].ty = "dict"
  /\ events[i].len = 2 * pairs /\ pairs = KeysOf(events[i])
  /\ events'[i].kind = "collection" /\ events'[i].ty = "dict"
  /\ events'[i].len = pairs /\ events'[i].skip = m - i + 1 + pairs
  /\ \A p \in 1..m : p # i => events'[p] = events[p]
  /\ events'[m + 1] = DictionaryKeys(pairs)
  /\ \A k \in 1..pairs : events'[m + 1 + k] = ValueAt(dictionary_key_events[start + k])
  /\ start + pairs = Len(dictionary_key_events)
  /\ Len(dictionary_key_events') = start
  /\ \A k \in 1..start : dictionary_key_events'[k] = dictionary_key_events[k]

(* evs is the events with the collection i closed.                          *)
CollectionClosed(evs, i, len, skip) ==
  /\ evs \in Seq(EventsFor(Len(values)))
  /\ Len(evs) = Len(events)
  /\ evs[i].kind = "collection" /\ evs[i].ty = events[i].ty
  /\ evs[i].len = len /\ evs[i].skip = skip
  /\ \A p \in 1..Len(events) : p # i => evs[p] = events[p]

(* The fields of the collection i once it is closed.                        *)
LEMMA ClosedFields ==
  ASSUME BufferTypes, NEW i \in 1..Len(events), events[i].kind = "collection",
         NEW len \in Nat, NEW skip \in Nat
  PROVE  CollectionClosed(Closed(i, len, skip), i, len, skip)
<1> DEFINE c == [[events[i] EXCEPT !.len = len] EXCEPT !.skip = skip]
<1>1. /\ Len(values) \in Nat /\ events \in Seq(EventsFor(Len(values)))
      /\ events[i] \in EventsFor(Len(values))
  BY DEF BufferTypes
<1>2. c \in EventsFor(Len(values))
  BY <1>1, EventChanged
<1>3. c.kind = "collection" /\ c.ty = events[i].ty /\ c.len = len /\ c.skip = skip
  BY <1>1, EventFacts
<1>4. Closed(i, len, skip) = [events EXCEPT ![i] = c]
  BY <1>1 DEF Closed
<1> HIDE DEF c
<1>5. Closed(i, len, skip) \in Seq(EventsFor(Len(values)))
  BY ClosedType
<1>6. /\ Len(Closed(i, len, skip)) = Len(events)
      /\ Closed(i, len, skip)[i] = c
      /\ \A p \in 1..Len(events) : p # i => Closed(i, len, skip)[p] = events[p]
  BY <1>1, <1>4
<1> QED
  BY <1>3, <1>5, <1>6 DEF CollectionClosed

(* What the end of a collection makes of the events and the keys.           *)
LEMMA EndOutcome ==
  ASSUME WInv, pc = "idle", WriteEndCollection, collection_stack # <<>>,
         NEW i, i = Last(collection_stack), NEW m, m = Len(events)
  PROVE  \/ pc' = "stopped"
         \/ ArrayEnded(i, m) /\ Accept(call', Front(collection_stack))
         \/ /\ Accept(call', Front(collection_stack))
            /\ \E pairs \in Nat, start \in Nat : DictEnded(i, m, pairs, start)
<1> DEFINE c == events[i]
           skip == m - i
           pairs == c.len \div 2
           dke == dictionary_key_events
           start == Len(dke) - pairs
           E == EventsFor(Len(values))
<1>1. BufferTypes /\ OpenCollections /\ KeysWait
  BY IdleFacts
<1>2. /\ i \in 1..m /\ c.kind = "collection" /\ c \in E
  BY <1>1, InnermostFacts
<1>3. /\ Len(values) \in Nat /\ m \in Nat /\ events \in Seq(E) /\ Len(dke) \in Nat
      /\ dke \in Seq(1..Len(values)) /\ i \in Nat /\ collection_stack \in Seq(Nat)
  BY <1>1, <1>2 DEF BufferTypes
<1>4. c.len \in Nat /\ c.ty \in {"array", "dict"} /\ pairs \in Nat
  BY <1>2, <1>3, EventFacts, SMTT(40)
<1>5. \/ /\ c.ty = "array"
         /\ events' = Closed(i, c.len, skip)
         /\ Accept(call', Front(collection_stack))
         /\ UNCHANGED dictionary_key_events
      \/ pc' = "stopped"
      \/ /\ c.ty = "dict" /\ c.len % 2 = 0
         /\ events' = Closed(i, pairs, DictSkip(skip, pairs))
                        \o <<DictionaryKeys(pairs)>>
                        \o [k \in 1..pairs |-> ValueAt(dke[start + k])]
         /\ dictionary_key_events' = SubSeq(dke, 1, start)
         /\ Accept(call', Front(collection_stack))
  BY DEF WriteEndCollection, Refuse
<1> HIDE DEF c, E
<1>6. skip \in Nat
  BY <1>2, <1>3
<1>a. i \in 1..Len(events) /\ events[i].kind = "collection" /\ events[i].ty = c.ty
  BY <1>2 DEF c
<1> DEFINE s1 == skip
<1>b. s1 \in Nat /\ s1 = m - i
  BY <1>6
<1> HIDE DEF s1
<1>7. CASE /\ c.ty = "array"
           /\ events' = Closed(i, c.len, skip)
           /\ Accept(call', Front(collection_stack))
           /\ UNCHANGED dictionary_key_events
  <2>1. CollectionClosed(Closed(i, c.len, s1), i, c.len, s1)
    <3> DEFINE x == c.len
    <3>1. x \in Nat /\ i \in 1..Len(events) /\ events[i].kind = "collection"
          /\ s1 \in Nat /\ BufferTypes
      BY <1>1, <1>4, <1>a, <1>b
    <3> HIDE DEF x
    <3>2. CollectionClosed(Closed(i, x, s1), i, x, s1)
      BY <3>1, ClosedFields, ZenonT(30)
    <3> QED
      BY <3>2 DEF x
  <2>2. events' = Closed(i, c.len, s1)
    BY <1>7 DEF s1
  <2>3. ArrayEnded(i, m)
    BY <1>7, <1>a, <1>b, <2>1, <2>2 DEF CollectionClosed, ArrayEnded, c
  <2> QED
    BY <1>7, <2>3
<1>8. CASE /\ c.ty = "dict" /\ c.len % 2 = 0
           /\ events' = Closed(i, pairs, DictSkip(skip, pairs))
                          \o <<DictionaryKeys(pairs)>>
                          \o [k \in 1..pairs |-> ValueAt(dke[start + k])]
           /\ dictionary_key_events' = SubSeq(dke, 1, start)
           /\ Accept(call', Front(collection_stack))
  <2>1. c.len = 2 * pairs
    <3>1. \A x \in Nat : x % 2 = 0 => x = 2 * (x \div 2)
      OBVIOUS
    <3> QED
      BY <1>4, <1>8, <3>1
  <2>2. KeysOf(c) = pairs
    <3>1. c.len + 1 = 2 * pairs + 1
      BY <2>1
    <3>2. (c.len + 1) \div 2 = pairs
      BY <1>4, <3>1, SMTT(40)
    <3> QED
      BY <1>8, <3>2 DEF KeysOf
  <2> HIDE DEF pairs
  <2>3. start \in Nat
    <3>1. Waits(events, collection_stack, Len(dke)) /\ KeysOf(events[Last(collection_stack)]) = pairs
      BY <1>1, <2>2 DEF KeysWait, c
    <3> HIDE DEF dke
    <3>2. Len(dke) - pairs \in Nat
      BY <1>3, <1>4, <3>1, WaitsPopped
    <3> QED
      BY <3>2
  <2> HIDE DEF start
  <2>4. start + pairs = Len(dke)
    BY <1>3, <1>4 DEF start
  <2> DEFINE s2 == DictSkip(skip, pairs)
             evs == Closed(i, pairs, s2)
             one == <<DictionaryKeys(pairs)>>
             more == [k \in 1..pairs |-> ValueAt(dke[start + k])]
  <2>5. s2 = m - i + 1 + pairs /\ s2 \in Nat
    BY <1>2, <1>3, <1>4, <1>6, SMTT(40) DEF DictSkip
  <2> HIDE DEF s2, skip
  <2>6. /\ Len(evs) = m /\ evs[i].kind = "collection" /\ evs[i].ty = c.ty
        /\ evs[i].len = pairs /\ evs[i].skip = s2 /\ evs \in Seq(E)
        /\ \A p \in 1..m : p # i => evs[p] = events[p]
    <3>1. /\ BufferTypes /\ i \in 1..Len(events) /\ events[i].kind = "collection"
          /\ pairs \in Nat /\ s2 \in Nat
      BY <1>1, <1>a, <1>4, <2>5
    <3> HIDE DEF pairs
    <3>2. CollectionClosed(evs, i, pairs, s2)
      BY <3>1, ClosedFields, ZenonT(30)
    <3> QED
      BY <1>a, <3>2 DEF CollectionClosed, E
  <2>7. events' = evs \o one \o more
    BY <1>8 DEF s2
  <2> HIDE DEF evs
  <2>8. one \in Seq(E) /\ Len(one) = 1 /\ one[1] = DictionaryKeys(pairs)
    <3>1. DictionaryKeys(pairs) \in E
      BY <1>3, <1>4, EventsMade DEF E
    <3> QED
      BY <3>1
  <2>9. more \in Seq(E) /\ Len(more) = pairs
        /\ \A k \in 1..pairs : more[k] = ValueAt(dke[start + k])
    <3>1. ASSUME NEW k \in 1..pairs
          PROVE  ValueAt(dke[start + k]) \in E
      <4>1. start + k \in 1..Len(dke)
        BY <1>3, <1>4, <2>3, <2>4
      <4>2. dke[start + k] \in 1..Len(values)
        BY <1>3, <4>1, SeqElements
      <4> QED
        BY <1>3, <4>2, EventsMade DEF E
    <3>2. more \in [1..pairs -> E]
      BY <3>1
    <3> QED
      BY <1>4, <3>2
  <2> HIDE DEF one, more
  <2>c. evs \in Seq(E) /\ one \in Seq(E) /\ more \in Seq(E)
    BY <2>6, <2>8, <2>9
  <2> DEFINE two == evs \o one
  <2>10. /\ two \in Seq(E) /\ Len(two) = m + 1 /\ \A p \in 1..m : two[p] = evs[p]
         /\ two[m + 1] = DictionaryKeys(pairs)
    <3>1. /\ two \in Seq(E) /\ Len(two) = Len(evs) + Len(one)
          /\ \A p \in 1..Len(evs) : two[p] = evs[p]
          /\ \A k \in 1..Len(one) : two[Len(evs) + k] = one[k]
      BY <2>c, ConcatFacts
    <3> HIDE DEF two
    <3> QED
      BY <2>6, <2>8, <3>1
  <2> HIDE DEF two
  <2>11. /\ Len(two \o more) = m + 1 + pairs
         /\ \A p \in 1..(m + 1) : (two \o more)[p] = two[p]
         /\ \A k \in 1..pairs : (two \o more)[m + 1 + k] = more[k]
    <3>1. /\ Len(two \o more) = Len(two) + Len(more)
          /\ \A p \in 1..Len(two) : (two \o more)[p] = two[p]
          /\ \A k \in 1..Len(more) : (two \o more)[Len(two) + k] = more[k]
      <4>1. two \in Seq(E)
        BY <2>10
      <4> QED
        BY <2>c, <4>1, ConcatFacts
    <3>2. Len(two) = m + 1 /\ Len(more) = pairs
      BY <2>9, <2>10
    <3> QED
      BY <3>1, <3>2
  <2>12. events' = two \o more
    BY <2>7 DEF two
  <2>13. /\ Len(events') = m + 1 + pairs /\ events'[m + 1] = DictionaryKeys(pairs)
         /\ \A p \in 1..m : events'[p] = evs[p]
         /\ \A k \in 1..pairs : events'[m + 1 + k] = ValueAt(dke[start + k])
    <3>1. m + 1 \in 1..(m + 1) /\ \A p \in 1..m : p \in 1..(m + 1)
      BY <1>2, <1>3
    <3> QED
      BY <1>2, <2>9, <2>10, <2>11, <2>12, <3>1
  <2>14. /\ Len(dictionary_key_events') = start
         /\ \A k \in 1..start : dictionary_key_events'[k] = dke[k]
    <3>1. start <= Len(dke)
      BY <1>3, <1>4, <2>3, <2>4
    <3>2. dictionary_key_events' = SubSeq(dke, 1, start)
      BY <1>8 DEF start
    <3> HIDE DEF dke
    <3> QED
      BY <1>3, <2>3, <3>1, <3>2
  <2>15. DictEnded(i, m, pairs, start)
    <3>1. /\ events'[i] = evs[i]
          /\ \A p \in 1..m : p # i => events'[p] = events[p]
      BY <1>2, <2>6, <2>13
    <3> QED
      BY <1>8, <2>1, <2>2, <2>4, <2>5, <2>6, <2>13, <2>14, <3>1 DEF DictEnded, c
  <2>16. Accept(call', Front(collection_stack))
    BY <1>8
  <2> HIDE DEF dke
  <2> QED
    BY <1>4, <2>3, <2>15, <2>16
<1> HIDE DEF pairs, start
<1> QED
  BY <1>5, <1>7, <1>8

(* The values that are buffered stay so.                                    *)
SameValues(evs, evs2) ==
  /\ Len(evs) <= Len(evs2)
  /\ \A q \in 1..Len(evs) :
       /\ evs2[q].kind = evs[q].kind
       /\ evs[q].kind = "value" => evs2[q].index = evs[q].index

(* A value that occurs among the events goes on doing so.                   *)
LEMMA OccursStays ==
  ASSUME NEW evs, NEW evs2, Len(evs) \in Nat, Len(evs2) \in Nat, SameValues(evs, evs2),
         NEW i, Occurs(evs, i)
  PROVE  Occurs(evs2, i)
<1>1. PICK q \in 1..Len(evs) : evs[q].kind = "value" /\ evs[q].index = i
  BY DEF Occurs
<1>2. q \in 1..Len(evs2) /\ evs2[q].kind = "value" /\ evs2[q].index = i
  BY <1>1 DEF SameValues
<1> QED
  BY <1>2 DEF Occurs

(* What an event or an element more makes of the values and collections.    *)
LEMMA IncrementedSame ==
  ASSUME BufferTypes, OpenCollections
  PROVE  SameValues(events, Incremented)
<1>1. /\ Len(Incremented) = Len(events) /\ Continues(events, Incremented, OpenSet)
  BY IncrementedFacts
<1>2. ASSUME NEW q \in 1..Len(events), events[q].kind = "value"
      PROVE  Incremented[q] = events[q]
  <2>1. q \notin OpenSet
    BY <1>2, OpenAreCollections
  <2> QED
    BY <1>1, <2>1 DEF Continues
<1> QED
  BY <1>1, <1>2 DEF SameValues, Continues

(* The collections among the events, when no event or one follows.          *)
LEMMA CollectionsGrow ==
  ASSUME NEW evs, NEW evs2, NEW m, Len(evs) = m, m \in Nat, SameValues(evs, evs2),
         Len(evs2) \in Nat
  PROVE  /\ (\A q \in (m + 1)..Len(evs2) : evs2[q].kind # "collection") =>
              Collections(evs2) = Collections(evs)
         /\ Len(evs2) = m + 1 /\ evs2[m + 1].kind = "collection" =>
              Cardinality(Collections(evs2)) = Cardinality(Collections(evs)) + 1
<1>1. ASSUME \A q \in (m + 1)..Len(evs2) : evs2[q].kind # "collection"
      PROVE  Collections(evs2) = Collections(evs)
  <2>1. \A q \in 1..Len(evs2) : q \in 1..m \/ q \in (m + 1)..Len(evs2)
    OBVIOUS
  <2>2. \A q \in 1..m : q \in 1..Len(evs2) /\ evs2[q].kind = evs[q].kind
    BY DEF SameValues
  <2> QED
    BY <1>1, <2>1, <2>2 DEF Collections
<1>2. ASSUME Len(evs2) = m + 1, evs2[m + 1].kind = "collection"
      PROVE  Cardinality(Collections(evs2)) = Cardinality(Collections(evs)) + 1
  <2>1. \A q \in 1..m : evs2[q].kind = evs[q].kind
    BY DEF SameValues
  <2>2. 1..Len(evs2) = (1..m) \cup {m + 1} /\ m + 1 \notin 1..m
    BY <1>2
  <2>3. /\ Collections(evs2) = Collections(evs) \cup {m + 1}
        /\ Collections(evs) \subseteq 1..m /\ m + 1 \notin Collections(evs)
    BY <1>2, <2>1, <2>2 DEF Collections
  <2> QED
    BY <2>3, OneMore
<1> QED
  BY <1>1, <1>2

(* A call that is refused leaves the values as they are.                    *)
LEMMA StoppedTable ==
  ASSUME OInv, WInv', pc' = "stopped", UNCHANGED values
  PROVE  OInv'
<1>1. Distinct'
  BY DEF OInv, Distinct
<1> QED
  BY <1>1 DEF OInv, Writing

(* An accepted call.                                                        *)
LEMMA AcceptedTable ==
  ASSUME WInv', NEW e, NEW stack, Accept(e, stack), Distinct', Unnumbered'
  PROVE  OInv'
  BY DEF OInv, Writing, Accept

(* What is known of the values when the client calls.                       *)
LEMMA IdleTable ==
  ASSUME OInv, pc = "idle"
  PROVE  /\ WInv /\ BufferTypes /\ OpenCollections /\ Distinct /\ pos = 0 /\ num_objects \in Nat
         /\ num_objects = Cardinality(Collections(events)) + Len(values)
         /\ \A i \in 1..Len(values) :
              values[i].state = "unassigned" /\ (Occurs(events, i) \/ AwaitsEnd(i))
         /\ Cardinality(Collections(events)) \in Nat /\ Len(events) \in Nat /\ Len(values) \in Nat
<1>1. WInv /\ BufferTypes /\ OpenCollections /\ num_objects \in Nat
  BY IdleFacts DEF OInv
<1>2. Len(events) \in Nat /\ Len(values) \in Nat
  BY <1>1 DEF BufferTypes
<1>3. Cardinality(Collections(events)) \in Nat
  BY <1>2, NamesFacts
<1> QED
  BY <1>1, <1>2, <1>3 DEF OInv, Unnumbered, Counted

(* The start of a collection: one object more.                              *)
LEMMA WriteStartCollectionTable ==
  ASSUME OInv, NEW ty \in {"array", "dict"}, WriteStartCollection(ty), WInv'
  PROVE  OInv'
<1> DEFINE m == Len(events)
           e == Collection(ty)
<1>1. pc = "idle" /\ UNCHANGED output
  BY DEF WriteStartCollection, Call
<1>2. /\ WInv /\ BufferTypes /\ OpenCollections /\ Distinct /\ pos = 0 /\ num_objects \in Nat
      /\ num_objects = Cardinality(Collections(events)) + Len(values)
      /\ \A i \in 1..Len(values) :
           values[i].state = "unassigned" /\ (Occurs(events, i) \/ AwaitsEnd(i))
      /\ Cardinality(Collections(events)) \in Nat /\ m \in Nat /\ Len(values) \in Nat
  BY <1>1, IdleTable
<1>3. CASE ExpectingKey
  BY <1>3, StoppedTable DEF WriteStartCollection, Refuse
<1>4. CASE ~ExpectingKey
  <2>1. /\ events' = Append(Incremented, e) /\ num_objects' = num_objects + 1
        /\ Accept(call', Append(collection_stack, m + 1))
        /\ dictionary_key_events' = dictionary_key_events /\ values' = values
    BY <1>4 DEF WriteStartCollection
  <2>2. e \in EventsFor(Len(values)) /\ e.kind = "collection"
    BY <1>2, EventsMade DEF Collection
  <2> HIDE DEF e
  <2>3. SameValues(events, Incremented) /\ Incremented \in Seq(EventsFor(Len(values)))
        /\ Len(Incremented) = m
    BY <1>2, IncrementedSame, IncrementedFacts
  <2>4. /\ Len(events') = m + 1 /\ events'[m + 1] = e
        /\ \A q \in 1..m : events'[q] = Incremented[q]
    BY <2>1, <2>2, <2>3, AppendFacts
  <2>5. SameValues(events, events') /\ Len(events') \in Nat
    BY <1>2, <2>3, <2>4 DEF SameValues
  <2>6. Cardinality(Collections(events')) = Cardinality(Collections(events)) + 1
    BY <1>2, <2>2, <2>4, <2>5, CollectionsGrow
  <2>7. Counted(events)'
    BY <1>2, <2>1, <2>6 DEF Counted
  <2>8. ASSUME NEW i \in 1..Len(values)
        PROVE  values'[i].state = "unassigned" /\ (Occurs(events', i) \/ AwaitsEnd(i)')
    <3>1. CASE Occurs(events, i)
      BY <1>2, <2>1, <2>5, <3>1, OccursStays
    <3>2. CASE AwaitsEnd(i)
      BY <1>2, <2>1, <3>2 DEF AwaitsEnd
    <3> QED
      BY <1>2, <2>1, <3>1, <3>2
  <2>9. Unnumbered'
    BY <1>1, <1>2, <2>1, <2>7, <2>8 DEF Unnumbered, output
  <2>10. Distinct'
    BY <1>2, <2>1 DEF Distinct
  <2> QED
    BY <2>1, <2>9, <2>10, AcceptedTable
<1> QED
  BY <1>3, <1>4

(* A value: an object more if it was not known.                             *)
LEMMA WriteValueTable ==
  ASSUME OInv, NEW v \in Values, WriteValue(v), WInv'
  PROVE  OInv'
<1> DEFINE m == Len(events)
           n == Len(values)
           new == [value |-> v, state |-> "unassigned", ref |-> NoRef]
           known == Indices(v) # {}
           index == IF known THEN CHOOSE i \in Indices(v) : TRUE ELSE n + 1
<1>1. pc = "idle" /\ UNCHANGED output
  BY DEF WriteValue, Call
<1>2. /\ WInv /\ BufferTypes /\ OpenCollections /\ Distinct /\ pos = 0 /\ num_objects \in Nat
      /\ num_objects = Cardinality(Collections(events)) + n
      /\ \A i \in 1..n :
           values[i].state = "unassigned" /\ (Occurs(events, i) \/ AwaitsEnd(i))
      /\ Cardinality(Collections(events)) \in Nat /\ m \in Nat /\ n \in Nat
  BY <1>1, IdleTable
<1>3. CASE ExpectingKey /\ v \notin Strings
  BY <1>3, StoppedTable DEF WriteValue, Refuse
<1>4. CASE ~(ExpectingKey /\ v \notin Strings)
  <2>1. /\ IF known
           THEN UNCHANGED <<values, num_objects>>
           ELSE /\ values' = Append(values, new)
                /\ num_objects' = num_objects + 1
        /\ IF ExpectingKey
           THEN /\ dictionary_key_events' = Append(dictionary_key_events, index)
                /\ events' = Incremented
           ELSE /\ events' = Append(Incremented, ValueAt(index))
                /\ UNCHANGED dictionary_key_events
        /\ Accept(call', collection_stack)
    BY <1>4 DEF WriteValue
  <2>2. /\ new \in ValueRecords /\ new.value = v /\ new.state = "unassigned"
        /\ values \in Seq(ValueRecords)
    BY <1>2 DEF ValueRecords, BufferTypes
  <2> HIDE DEF new
  <2>3. /\ Len(values') \in Nat /\ n <= Len(values') /\ index \in 1..Len(values')
        /\ Distinct' /\ num_objects' = num_objects + (Len(values') - n)
        /\ \A i \in 1..Len(values') : values'[i].state = "unassigned"
        /\ \A i \in 1..Len(values') : i \in 1..n \/ i = index
    <3>1. CASE known
      <4>1. index \in 1..n
        BY <3>1 DEF Indices
      <4>2. values' = values /\ num_objects' = num_objects
        BY <2>1, <3>1
      <4> HIDE DEF index, known
      <4> QED
        BY <1>2, <4>1, <4>2, SMTT(40) DEF Distinct
    <3>2. CASE ~known
      <4>1. index = n + 1 /\ values' = Append(values, new) /\ num_objects' = num_objects + 1
        BY <2>1, <3>2
      <4>2. \A i \in 1..n : values[i].value # v
        BY <3>2 DEF Indices
      <4> HIDE DEF index, known
      <4>3. /\ Len(values') = n + 1 /\ values'[n + 1] = new
            /\ \A i \in 1..n : values'[i] = values[i]
        BY <2>2, <4>1, AppendFacts
      <4>4. \A i \in 1..Len(values') : i \in 1..n \/ i = n + 1
        BY <1>2, <4>3
      <4>5. Distinct'
        BY <1>2, <2>2, <4>2, <4>3, <4>4 DEF Distinct
      <4>6. \A i \in 1..Len(values') : values'[i].state = "unassigned"
        BY <1>2, <2>2, <4>3, <4>4
      <4> QED
        BY <1>2, <4>1, <4>3, <4>4, <4>5, <4>6
    <3> QED
      BY <3>1, <3>2
  <2> HIDE DEF known
  <2>a. PICK x : x = index
    OBVIOUS
  <2> HIDE DEF index
  <2>4. /\ SameValues(events, Incremented) /\ Incremented \in Seq(EventsFor(n))
        /\ Len(Incremented) = m
    BY <1>2, IncrementedSame, IncrementedFacts
  <2>5. /\ SameValues(events, events') /\ Len(events') \in Nat
        /\ \A q \in (m + 1)..Len(events') : events'[q].kind # "collection"
        /\ Occurs(events', x) \/ AwaitsEnd(x)'
        /\ \A i \in 1..n : AwaitsEnd(i) => AwaitsEnd(i)'
    <3>0. dictionary_key_events \in Seq(1..Len(values')) /\ Len(dictionary_key_events) \in Nat
      <4>1. /\ 1..n \subseteq 1..Len(values') /\ dictionary_key_events \in Seq(1..n)
            /\ Len(dictionary_key_events) \in Nat
        BY <1>2, <2>3 DEF BufferTypes
      <4>2. dictionary_key_events \in Seq(1..Len(values'))
        BY <4>1, SeqOfMore
      <4> QED
        BY <4>1, <4>2
    <3>1. CASE ExpectingKey
      <4>1. dictionary_key_events' = Append(dictionary_key_events, index) /\ events' = Incremented
        BY <2>1, <3>1
      <4>2. /\ Len(dictionary_key_events') = Len(dictionary_key_events) + 1
            /\ dictionary_key_events'[Len(dictionary_key_events) + 1] = index
            /\ \A k \in 1..Len(dictionary_key_events) :
                 dictionary_key_events'[k] = dictionary_key_events[k]
        BY <2>3, <3>0, <4>1, AppendFacts
      <4>3. Len(dictionary_key_events) + 1 \in 1..Len(dictionary_key_events')
            /\ 1..Len(dictionary_key_events) \subseteq 1..Len(dictionary_key_events')
        BY <3>0, <4>2
      <4>4. AwaitsEnd(x)'
        <5>1. \E k \in 1..Len(dictionary_key_events') : dictionary_key_events'[k] = x
          BY <2>a, <4>2, <4>3
        <5> QED
          BY <5>1 DEF AwaitsEnd
      <4>5. \A i \in 1..n : AwaitsEnd(i) => AwaitsEnd(i)'
        BY <4>2, <4>3 DEF AwaitsEnd
      <4> QED
        BY <1>2, <2>4, <4>1, <4>4, <4>5
    <3>2. CASE ~ExpectingKey
      <4> DEFINE e == ValueAt(index)
                 k == Len(values')
      <4>1. /\ events' = Append(Incremented, e) /\ e.kind = "value" /\ e.index = index
            /\ dictionary_key_events' = dictionary_key_events
        BY <2>1, <3>2 DEF ValueAt
      <4>2. e \in EventsFor(k) /\ Incremented \in Seq(EventsFor(k))
        BY <1>2, <2>3, <2>4, EventsMade, SeqOfMore
      <4> HIDE DEF e, k
      <4>3. /\ Len(events') = m + 1 /\ events'[m + 1] = e
            /\ \A q \in 1..m : events'[q] = Incremented[q]
        BY <2>4, <4>1, <4>2, AppendFacts
      <4>4. SameValues(events, events') /\ Len(events') \in Nat
        BY <1>2, <2>4, <4>3 DEF SameValues
      <4>5. m + 1 \in 1..Len(events')
        BY <1>2, <4>3
      <4>6. Occurs(events', x)
        BY <2>a, <4>1, <4>3, <4>5 DEF Occurs
      <4>7. \A q \in (m + 1)..Len(events') : q = m + 1
        BY <1>2, <4>3
      <4> QED
        BY <4>1, <4>3, <4>4, <4>6, <4>7 DEF AwaitsEnd
    <3> QED
      BY <3>1, <3>2
  <2>6. Collections(events') = Collections(events)
    BY <1>2, <2>5, CollectionsGrow
  <2>7. Counted(events)'
    <3>1. num_objects' = Cardinality(Collections(events)) + Len(values')
      BY <1>2, <2>3
    <3> QED
      BY <2>6, <3>1 DEF Counted
  <2>8. ASSUME NEW i \in 1..Len(values')
        PROVE  Occurs(events', i) \/ AwaitsEnd(i)'
    <3>1. CASE i = x
      BY <2>5, <3>1
    <3>2. CASE i \in 1..n
      <4>1. CASE Occurs(events, i)
        BY <1>2, <2>5, <4>1, OccursStays
      <4>2. CASE AwaitsEnd(i)
        BY <2>5, <3>2, <4>2
      <4> QED
        BY <1>2, <3>2, <4>1, <4>2
    <3> QED
      BY <2>3, <2>a, <3>1, <3>2
  <2>9. Unnumbered'
    BY <1>1, <1>2, <2>3, <2>7, <2>8 DEF Unnumbered, output
  <2> QED
    BY <2>1, <2>3, <2>9, AcceptedTable
<1> QED
  BY <1>3, <1>4

(* The end of a collection: no object more, and the keys stay.              *)
LEMMA WriteEndCollectionTable ==
  ASSUME OInv, WriteEndCollection, WInv'
  PROVE  OInv'
<1> DEFINE m == Len(events)
           i == Last(collection_stack)
           dke == dictionary_key_events
<1>1. pc = "idle" /\ UNCHANGED <<output, values, num_objects>>
  BY DEF WriteEndCollection, Call
<1>2. /\ WInv /\ BufferTypes /\ OpenCollections /\ Distinct /\ pos = 0 /\ num_objects \in Nat
      /\ num_objects = Cardinality(Collections(events)) + Len(values)
      /\ \A j \in 1..Len(values) :
           values[j].state = "unassigned" /\ (Occurs(events, j) \/ AwaitsEnd(j))
      /\ Cardinality(Collections(events)) \in Nat /\ m \in Nat /\ Len(values) \in Nat
  BY <1>1, IdleTable
<1>3. CASE pc' = "stopped"
  BY <1>1, <1>3, StoppedTable
<1>4. CASE collection_stack = <<>>
  BY <1>3, <1>4 DEF WriteEndCollection, Refuse
<1>5. CASE collection_stack # <<>> /\ pc' # "stopped"
  <2>1. \A p \in 1..m : p # i => events'[p] = events[p]
    BY <1>1, <1>2, <1>5, EndedEvents
  <2>2. i \in 1..m /\ events[i].kind = "collection"
    BY <1>2, <1>5, InnermostFacts
  <2>3. \/ ArrayEnded(i, m) /\ Accept(call', Front(collection_stack))
        \/ /\ Accept(call', Front(collection_stack))
           /\ \E pairs \in Nat, start \in Nat : DictEnded(i, m, pairs, start)
    BY <1>1, <1>2, <1>5, EndOutcome
  <2> HIDE DEF i
  <2>4. ASSUME Len(events') \in Nat, m <= Len(events'), events'[i].kind = "collection",
               \A q \in (m + 1)..Len(events') : events'[q].kind # "collection",
               \A j \in 1..Len(values) : AwaitsEnd(j) => Occurs(events', j) \/ AwaitsEnd(j)'
        PROVE  OInv'
    <3>1. SameValues(events, events')
      BY <2>1, <2>2, <2>4 DEF SameValues
    <3>2. Collections(events') = Collections(events)
      BY <1>2, <2>4, <3>1, CollectionsGrow
    <3>3. Counted(events)'
      BY <1>1, <1>2, <3>2 DEF Counted
    <3>4. ASSUME NEW j \in 1..Len(values)
          PROVE  Occurs(events', j) \/ AwaitsEnd(j)'
      <4>1. CASE Occurs(events, j)
        BY <1>2, <2>4, <3>1, <4>1, OccursStays
      <4> QED
        BY <1>2, <2>4, <4>1
    <3>5. Unnumbered'
      BY <1>1, <1>2, <3>3, <3>4 DEF Unnumbered, output
    <3>6. Distinct'
      BY <1>1, <1>2 DEF Distinct
    <3> QED
      BY <2>3, <3>5, <3>6, AcceptedTable
  <2>5. CASE ArrayEnded(i, m)
    <3>1. /\ Len(events') = m /\ events'[i].kind = "collection"
          /\ dictionary_key_events' = dictionary_key_events
      BY <2>5 DEF ArrayEnded
    <3> QED
      BY <1>2, <2>4, <3>1 DEF AwaitsEnd
  <2>6. ASSUME NEW pairs \in Nat, NEW start \in Nat, DictEnded(i, m, pairs, start)
        PROVE  OInv'
    <3>1. /\ Len(events') = m + 1 + pairs /\ events'[i].kind = "collection"
          /\ events'[m + 1] = DictionaryKeys(pairs)
          /\ \A k \in 1..pairs : events'[m + 1 + k] = ValueAt(dke[start + k])
          /\ start + pairs = Len(dke)
          /\ Len(dictionary_key_events') = start
          /\ \A k \in 1..start : dictionary_key_events'[k] = dke[k]
      BY <2>6 DEF DictEnded
    <3> HIDE DEF dke
    <3>2. ASSUME NEW q \in (m + 1)..Len(events')
          PROVE  events'[q].kind # "collection"
      <4>1. CASE q = m + 1
        BY <3>1, <4>1 DEF DictionaryKeys
      <4>2. CASE q # m + 1
        <5>1. q - (m + 1) \in 1..pairs /\ m + 1 + (q - (m + 1)) = q
          BY <1>2, <3>1, <4>2
        <5>2. events'[q] = ValueAt(dke[start + (q - (m + 1))])
          BY <3>1, <5>1
        <5> QED
          BY <5>2 DEF ValueAt
      <4> QED
        BY <4>1, <4>2
    <3>3. ASSUME NEW j \in 1..Len(values), AwaitsEnd(j)
          PROVE  Occurs(events', j) \/ AwaitsEnd(j)'
      <4>1. PICK k \in 1..Len(dke) : dke[k] = j
        BY <3>3 DEF AwaitsEnd, dke
      <4>2. CASE k <= start
        <5>1. k \in 1..start
          BY <4>2
        <5> QED
          BY <3>1, <4>1, <5>1 DEF AwaitsEnd
      <4>3. CASE ~(k <= start)
        <5>1. k - start \in 1..pairs /\ start + (k - start) = k
          BY <3>1, <4>3
        <5>2. events'[m + 1 + (k - start)] = ValueAt(j)
          BY <3>1, <4>1, <5>1
        <5>3. m + 1 + (k - start) \in 1..Len(events')
          BY <1>2, <3>1, <5>1
        <5> QED
          BY <5>2, <5>3 DEF Occurs, ValueAt
      <4> QED
        BY <4>2, <4>3
    <3>4. Len(events') \in Nat /\ m <= Len(events')
      BY <1>2, <3>1
    <3> QED
      BY <2>4, <3>1, <3>2, <3>3, <3>4
  <2> QED
    BY <2>3, <2>5, <2>6
<1> QED
  BY <1>3, <1>4, <1>5

(***************************************************************************)
(* The header.                                                             *)
(***************************************************************************)
(* Nothing has a reference before the plist is written.                     *)
LEMMA NoReferences ==
  ASSUME NEW evs, NEW vals, \A q \in 1..Len(evs) :
           evs[q].kind = "collection" => evs[q].object_ref = NoRef,
         \A i \in 1..Len(vals) : vals[i].state = "unassigned"
  PROVE  References(evs, vals, 0) /\ Named(evs) = {} /\ Numbered(vals) = {}
<1>1. Named(evs) = {} /\ Numbered(vals) = {}
  BY DEF Named, Collections, Numbered
<1>2. Cardinality({}) = 0 /\ 0..(0 - 1) = {}
  BY FS_EmptySet
<1> QED
  BY <1>1, <1>2 DEF References

(* Nothing is written before the plist is.                                  *)
LEMMA NothingLocated ==
  ASSUME NEW num \in Nat, NEW n, NEW table, table = [r \in 0..(num - 1) |-> 0]
  PROVE  Locates(table, num, 0, n)
<1>1. Located(table, num) = {} /\ Cardinality({}) = 0
  BY FS_EmptySet DEF Located
<1> QED
  BY <1>1 DEF Locates

(* The root gets reference zero.                                            *)
LEMMA WriteHeaderTable ==
  ASSUME OInv, WriteHeader, WInv'
  PROVE  OInv'
<1> DEFINE root == events[1]
           n == Len(values)
<1>1. /\ pc = "header" /\ TypeOK /\ BufferTypes /\ events # <<>>
      /\ BlockEnd(events, 1) = Len(events) /\ Laid(events, OpenSet) /\ collection_stack = <<>>
      /\ \A i \in 1..Len(events) : events[i].kind = "collection" => events[i].object_ref = NoRef
      /\ Distinct /\ Unnumbered
  BY TypesOfBuffer DEF OInv, WInv, Phases, Buffering, WriteHeader
<1>2. CASE IOError /\ UNCHANGED values
  BY <1>2, StoppedTable DEF IOError
<1>3. CASE /\ pos' = pos + 1 /\ events' = <<>> /\ file' = <<>> /\ cursor' = 1
           /\ offset_table' = [r \in 0..(num_objects - 1) |-> 0]
           /\ pending' = <<>> /\ next_object_ref' = 1
           /\ values' = IF root.kind = "value" THEN Assigned(root.index, 0) ELSE values
           /\ todo' = IF root.kind = "collection" THEN [events EXCEPT ![1].object_ref = 0]
                                                  ELSE events
           /\ pc' = "objects"
           /\ UNCHANGED <<dictionary_key_events, num_objects>>
  <2>1. /\ events \in Seq(EventsFor(n)) /\ n \in Nat /\ Len(events) \in Nat /\ 1 \in 1..Len(events)
        /\ root \in EventsFor(n) /\ values \in Seq(ValueRecords)
    <3>1. events \in Seq(EventsFor(n)) /\ n \in Nat /\ Len(events) \in Nat
      BY <1>1 DEF BufferTypes
    <3>2. Len(events) # 0
      BY <1>1, <3>1, EmptyIffZero
    <3>3. 1 \in 1..Len(events)
      BY <3>1, <3>2
    <3> QED
      BY <1>1, <3>1, <3>3, SeqElements DEF BufferTypes, ValueRecords
  <2>2. dictionary_key_events = <<>>
    BY <1>3 DEF WInv, Phases, Writing
  <2>3. /\ root.kind \in {"collection", "value"}
        /\ root.kind = "value" => root.index \in 1..n
    <3>1. /\ root.kind \in {"collection", "value", "keys"}
          /\ root.kind = "value" => root.index \in 1..n
      BY <2>1, EventFacts
    <3>2. root.kind # "keys"
      <4>1. 1 \notin OpenSet
        BY <1>1 DEF OpenSet
      <4>2. root.kind = "keys" => LaidKeys(events, OpenSet, 1)
        BY <1>1, <2>1, <4>1 DEF Laid, LaidAt
      <4> QED
        BY <4>2 DEF LaidKeys
    <3> QED
      BY <3>1, <3>2
  <2>4. /\ num_objects = Cardinality(Collections(events)) + n
        /\ pos = 0 /\ \A i \in 1..n : values[i].state = "unassigned" /\ Occurs(events, i)
        /\ num_objects \in Nat
    <3>1. \A i \in 1..n : ~AwaitsEnd(i)
      <4>1. Len(dictionary_key_events) = 0
        BY <2>2
      <4> QED
        BY <4>1 DEF AwaitsEnd
    <3>2. /\ num_objects = Cardinality(Collections(events)) + Len(values) /\ pos = 0
          /\ \A i \in 1..Len(values) :
               values[i].state = "unassigned" /\ (Occurs(events, i) \/ AwaitsEnd(i))
      BY <1>1 DEF Unnumbered, Counted
    <3>3. num_objects \in Nat
      BY <1>1 DEF TypeOK
    <3> QED
      BY <3>1, <3>2, <3>3
  <2>5. References(events, values, 0) /\ Named(events) = {} /\ Numbered(values) = {}
    BY <1>1, <2>4, NoReferences
  <2> HIDE DEF root
  <2>6. /\ References(todo', values', 1) /\ Collections(todo') = Collections(events)
        /\ Len(values') = n /\ Len(todo') = Len(events)
        /\ \A q \in Named(todo') : q = 1
        /\ \A i \in 1..n : values'[i].state # "written" /\ values'[i].value = values[i].value
        /\ \A q \in 1..Len(events) : events[q].kind = "value" => todo'[q] = events[q]
    <3>1. CASE root.kind = "value"
      <4>1. todo' = events /\ values' = Assigned(root.index, 0)
        BY <1>3, <3>1
      <4>2. root.index \in 1..n /\ 0 \in Nat /\ 1 = 0 + 1
        BY <2>3, <3>1
      <4> DEFINE i == root.index
      <4>3. i \in 1..n /\ values' = Assigned(i, 0)
        BY <4>1, <4>2
      <4> HIDE DEF i
      <4>4. /\ Len(values') = n /\ \A j \in 1..n : j # i => values'[j] = values[j]
            /\ values'[i].value = values[i].value /\ values'[i].state = "unwritten"
            /\ values'[i].ref = 0
        <5>1. 0 \in Nat /\ values \in Seq(ValueRecords) /\ i \in 1..Len(values)
          BY <2>1, <4>2, <4>3
        <5>2. IsAssigned(values', i, 0)
          BY <4>3, <5>1, AssignedValue, ZenonT(30)
        <5> QED
          BY <2>1, <5>2 DEF IsAssigned
      <4>5. References(events, values', 1)
        <5>1. /\ Len(events) \in Nat /\ Len(values) \in Nat /\ Len(values') \in Nat
              /\ i \in 1..Len(values) /\ values[i].state = "unassigned"
              /\ References(events, values, 0) /\ 0 \in Nat /\ 1 = 0 + 1
          BY <2>1, <2>4, <2>5, <4>2, <4>3, <4>4
        <5> QED
          BY <2>1, <4>4, <5>1, ValueNumbered, SMTT(40)
      <4>6. \A j \in 1..n : values'[j].state # "written" /\ values'[j].value = values[j].value
        BY <2>4, <4>4
      <4> QED
        BY <2>5, <4>1, <4>4, <4>5, <4>6
    <3>2. CASE root.kind = "collection"
      <4> DEFINE e == [root EXCEPT !.object_ref = 0]
      <4>1. values' = values /\ todo' = [events EXCEPT ![1] = e]
        BY <1>3, <3>2 DEF root
      <4>2. e \in EventsFor(n)
        BY <2>1, <3>2, EventChanged
      <4>3. e.kind = root.kind /\ e.ty = root.ty /\ e.len = root.len /\ e.skip = root.skip
            /\ e.object_ref = 0
        <5>1. root = [kind |-> "collection", ty |-> root.ty, len |-> root.len,
                      skip |-> root.skip, object_ref |-> root.object_ref]
          BY <2>1, <3>2, EventFacts
        <5> QED
          BY <3>2, <5>1
      <4> HIDE DEF e
      <4>4. /\ Len([events EXCEPT ![1] = e]) = Len(events)
            /\ [events EXCEPT ![1] = e][1] = e
            /\ \A i \in 1..Len(events) : i # 1 => [events EXCEPT ![1] = e][i] = events[i]
        BY <2>1, <4>2
      <4>5. /\ Len(todo') = Len(events) /\ todo'[1] = e
            /\ \A i \in 1..Len(events) : i # 1 => todo'[i] = events[i]
        BY <4>1, <4>4, Zenon
      <4>6. SameShape(events, todo') /\ events[1].kind = "collection"
        BY <3>2, <4>3, <4>5 DEF SameShape, root
      <4>7. 1 \notin Named(events) /\ todo'[1].object_ref = 0 /\ 0 \in Nat /\ 1 = 0 + 1
        BY <2>5, <4>3, <4>5
      <4>8. /\ References(todo', values, 1) /\ Named(todo') = Named(events) \cup {1}
            /\ Collections(todo') = Collections(events)
        BY <2>1, <2>5, <4>5, <4>6, <4>7, CollectionNumbered
      <4> QED
        BY <2>4, <2>5, <4>1, <4>5, <4>6, <4>8
    <3> QED
      BY <2>3, <3>1, <3>2
  <2>7. Len(file') = 0 /\ num_objects' = num_objects /\ pos' = Len(file') + 1
    <3>1. Len(file') = 0 /\ num_objects' = num_objects /\ pos' = 0 + 1
      BY <1>3, <2>4
    <3> QED
      BY <3>1
  <2>8. Counted(todo)'
    BY <2>4, <2>6, <2>7 DEF Counted
  <2>9. \A i \in 1..Len(values') : Occurs(todo', i)
    BY <2>4, <2>6 DEF Occurs
  <2>10. Locates(offset_table', num_objects', Len(file'), next_object_ref')
    BY <1>3, <2>4, <2>7, NothingLocated
  <2>11. 1 <= num_objects
    <3>1. num_objects = Cardinality(Collections(todo')) + Len(values')
          /\ Len(todo') \in Nat /\ Len(values') \in Nat
      BY <2>1, <2>4, <2>6
    <3> QED
      BY <2>6, <3>1, NoMoreReferences
  <2>12. LocatesWritten(offset_table', todo', values', cursor', pc' # "objects")
    <3>1. \A r \in 0..(1 - 1) : offset_table'[r] = 0
      BY <1>3, <2>4, <2>11
    <3>2. /\ \A q \in Named(todo') : offset_table'[todo'[q].object_ref] = 0
          /\ \A i \in Numbered(values') : offset_table'[values'[i].ref] = 0
      BY <2>6, <3>1 DEF References
    <3>3. \A q \in Named(todo') : ~(q < cursor' \/ (q = cursor' /\ pc' # "objects"))
      <4>1. cursor' = 1 /\ pc' = "objects"
        BY <1>3
      <4>2. \A q \in Named(todo') : q = 1
        BY <2>6
      <4> QED
        BY <4>1, <4>2
    <3>4. \A i \in Numbered(values') : values'[i].state # "written"
      BY <2>6 DEF Numbered
    <3> QED
      BY <3>2, <3>3, <3>4 DEF LocatesWritten
  <2>13. Done'
    BY <1>3 DEF Done
  <2>14. Contents(file', values', next_object_ref')
    BY <2>7 DEF Contents
  <2>15. Tabled'
    BY <1>3, <2>6, <2>7, <2>8, <2>9, <2>10, <2>12, <2>13, <2>14 DEF Tabled
  <2>16. Distinct'
    BY <1>1, <2>6 DEF Distinct
  <2> QED
    BY <1>3, <2>15, <2>16 DEF OInv
<1> QED
  BY <1>2, <1>3 DEF WriteHeader

(***************************************************************************)
(* The objects.                                                            *)
(***************************************************************************)
(* What is known of the table while the plist is written.                   *)
LEMMA TabledFacts ==
  ASSUME OInv, Writing
  PROVE  /\ WInv /\ Tabled /\ Distinct
         /\ todo \in Seq(EventsFor(Len(values))) /\ Len(todo) \in Nat /\ Len(values) \in Nat
         /\ cursor \in Nat \ {0} /\ Laid(todo, {}) /\ file \in Seq(Objects) /\ Len(file) \in Nat
         /\ values \in Seq(ValueRecords) /\ next_object_ref \in Nat /\ num_objects \in Nat
         /\ next_object_ref <= num_objects
         /\ Named(todo) \subseteq 1..Len(todo) /\ Numbered(values) \subseteq 1..Len(values)
<1>1. WInv /\ Tabled /\ Distinct
  BY DEF OInv
<1>2. /\ TypeOK /\ todo \in Seq(EventsFor(Len(values))) /\ Len(todo) \in Nat
      /\ Len(values) \in Nat /\ cursor \in Nat \ {0} /\ Laid(todo, {})
      /\ file \in Seq(Objects)
  BY <1>1, WritingFacts
<1>3. values \in Seq(ValueRecords) /\ Len(file) \in Nat
  BY <1>2 DEF TypeOK, ValueRecords
<1>4. /\ References(todo, values, next_object_ref)
      /\ num_objects = Cardinality(Collections(todo)) + Len(values)
  BY <1>1 DEF Tabled, Counted
<1>5. /\ next_object_ref \in Nat /\ num_objects \in Nat /\ next_object_ref <= num_objects
  BY <1>2, <1>4, NoMoreReferences
<1>6. Named(todo) \subseteq 1..Len(todo) /\ Numbered(values) \subseteq 1..Len(values)
  BY DEF Named, Collections, Numbered
<1> QED
  BY <1>1, <1>2, <1>3, <1>5, <1>6

(* The values are the same, and what was written is.                        *)
ValuesStay ==
  /\ Len(values') = Len(values)
  /\ \A v \in 1..Len(values) :
       /\ values'[v].value = values[v].value
       /\ values[v].state = "written" => values'[v].state = "written"

(* Wherever the output fails, the values are the same.                      *)
LEMMA FailedTable ==
  ASSUME OInv, WInv', pc' = "stopped", ValuesStay
  PROVE  OInv'
<1>1. Distinct'
  BY DEF OInv, Distinct, ValuesStay
<1> QED
  BY <1>1 DEF OInv, Writing

(* A step of write_plist that succeeds.                                     *)
LEMMA ContinuedTable ==
  ASSUME OInv, Writing, WInv', Writing', num_objects' = num_objects, ValuesStay,
         SameShape(todo, todo'), References(todo', values', next_object_ref'),
         pos' = Len(file') + 1,
         Locates(offset_table', num_objects', Len(file'), next_object_ref'),
         LocatesWritten(offset_table', todo', values', cursor', pc' # "objects"),
         Done', Contents(file', values', next_object_ref'),
         pc' = "refs" => file' # <<>> /\ file'[Len(file')].kind # "value"
  PROVE  OInv'
<1>1. Tabled /\ Distinct
  BY DEF OInv
<1>2. Distinct'
  BY <1>1 DEF Distinct, ValuesStay
<1>3. Collections(todo') = Collections(todo)
  BY DEF SameShape, Collections
<1>4. Counted(todo)'
  <2>1. num_objects = Cardinality(Collections(todo)) + Len(values)
    BY <1>1 DEF Tabled, Counted
  <2>2. num_objects' = Cardinality(Collections(todo')) + Len(values')
    BY <1>3, <2>1 DEF ValuesStay
  <2> QED
    BY <2>2 DEF Counted
<1>5. \A i \in 1..Len(values') : Occurs(todo', i)
  <2>1. \A i \in 1..Len(values) : Occurs(todo, i)
    BY <1>1 DEF Tabled
  <2>2. \A q \in 1..Len(todo) : todo[q].kind = "value" => todo'[q] = todo[q]
    BY DEF SameShape
  <2>3. Len(values') = Len(values) /\ Len(todo') = Len(todo)
    BY DEF SameShape, ValuesStay
  <2> QED
    BY <2>1, <2>2, <2>3 DEF Occurs
<1>6. Tabled'
  BY <1>4, <1>5, Zenon DEF Tabled
<1>7. pc' \notin {"idle", "header"}
  BY DEF Writing
<1> QED
  BY <1>2, <1>6, <1>7 DEF OInv

(* A value that has a reference is written, unless it has been.             *)
LEMMA ValueTable ==
  ASSUME OInv, Writing, NEW i \in 1..Len(values), values[i].state # "unassigned",
         WritePlistValue(i)
  PROVE  /\ ValuesStay /\ values'[i].state = "written"
         /\ \/ IOError
            \/ /\ Continue(pc)
               /\ References(todo, values', next_object_ref)
               /\ pos' = Len(file') + 1
               /\ Locates(offset_table', num_objects, Len(file'), next_object_ref)
               /\ LocatesWritten(offset_table', todo, values', cursor, pc # "objects")
               /\ Contents(file', values', next_object_ref)
<1> DEFINE v == values[i]
           o == [kind |-> "value", value |-> v.value, refs |-> <<>>]
           n == next_object_ref
           m == Len(file)
           begun == pc # "objects"
<1>1. /\ WInv /\ Tabled /\ Distinct
      /\ Len(values) \in Nat /\ cursor \in Nat \ {0} /\ file \in Seq(Objects) /\ m \in Nat
      /\ values \in Seq(ValueRecords) /\ n \in Nat /\ num_objects \in Nat /\ n <= num_objects
  BY TabledFacts
<1>2. /\ References(todo, values, n) /\ pos = m + 1
      /\ Locates(offset_table, num_objects, m, n)
      /\ LocatesWritten(offset_table, todo, values, cursor, begun)
      /\ Contents(file, values, n)
  BY <1>1 DEF Tabled
<1>3. v \in ValueRecords /\ i \in Numbered(values)
  BY <1>1, SeqElements DEF Numbered
<1>4. v.state \in {"written", "unwritten"} /\ v.value \in Values
  BY <1>3 DEF ValueRecords
<1>5. CASE v.state = "written"
  <2>1. Continue(pc) /\ UNCHANGED <<values, pos, file, offset_table>>
    BY <1>5 DEF WritePlistValue
  <2>2. ValuesStay
    BY <2>1 DEF ValuesStay
  <2> QED
    BY <1>2, <1>5, <2>1, <2>2
<1>6. CASE v.state = "unwritten"
  <2>1. /\ values' = Written(i)
        /\ IOError \/ (/\ offset_table' = [offset_table EXCEPT ![v.ref] = pos]
                       /\ file' = Append(file, o) /\ pos' = pos + 1 /\ Continue(pc))
    BY <1>6 DEF WritePlistValue, o
  <2>2. /\ Len(values') = Len(values)
        /\ \A j \in 1..Len(values) : j # i => values'[j] = values[j]
        /\ values'[i].value = values[i].value /\ values'[i].state = "written"
        /\ values'[i].ref = values[i].ref
    <3> HIDE DEF v
    <3>1. values \in Seq(ValueRecords) /\ values' = Written(i)
      BY <1>1, <2>1
    <3> QED
      BY <3>1, WrittenValue
  <2>3. ValuesStay
    BY <2>2 DEF ValuesStay
  <2>4. Numbered(values') = Numbered(values)
    BY <1>3, <2>2 DEF Numbered
  <2>5. ASSUME offset_table' = [offset_table EXCEPT ![v.ref] = pos],
               file' = Append(file, o), pos' = pos + 1
        PROVE  /\ References(todo, values', n) /\ pos' = Len(file') + 1
               /\ Locates(offset_table', num_objects, Len(file'), n)
               /\ LocatesWritten(offset_table', todo, values', cursor, begun)
               /\ Contents(file', values', n)
    <3>1. o \in Objects /\ o.refs = <<>> /\ o.value = v.value
      <4>1. <<>> \in Seq(Nat)
        OBVIOUS
      <4> QED
        BY <1>4, <4>1 DEF Objects
    <3> HIDE DEF o
    <3>2. Len(file') = m + 1
      BY <1>1, <2>5, <3>1, AppendFacts
    <3>3. v.ref \in 0..(n - 1) /\ offset_table[v.ref] = 0
      <4>1. v.ref \in 0..(n - 1)
        BY <1>2, <1>3 DEF References
      <4>2. ~(offset_table[v.ref] # 0)
        BY <1>2, <1>3, <1>6 DEF LocatesWritten
      <4> QED
        BY <4>1, <4>2
    <3> DEFINE r == v.ref
               table2 == offset_table'
               m2 == Len(file')
    <3>4. IsRecorded(offset_table, table2, r, m)
      BY <1>2, <2>5 DEF IsRecorded
    <3>a. r \in 0..(n - 1) /\ offset_table[r] = 0 /\ m2 = m + 1 /\ r = values[i].ref
      BY <3>2, <3>3
    <3> HIDE DEF r, table2, m2, m, v, begun
    <3>5. Locates(table2, num_objects, m2, n) /\ OneMoreOffset(offset_table, table2, r, num_objects)
      <4>1. /\ m \in Nat /\ n \in Nat /\ num_objects \in Nat /\ n <= num_objects
            /\ Locates(offset_table, num_objects, m, n)
        BY <1>1, <1>2
      <4> HIDE DEF n
      <4> QED
        <5>1. Locates(table2, num_objects, m2, n)
          BY <3>4, <3>a, <4>1, OffsetRecorded, ZenonT(100)
        <5>2. OneMoreOffset(offset_table, table2, r, num_objects)
          BY <3>4, <3>a, <4>1 DEF IsRecorded, Locates, OneMoreOffset
        <5> QED
          BY <5>1, <5>2
    <3>6. LocatesWritten(table2, todo, values', cursor, begun)
      <4>1. OneMoreWritten(values, values', i)
        BY <2>2, <2>4 DEF Numbered, OneMoreWritten
      <4>2. OneMoreOffset(offset_table, table2, values[i].ref, num_objects)
        BY <3>5, <3>a
      <4>3. /\ References(todo, values, n) /\ i \in Numbered(values)
            /\ LocatesWritten(offset_table, todo, values, cursor, begun)
            /\ n \in Nat /\ num_objects \in Nat /\ n <= num_objects
        BY <1>1, <1>2, <1>3
      <4> HIDE DEF n
      <4> QED
        BY <4>1, <4>2, <4>3, ValueLocated
    <3>7. References(todo, values', n)
      <4>1. \A j \in Numbered(values) : values'[j].ref = values[j].ref
        BY <2>2 DEF Numbered
      <4> QED
        BY <1>2, <2>2, <2>4, <4>1, ReferencesStay
    <3>8. Contents(Append(file, o), values', n)
      <4>1. \A w \in 1..Len(values) : values[w].value = values[i].value => w = i
        BY <1>1 DEF Distinct
      <4>2. /\ values'[i].state = "written" /\ values[i].state # "written"
            /\ o.value = values[i].value
        BY <1>6, <2>2, <3>1 DEF v
      <4>3. /\ \A w \in 1..Len(values) : values'[w].value = values[w].value
            /\ \A w \in 1..Len(values) :
                 values[w].state = "written" => values'[w].state = "written"
        BY <2>3 DEF ValuesStay
      <4> QED
        BY <1>1, <1>2, <2>2, <3>1, <4>1, <4>2, <4>3, ContentsAppended
    <3>9. pos' = m2 + 1
      BY <1>1, <1>2, <2>5, <3>a
    <3> QED
      BY <2>5, <3>5, <3>6, <3>7, <3>8, <3>9 DEF m2, table2
  <2> QED
    BY <2>1, <2>2, <2>3, <2>5
<1> QED
  BY <1>4, <1>5, <1>6

(* What is written stays so, and keys keep their places.                    *)
LEMMA WrittenStays ==
  ASSUME OInv, Writing, ValuesStay, SameShape(todo, todo')
  PROVE  /\ \A q \in 1..Len(todo) : todo[q].kind = "value" /\ IsWritten(q) => IsWritten(q)'
         /\ \A q \in 1..Len(todo) : todo[q].kind = "collection" =>
              /\ KeysOfDict(q)' = KeysOfDict(q)
              /\ \A p \in KeysOfDict(q) : p \in 1..Len(todo) /\ todo[p].kind = "value"
<1>1. /\ todo \in Seq(EventsFor(Len(values))) /\ Len(todo) \in Nat /\ Len(values) \in Nat
      /\ Laid(todo, {})
  BY TabledFacts
<1>2. ASSUME NEW q \in 1..Len(todo), todo[q].kind = "value", IsWritten(q)
      PROVE  IsWritten(q)'
  <2>1. todo[q].index \in 1..Len(values)
    BY <1>1, <1>2, SeqElements, EventFacts
  <2>2. todo'[q] = todo[q]
    BY <1>2 DEF SameShape
  <2>3. values'[todo[q].index].state = "written"
    BY <1>2, <2>1 DEF IsWritten, ValuesStay
  <2> QED
    BY <2>2, <2>3 DEF IsWritten
<1>3. ASSUME NEW q \in 1..Len(todo), todo[q].kind = "collection"
      PROVE  /\ KeysOfDict(q)' = KeysOfDict(q)
             /\ \A p \in KeysOfDict(q) : p \in 1..Len(todo) /\ todo[p].kind = "value"
  <2> DEFINE k == KeysStart(todo[q])
             len == KeyCount(todo[q])
             skip == todo[q].skip
  <2>1. /\ q \in Nat /\ k \in Nat /\ skip \in Nat /\ q + skip <= Len(todo)
        /\ ElementsEnd(todo, q) = q + k
        /\ \A p \in (q + k + 2)..(q + skip) : todo[p].kind = "value"
    BY <1>1, <1>3, PositionFacts
  <2>2. KeysOfDict(q)' = KeysOfDict(q)
    BY <1>3 DEF SameShape, KeysOfDict, ElementsEnd, KeysStart
  <2> HIDE DEF k, skip
  <2>3. KeysOfDict(q) = (q + k + 2)..(q + skip)
    BY <2>1 DEF KeysOfDict, skip
  <2> QED
    BY <1>1, <2>1, <2>2, <2>3
<1> QED
  BY <1>2, <1>3

(* What the cursor has passed is written still, and what it passes.         *)
LEMMA DonePassed ==
  ASSUME OInv, Writing, ValuesStay, SameShape(todo, todo'), Named(todo) \subseteq Named(todo'),
         NEW r, cursor' = r,
         \A q \in 1..Len(todo) : ~(q < cursor) /\ q < r =>
           /\ todo[q].kind = "value" => IsWritten(q)'
           /\ todo[q].kind = "collection" =>
                q \in Named(todo') /\ \A p \in KeysOfDict(q) : IsWritten(p)',
         (pc = "keys" => \A p \in KeysOfDict(cursor) :
                           IsWritten(p) \/ \E k \in 1..Len(pending) : pending[k] = p)'
  PROVE  Done'
<1>1. /\ \A q \in 1..Len(todo) : todo[q].kind = "value" /\ IsWritten(q) => IsWritten(q)'
      /\ \A q \in 1..Len(todo) : todo[q].kind = "collection" =>
           /\ KeysOfDict(q)' = KeysOfDict(q)
           /\ \A p \in KeysOfDict(q) : p \in 1..Len(todo) /\ todo[p].kind = "value"
  BY WrittenStays
<1>2. \A q \in 1..Len(todo) : q < cursor =>
        /\ todo[q].kind = "value" => IsWritten(q)
        /\ todo[q].kind = "collection" =>
             q \in Named(todo) /\ \A p \in KeysOfDict(q) : IsWritten(p)
  BY DEF OInv, Tabled, Done
<1>3. Len(todo') = Len(todo) /\ \A q \in 1..Len(todo) : todo'[q].kind = todo[q].kind
  BY DEF SameShape
<1>4. ASSUME NEW q \in 1..Len(todo), q < r
      PROVE  /\ todo[q].kind = "value" => IsWritten(q)'
             /\ todo[q].kind = "collection" =>
                  q \in Named(todo') /\ \A p \in KeysOfDict(q)' : IsWritten(p)'
  <2>1. CASE q < cursor
    BY <1>1, <1>2, <2>1
  <2>2. CASE ~(q < cursor)
    BY <1>1, <1>4, <2>2
  <2> QED
    BY <2>1, <2>2
<1>5. (\A q \in 1..Len(todo) : q < cursor =>
        /\ todo[q].kind = "value" => IsWritten(q)
        /\ todo[q].kind = "collection" =>
             q \in Named(todo) /\ \A p \in KeysOfDict(q) : IsWritten(p))'
  BY <1>3, <1>4
<1> QED
  BY <1>5 DEF Done

(* The cursor passes events none of which is a collection that has a        *)
(* reference.                                                               *)
LEMMA LocatesPassed ==
  ASSUME NEW table, NEW evs, NEW vals, NEW c \in Nat, NEW r \in Nat, c <= r,
         LocatesWritten(table, evs, vals, c, FALSE),
         \A q \in Named(evs) : q \in Nat /\ ~(c <= q /\ q < r)
  PROVE  LocatesWritten(table, evs, vals, r, FALSE)
<1>1. \A q \in Named(evs) : q < c \/ (q = c /\ FALSE) <=> q < r \/ (q = r /\ FALSE)
  OBVIOUS
<1> QED
  BY <1>1 DEF LocatesWritten

(* The cursor passes the collection that has been begun.                    *)
LEMMA LocatesNext ==
  ASSUME NEW table, NEW evs, NEW vals, NEW c \in Nat,
         LocatesWritten(table, evs, vals, c, TRUE), \A q \in Named(evs) : q \in Nat
  PROVE  LocatesWritten(table, evs, vals, c + 1, FALSE)
<1>1. \A q \in Named(evs) : q < c \/ (q = c /\ TRUE) <=> q < c + 1 \/ (q = c + 1 /\ FALSE)
  OBVIOUS
<1> QED
  BY <1>1 DEF LocatesWritten

(* The event at hand is passed, written as a value or opened.               *)
LEMMA WriteObjectTable ==
  ASSUME OInv, WriteObject, WInv'
  PROVE  OInv'
<1> DEFINE e == todo[cursor]
           n == next_object_ref
           m == Len(file)
<1>1. pc = "objects" /\ cursor <= Len(todo) /\ Writing
  BY DEF WriteObject, Writing
<1>2. /\ WInv /\ Tabled /\ Distinct
      /\ todo \in Seq(EventsFor(Len(values))) /\ Len(todo) \in Nat /\ Len(values) \in Nat
      /\ cursor \in Nat \ {0} /\ Laid(todo, {}) /\ file \in Seq(Objects) /\ m \in Nat
      /\ n \in Nat /\ num_objects \in Nat /\ n <= num_objects
      /\ Named(todo) \subseteq 1..Len(todo) /\ Numbered(values) \subseteq 1..Len(values)
  BY <1>1, TabledFacts
<1>3. /\ References(todo, values, n) /\ pos = m + 1
      /\ Locates(offset_table, num_objects, m, n)
      /\ LocatesWritten(offset_table, todo, values, cursor, FALSE)
      /\ Contents(file, values, n)
  <2>1. pc # "objects" <=> FALSE
    BY <1>1
  <2> QED
    BY <1>2, <2>1 DEF Tabled
<1>4. cursor \in 1..Len(todo) /\ e \in EventsFor(Len(values)) /\ NotAmongKeys(todo, cursor)
      /\ Assignment(cursor)
  <2>1. cursor \in 1..Len(todo)
    BY <1>1, <1>2
  <2> QED
    BY <1>1, <1>2, <2>1, SeqElements, WritingFacts
<1>5. \A q \in Named(todo) : q \in Nat /\ todo[q].kind = "collection"
  BY DEF Named, Collections
<1>6. CASE /\ e.kind = "keys" /\ cursor' = PastKeys(e) /\ Continue("objects")
           /\ UNCHANGED <<values, pos, todo, pending, next_object_ref, offset_table, file>>
  <2> DEFINE r == cursor + 1 + e.len
             c == cursor
  <2>1. r \in Nat /\ c < r
        /\ \A i \in 1..Len(todo) : c <= i /\ i < r => todo[i].kind # "collection"
    <3> HIDE DEF c
    <3>1. c \in 1..Len(todo) /\ NotAmongKeys(todo, c) /\ todo[c].kind = "keys"
          /\ r = c + 1 + todo[c].len
      BY <1>4, <1>6 DEF c
    <3> HIDE DEF r
    <3> QED
      BY <1>2, <3>1, KeysArePassed
  <2>2. cursor' = r /\ pc' = "objects" /\ num_objects' = num_objects /\ Writing'
    BY <1>6 DEF PastKeys, Continue, Writing
  <2>3. ValuesStay /\ SameShape(todo, todo') /\ Named(todo') = Named(todo)
    BY <1>6, SameShapeOfSame DEF ValuesStay
  <2>4. PICK j \in 1..(c - 1) :
          todo[j].kind = "collection" /\ todo[j].ty = "dict" /\ ElementsEnd(todo, j) + 1 = c
    <3>1. LaidKeys(todo, {}, c)
      BY <1>2, <1>4, <1>6 DEF Laid, LaidAt
    <3> QED
      BY <3>1 DEF LaidKeys
  <2>5. KeysOfDict(j) = (c + 1)..(c + e.len)
    <3>1. j \in 1..Len(todo)
      BY <1>2, <1>4
    <3>2. /\ ElementsEnd(todo, j) + 1 + todo[j].len = BlockEnd(todo, j)
          /\ ElementsEnd(todo, j) \in Int /\ todo[j].len \in Nat
          /\ BlockEnd(todo, j) = j + todo[j].skip
      <4>1. todo[j].len \in Nat
        BY <1>2, <2>4, <3>1, SeqElements, EventFacts
      <4> QED
        BY <1>2, <2>4, <3>1, <4>1, WholeFacts DEF BlockEnd
    <3>3. todo[c] = DictionaryKeys(todo[j].len)
      BY <1>2, <2>4, <3>1 DEF Laid, LaidAt, LaidCollection
    <3>4. e.len = todo[j].len
      BY <3>3 DEF DictionaryKeys
    <3>5. ElementsEnd(todo, j) + 2 = c + 1 /\ j + todo[j].skip = c + e.len
      BY <1>2, <2>4, <3>2, <3>4
    <3> QED
      BY <3>5 DEF KeysOfDict
  <2>6. \A p \in (c + 1)..(c + e.len) : p \in 1..Len(todo) => IsWritten(p)
    <3>1. j \in 1..Len(todo) /\ j < cursor
      BY <1>2, <1>4
    <3>2. \A p \in KeysOfDict(j) : IsWritten(p)
      BY <1>2, <2>4, <3>1 DEF Tabled, Done
    <3> QED
      BY <2>5, <3>2
  <2>7. Done'
    <3>1. ASSUME NEW q \in 1..Len(todo), ~(q < cursor), q < r
          PROVE  /\ todo[q].kind = "value" => IsWritten(q)'
                 /\ todo[q].kind = "collection" =>
                      q \in Named(todo') /\ \A p \in KeysOfDict(q) : IsWritten(p)'
      <4>1. todo[q].kind # "collection"
        BY <1>2, <2>1, <3>1
      <4>2. ASSUME todo[q].kind = "value"
            PROVE  IsWritten(q)'
        <5>1. e.len \in Nat
          BY <1>2, <1>4, <1>6, EventFacts
        <5>2. q # cursor /\ q \in (c + 1)..(c + e.len)
          BY <1>2, <1>6, <3>1, <4>2, <5>1, SMTT(40)
        <5>3. IsWritten(q)
          BY <2>6, <5>2
        <5> QED
          BY <1>6, <5>3 DEF IsWritten
      <4> QED
        BY <4>1, <4>2
    <3> HIDE DEF r
    <3> QED
      BY <1>1, <2>2, <2>3, <3>1, DonePassed
  <2>8. LocatesWritten(offset_table, todo, values, r, FALSE)
    <3>1. \A q \in Named(todo) : q \in Nat /\ ~(c <= q /\ q < r)
      BY <1>2, <1>5, <2>1
    <3>2. c \in Nat /\ c <= r
      BY <1>2, <2>1
    <3> HIDE DEF r
    <3> QED
      BY <1>3, <2>1, <3>1, <3>2, LocatesPassed
  <2>9. LocatesWritten(offset_table', todo', values', cursor', pc' # "objects")
    <3>1. pc' # "objects" <=> FALSE
      BY <2>2
    <3> QED
      BY <1>6, <2>2, <2>8, <3>1
  <2> HIDE DEF r
  <2>10. /\ References(todo', values', next_object_ref') /\ pos' = Len(file') + 1
         /\ Locates(offset_table', num_objects', Len(file'), next_object_ref')
         /\ Contents(file', values', next_object_ref')
    BY <1>3, <1>6, <2>2
  <2> QED
    BY <1>1, <2>2, <2>3, <2>7, <2>9, <2>10, ContinuedTable
<1>7. CASE /\ e.kind = "value" /\ WritePlistValue(e.index)
           /\ cursor' = IF pc' = "objects" THEN cursor + 1 ELSE cursor
           /\ UNCHANGED <<todo, pending, next_object_ref>>
  <2> DEFINE i == e.index
  <2>1. i \in 1..Len(values) /\ values[i].state # "unassigned" /\ WritePlistValue(i)
    <3>1. Referred(cursor) /\ Assignment(cursor)
      BY <1>1, <1>2, <1>4, <1>7, AtHandReferred
    <3> QED
      BY <1>2, <1>4, <1>7, <3>1, EventFacts DEF Assignment
  <2>2. IsWritten(cursor) <=> values[i].state = "written"
    BY DEF IsWritten
  <2>a. i = todo[cursor].index
    OBVIOUS
  <2> HIDE DEF i
  <2>3. /\ ValuesStay /\ values'[i].state = "written"
        /\ \/ IOError
           \/ /\ Continue(pc)
              /\ References(todo, values', n)
              /\ pos' = Len(file') + 1
              /\ Locates(offset_table', num_objects, Len(file'), n)
              /\ LocatesWritten(offset_table', todo, values', cursor, pc # "objects")
              /\ Contents(file', values', n)
    BY <1>1, <2>1, ValueTable
  <2>4. CASE IOError
    BY <2>3, <2>4, FailedTable DEF IOError
  <2>5. CASE /\ Continue(pc)
             /\ References(todo, values', n)
             /\ pos' = Len(file') + 1
             /\ Locates(offset_table', num_objects, Len(file'), n)
             /\ LocatesWritten(offset_table', todo, values', cursor, pc # "objects")
             /\ Contents(file', values', n)
    <3>1. pc' = "objects" /\ Writing' /\ cursor' = cursor + 1 /\ num_objects' = num_objects
          /\ n' = n /\ todo' = todo
      BY <1>1, <1>7, <2>5 DEF Continue, Writing
    <3>2. SameShape(todo, todo') /\ Named(todo') = Named(todo)
      BY <3>1, SameShapeOfSame
    <3>3. Done'
      <4> DEFINE r == cursor + 1
      <4>1. ASSUME NEW q \in 1..Len(todo), ~(q < cursor), q < r
            PROVE  /\ todo[q].kind = "value" => IsWritten(q)'
                   /\ todo[q].kind = "collection" =>
                        q \in Named(todo') /\ \A p \in KeysOfDict(q) : IsWritten(p)'
        <5>1. q = cursor
          BY <1>2, <4>1
        <5>2. values'[todo'[q].index].state = "written"
          BY <2>3, <2>a, <3>1, <5>1
        <5> QED
          BY <1>7, <5>1, <5>2 DEF IsWritten
      <4>2. cursor' = r
        BY <3>1
      <4> HIDE DEF r
      <4> QED
        BY <1>1, <2>3, <3>1, <3>2, <4>1, <4>2, DonePassed
    <3>4. LocatesWritten(offset_table', todo, values', cursor + 1, FALSE)
      <4>1. LocatesWritten(offset_table', todo, values', cursor, FALSE)
        <5>1. pc # "objects" <=> FALSE
          BY <1>1
        <5> QED
          BY <2>5, <5>1
      <4>2. \A q \in Named(todo) : q \in Nat /\ ~(cursor <= q /\ q < cursor + 1)
        BY <1>2, <1>5, <1>7
      <4>3. cursor \in Nat /\ cursor + 1 \in Nat /\ cursor <= cursor + 1
        BY <1>2
      <4> DEFINE r == cursor + 1
      <4> HIDE DEF r
      <4> QED
        BY <4>1, <4>2, <4>3, LocatesPassed DEF r
    <3>5. LocatesWritten(offset_table', todo', values', cursor', pc' # "objects")
      <4>1. pc' # "objects" <=> FALSE
        BY <3>1
      <4> QED
        BY <3>1, <3>4, <4>1
    <3>6. /\ References(todo', values', next_object_ref')
          /\ Locates(offset_table', num_objects', Len(file'), next_object_ref')
          /\ Contents(file', values', next_object_ref')
      BY <2>5, <3>1
    <3> QED
      BY <1>1, <2>3, <2>5, <3>1, <3>2, <3>3, <3>5, <3>6, ContinuedTable
  <2> QED
    BY <2>3, <2>4, <2>5
<1>8. CASE /\ e.kind = "collection" /\ UNCHANGED values
           /\ IF e.object_ref = NoRef \/ KeysStart(e) < 0
              THEN Panic
              ELSE \/ IOError
                   \/ /\ offset_table' = [offset_table EXCEPT ![e.object_ref] = pos]
                      /\ file' = Append(file, [kind |-> e.ty, value |-> NoRef, refs |-> <<>>])
                      /\ pos' = pos + 1
                      /\ pending' = Positions(cursor, e)
                      /\ Continue("refs")
                      /\ UNCHANGED <<todo, cursor, next_object_ref>>
  <2> DEFINE o == [kind |-> e.ty, value |-> NoRef, refs |-> <<>>]
             r == e.object_ref
  <2>1. ValuesStay
    BY <1>8 DEF ValuesStay
  <2>2. ~Panic
    BY DEF WInv, Phases, Panic
  <2>3. CASE IOError
    BY <2>1, <2>3, FailedTable DEF IOError
  <2>4. CASE /\ r # NoRef
             /\ offset_table' = [offset_table EXCEPT ![r] = pos]
             /\ file' = Append(file, o)
             /\ pos' = pos + 1 /\ Continue("refs")
             /\ UNCHANGED <<todo, cursor, next_object_ref>>
    <3>1. pc' = "refs" /\ Writing' /\ num_objects' = num_objects
          /\ n' = n /\ todo' = todo /\ cursor' = cursor
      BY <2>4 DEF Continue, Writing
    <3>2. SameShape(todo, todo') /\ Named(todo') = Named(todo)
      BY <3>1, SameShapeOfSame
    <3>3. cursor \in Named(todo)
      BY <1>4, <1>8, <2>4 DEF Named, Collections
    <3>4. r \in 0..(n - 1) /\ offset_table[r] = 0
      <4>1. r \in 0..(n - 1)
        BY <1>3, <3>3 DEF References
      <4>2. ~(cursor < cursor)
        BY <1>2
      <4>3. ~(offset_table[r] # 0)
        BY <1>3, <3>3, <4>2 DEF LocatesWritten
      <4> QED
        BY <4>1, <4>3
    <3>5. o \in Objects /\ o.refs = <<>> /\ o.kind # "value"
      <4>1. e.ty \in {"array", "dict"}
        BY <1>2, <1>4, <1>8, EventFacts
      <4>2. <<>> \in Seq(Nat)
        OBVIOUS
      <4> QED
        BY <4>1, <4>2 DEF Objects
    <3> HIDE DEF o
    <3>6. Len(file') = m + 1 /\ file' # <<>> /\ file'[Len(file')].kind # "value"
      <4>1. Len(file') = m + 1 /\ file'[m + 1] = o
        BY <1>2, <2>4, <3>5, AppendFacts
      <4>2. file' # <<>>
        BY <1>2, <4>1
      <4> QED
        BY <3>5, <4>1, <4>2
    <3>7. pos' = Len(file') + 1
      BY <1>2, <1>3, <2>4, <3>6
    <3> DEFINE table2 == offset_table'
               m2 == Len(file')
    <3>8. IsRecorded(offset_table, table2, r, m) /\ m2 = m + 1
      BY <1>3, <2>4, <3>6 DEF IsRecorded
    <3>9. r = todo[cursor].object_ref
      OBVIOUS
    <3> HIDE DEF r, table2, m2, m
    <3>10. Locates(table2, num_objects, m2, n) /\ OneMoreOffset(offset_table, table2, r, num_objects)
      <4>1. /\ m \in Nat /\ n \in Nat /\ num_objects \in Nat /\ n <= num_objects
            /\ Locates(offset_table, num_objects, m, n)
        BY <1>2, <1>3
      <4> HIDE DEF n
      <4>2. Locates(table2, num_objects, m2, n)
        BY <3>4, <3>8, <4>1, OffsetRecorded, ZenonT(100)
      <4>3. OneMoreOffset(offset_table, table2, r, num_objects)
        BY <3>4, <3>8, <4>1 DEF IsRecorded, Locates, OneMoreOffset
      <4> QED
        BY <4>2, <4>3
    <3>11. LocatesWritten(table2, todo, values, cursor, TRUE)
      <4>1. table2[todo[cursor].object_ref] # 0
            /\ \A s \in 0..(num_objects - 1) :
                 s # todo[cursor].object_ref => table2[s] = offset_table[s]
        BY <3>9, <3>10, Zenon DEF OneMoreOffset
      <4>2. \A q \in Named(todo) : q \in Nat
        BY <1>5
      <4>3. n \in Nat /\ num_objects \in Nat /\ n <= num_objects /\ cursor \in Nat
        BY <1>2
      <4> HIDE DEF n
      <4> QED
        BY <1>3, <3>3, <4>1, <4>2, <4>3, CollectionLocated, ZenonT(60)
    <3>12. LocatesWritten(offset_table', todo', values', cursor', pc' # "objects")
      <4>1. pc' # "objects" <=> TRUE
        BY <3>1
      <4> QED
        BY <1>8, <3>1, <3>11, <4>1 DEF table2
    <3>13. Contents(Append(file, o), values, n)
      BY <1>2, <1>3, <3>5, ContentsAppended
    <3>14. Done'
      <4>1. ASSUME NEW q \in 1..Len(todo), ~(q < cursor), q < cursor
            PROVE  FALSE
        BY <4>1
      <4> QED
        BY <1>1, <2>1, <3>1, <3>2, <4>1, DonePassed
    <3>15. /\ References(todo', values', next_object_ref')
           /\ Locates(offset_table', num_objects', Len(file'), next_object_ref')
           /\ Contents(file', values', next_object_ref')
      BY <1>3, <1>8, <2>4, <3>1, <3>10, <3>13 DEF table2, m2
    <3> QED
      BY <1>1, <2>1, <3>1, <3>2, <3>6, <3>7, <3>12, <3>14, <3>15, ContinuedTable
  <2> QED
    BY <1>8, <2>2, <2>3, <2>4
<1> QED
  BY <1>6, <1>7, <1>8 DEF WriteObject

(* The collection at hand has a reference.                                  *)
LEMMA AtHandNamed ==
  ASSUME WInv, pc \in {"refs", "keys"}
  PROVE  cursor \in Named(todo)
<1>1. cursor \in 1..Len(todo) /\ todo[cursor].kind = "collection" /\ Writing
  BY AtHandFacts
<1>2. /\ todo \in Seq(EventsFor(Len(values))) /\ Len(todo) \in Nat /\ Len(values) \in Nat
      /\ cursor \in Nat \ {0} /\ Laid(todo, {}) /\ BlockEnd(todo, 1) = Len(todo)
      /\ NotAmongKeys(todo, cursor) /\ Assignment(cursor)
  BY <1>1, WritingFacts
<1>3. Referred(cursor)
  <2>1. CASE cursor = 1
    BY <2>1 DEF Referred
  <2>2. CASE cursor # 1
    <3>1. cursor \in 2..Len(todo) /\ todo[cursor].kind # "keys"
      BY <1>1, <2>2
    <3>2. PICK i \in 1..(cursor - 1) : Child(todo, i, cursor)
      BY <1>2, <3>1, ParentExists
    <3>3. i < cursor /\ i \in 1..Len(todo)
      BY <1>1, <3>2
    <3> QED
      BY <3>2, <3>3 DEF Referred, Reffed
  <2> QED
    BY <2>1, <2>2
<1> QED
  BY <1>1, <1>2, <1>3 DEF Assignment, Named, Collections

(* All the references of the collection at hand are written.                *)
LEMMA RefsWrittenTable ==
  ASSUME OInv, RefsWritten, WInv'
  PROVE  OInv'
<1> DEFINE k == KeysStart(todo[cursor])
           len == KeyCount(todo[cursor])
           skip == todo[cursor].skip
<1>1. /\ pc = "refs" /\ pending' = KeyPositions(cursor, todo[cursor])
      /\ pc' = "keys" /\ num_objects' = num_objects
      /\ UNCHANGED <<values, pos, todo, cursor, next_object_ref, offset_table, file>>
  BY DEF RefsWritten, Continue
<1>2. /\ Writing /\ WInv /\ Tabled
      /\ todo \in Seq(EventsFor(Len(values))) /\ Len(values) \in Nat /\ Laid(todo, {})
  BY <1>1, TabledFacts DEF Writing
<1>3. /\ cursor \in 1..Len(todo) /\ todo[cursor].kind = "collection" /\ cursor \in Nat
      /\ k \in Nat /\ len \in Nat /\ skip \in Nat
      /\ ElementsEnd(todo, cursor) = cursor + k
      /\ (len = 0 /\ skip = k) \/ skip = k + 1 + len
  BY <1>1, <1>2, AtHandFacts
<1>4. /\ Len(pending') = len /\ \A j \in 1..len : pending'[j] = cursor + k + 1 + j
  BY <1>1, <1>2, <1>3, KeysArePositions, SMTT(40)
<1>5. ASSUME NEW p \in KeysOfDict(cursor)
      PROVE  \E j \in 1..Len(pending') : pending'[j] = p
  <2>1. p \in (cursor + k + 2)..(cursor + skip)
    BY <1>3 DEF KeysOfDict
  <2> HIDE DEF k, len, skip
  <2>2. p - (cursor + k + 1) \in 1..len /\ cursor + k + 1 + (p - (cursor + k + 1)) = p
    <3>1. /\ cursor \in Nat /\ k \in Nat /\ len \in Nat /\ skip \in Nat
          /\ (len = 0 /\ skip = k) \/ skip = k + 1 + len
      BY <1>3
    <3>2. p \in Int /\ cursor + k + 2 <= p /\ p <= cursor + skip
      BY <2>1, <3>1
    <3> QED
      BY <3>1, <3>2
  <2> QED
    BY <1>4, <2>2
<1> HIDE DEF k, len, skip
<1>6. ValuesStay /\ SameShape(todo, todo') /\ Named(todo') = Named(todo) /\ Writing'
  BY <1>1, SameShapeOfSame DEF ValuesStay, Writing
<1>7. Done'
  <2>1. ASSUME NEW q \in 1..Len(todo), ~(q < cursor), q < cursor
        PROVE  FALSE
    BY <2>1
  <2>2. (\A p \in KeysOfDict(cursor) :
           IsWritten(p) \/ \E j \in 1..Len(pending) : pending[j] = p)'
    <3>1. KeysOfDict(cursor)' = KeysOfDict(cursor)
      BY <1>1 DEF KeysOfDict, ElementsEnd
    <3> QED
      BY <1>5, <3>1
  <2>3. cursor' = cursor
    BY <1>1
  <2> QED
    BY <1>2, <1>6, <2>1, <2>2, <2>3, DonePassed
<1>8. LocatesWritten(offset_table', todo', values', cursor', pc' # "objects")
  <2>1. (pc # "objects" <=> TRUE) /\ (pc' # "objects" <=> TRUE)
    BY <1>1
  <2>2. LocatesWritten(offset_table, todo, values, cursor, TRUE)
    BY <1>2, <2>1 DEF Tabled
  <2> QED
    BY <1>1, <2>1, <2>2
<1>9. /\ References(todo', values', next_object_ref') /\ pos' = Len(file') + 1
      /\ Locates(offset_table', num_objects', Len(file'), next_object_ref')
      /\ Contents(file', values', next_object_ref')
  BY <1>1, <1>2 DEF Tabled
<1> QED
  BY <1>1, <1>2, <1>6, <1>7, <1>8, <1>9, ContinuedTable

(* A key is written.                                                        *)
LEMMA WriteKeyTable ==
  ASSUME OInv, WriteKey, WInv'
  PROVE  OInv'
<1> DEFINE h == Head(pending)
           i == todo[h].index
           n == next_object_ref
<1>1. /\ pc = "keys" /\ pending # <<>> /\ WritePlistValue(i) /\ Writing
      /\ pending' = IF pc' = "keys" THEN Tail(pending) ELSE pending
      /\ UNCHANGED <<todo, cursor, next_object_ref>>
  BY DEF WriteKey, Writing
<1>2. /\ WInv /\ Tabled /\ pending \in Seq(1..Len(todo)) /\ Len(pending) \in Nat
  BY <1>1, TabledFacts, WritingFacts
<1>3. /\ \A j \in 1..Len(pending) : pending[j] \in KeysAt
      /\ \A q \in KeysAt : Keyed(q)
      /\ \A q \in KeysAt : q \in 1..Len(todo) /\ todo[q].kind = "value"
                           /\ todo[q].index \in 1..Len(values)
      /\ KeysAt = KeysOfDict(cursor)
  <2>1. AtHand /\ \A q \in KeysAt : /\ q \in 1..Len(todo) /\ todo[q].kind = "value"
                                    /\ todo[q].index \in 1..Len(values)
    BY <1>1, <1>2, AtHandFacts
  <2> QED
    BY <1>1, <2>1 DEF AtHand, KeysAt, KeysOfDict
<1>4. /\ h = pending[1] /\ h \in KeysAt /\ Len(Tail(pending)) = Len(pending) - 1
      /\ \A j \in 1..Len(Tail(pending)) : Tail(pending)[j] = pending[j + 1]
      /\ Len(pending) # 0
  <2>1. Len(pending) # 0
    BY <1>1, <1>2, EmptyIffZero
  <2>2. 1 \in 1..Len(pending) /\ h = pending[1]
    BY <1>2, <2>1
  <2> QED
    BY <1>1, <1>2, <1>3, <2>1, <2>2
<1>5. i \in 1..Len(values) /\ values[i].state # "unassigned"
  BY <1>3, <1>4 DEF Keyed
<1>6. i = todo[h].index
  OBVIOUS
<1> HIDE DEF h, i
<1>7. /\ ValuesStay /\ values'[i].state = "written"
      /\ \/ IOError
         \/ /\ Continue(pc)
            /\ References(todo, values', n)
            /\ pos' = Len(file') + 1
            /\ Locates(offset_table', num_objects, Len(file'), n)
            /\ LocatesWritten(offset_table', todo, values', cursor, pc # "objects")
            /\ Contents(file', values', n)
  BY <1>1, <1>5, ValueTable
<1>8. CASE IOError
  BY <1>7, <1>8, FailedTable DEF IOError
<1>9. CASE /\ Continue(pc)
           /\ References(todo, values', n)
           /\ pos' = Len(file') + 1
           /\ Locates(offset_table', num_objects, Len(file'), n)
           /\ LocatesWritten(offset_table', todo, values', cursor, pc # "objects")
           /\ Contents(file', values', n)
  <2>1. /\ pc' = "keys" /\ Writing' /\ num_objects' = num_objects /\ pending' = Tail(pending)
        /\ n' = n /\ todo' = todo /\ cursor' = cursor
    BY <1>1, <1>9 DEF Continue, Writing
  <2>2. SameShape(todo, todo') /\ Named(todo') = Named(todo)
    BY <2>1, SameShapeOfSame
  <2>3. ASSUME NEW p \in KeysOfDict(cursor)
        PROVE  IsWritten(p)' \/ \E j \in 1..Len(pending') : pending'[j] = p
    <3>1. CASE p = h
      BY <1>6, <1>7, <2>1, <3>1 DEF IsWritten
    <3>2. CASE IsWritten(p)
      BY <1>1, <1>3, <1>7, <2>2, <3>2, WrittenStays
    <3>3. CASE p # h /\ ~IsWritten(p)
      <4>1. PICK j \in 1..Len(pending) : pending[j] = p
        BY <1>1, <1>2, <3>3 DEF Tabled, Done
      <4>2. j # 1
        BY <1>4, <3>3, <4>1
      <4>3. j - 1 \in 1..Len(Tail(pending)) /\ (j - 1) + 1 = j
        BY <1>2, <1>4, <4>2
      <4>4. Tail(pending)[j - 1] = p
        BY <1>4, <4>1, <4>3
      <4> QED
        BY <2>1, <4>3, <4>4
    <3> QED
      BY <3>1, <3>2, <3>3
  <2>4. Done'
    <3>1. ASSUME NEW q \in 1..Len(todo), ~(q < cursor), q < cursor
          PROVE  FALSE
      BY <3>1
    <3>2. (\A p \in KeysOfDict(cursor) :
             IsWritten(p) \/ \E j \in 1..Len(pending) : pending[j] = p)'
      <4>1. KeysOfDict(cursor)' = KeysOfDict(cursor)
        BY <2>1 DEF KeysOfDict, ElementsEnd
      <4> QED
        BY <2>3, <4>1
    <3>3. cursor' = cursor
      BY <2>1
    <3> QED
      BY <1>1, <1>7, <2>2, <3>1, <3>2, <3>3, DonePassed
  <2>5. LocatesWritten(offset_table', todo', values', cursor', pc' # "objects")
    <3>1. (pc # "objects" <=> TRUE) /\ (pc' # "objects" <=> TRUE)
      BY <1>1, <2>1
    <3>2. LocatesWritten(offset_table', todo, values', cursor, TRUE)
      BY <1>9, <3>1
    <3> QED
      BY <2>1, <3>1, <3>2
  <2>6. /\ References(todo', values', next_object_ref')
        /\ Locates(offset_table', num_objects', Len(file'), next_object_ref')
        /\ Contents(file', values', next_object_ref')
    BY <1>9, <2>1
  <2>7. pc' # "refs"
    BY <2>1
  <2> QED
    BY <1>1, <1>7, <1>9, <2>1, <2>2, <2>4, <2>5, <2>6, <2>7, ContinuedTable
<1> QED
  BY <1>7, <1>8, <1>9

(* The collection at hand is done with.                                     *)
LEMMA KeysWrittenTable ==
  ASSUME OInv, KeysWritten, WInv'
  PROVE  OInv'
<1>1. /\ pc = "keys" /\ pending = <<>> /\ cursor' = cursor + 1 /\ pc' = "objects"
      /\ num_objects' = num_objects
      /\ UNCHANGED <<values, pos, todo, pending, next_object_ref, offset_table, file>>
  BY DEF KeysWritten, Continue
<1>2. /\ Writing /\ WInv /\ Tabled /\ cursor \in Nat
      /\ Named(todo) \subseteq 1..Len(todo)
  BY <1>1, TabledFacts DEF Writing
<1>3. cursor \in Named(todo) /\ todo[cursor].kind = "collection"
  BY <1>1, <1>2, AtHandNamed, AtHandFacts
<1>4. ValuesStay /\ SameShape(todo, todo') /\ Named(todo') = Named(todo) /\ Writing'
  BY <1>1, SameShapeOfSame DEF ValuesStay, Writing
<1>5. \A p \in KeysOfDict(cursor) : IsWritten(p)
  <2>1. Len(pending) = 0
    BY <1>1
  <2> QED
    BY <1>1, <1>2, <2>1 DEF Tabled, Done
<1>6. Done'
  <2> DEFINE r == cursor + 1
  <2>1. ASSUME NEW q \in 1..Len(todo), ~(q < cursor), q < r
        PROVE  /\ todo[q].kind = "value" => IsWritten(q)'
               /\ todo[q].kind = "collection" =>
                    q \in Named(todo') /\ \A p \in KeysOfDict(q) : IsWritten(p)'
    <3>1. q = cursor
      BY <1>2, <2>1
    <3>2. \A p \in KeysOfDict(q) : IsWritten(p)'
      BY <1>1, <1>5, <3>1 DEF IsWritten
    <3> QED
      BY <1>3, <1>4, <3>1, <3>2
  <2>2. cursor' = r /\ pc' # "keys"
    BY <1>1
  <2> HIDE DEF r
  <2> QED
    BY <1>2, <1>4, <2>1, <2>2, DonePassed
<1>7. LocatesWritten(offset_table', todo', values', cursor', pc' # "objects")
  <2>1. (pc # "objects" <=> TRUE) /\ (pc' # "objects" <=> FALSE)
    BY <1>1
  <2>2. LocatesWritten(offset_table, todo, values, cursor, TRUE)
    BY <1>2, <2>1 DEF Tabled
  <2>3. \A q \in Named(todo) : q \in Nat
    BY <1>2
  <2>4. LocatesWritten(offset_table, todo, values, cursor + 1, FALSE)
    BY <1>2, <2>2, <2>3, LocatesNext
  <2> QED
    BY <1>1, <2>1, <2>4
<1>8. /\ References(todo', values', next_object_ref') /\ pos' = Len(file') + 1
      /\ Locates(offset_table', num_objects', Len(file'), next_object_ref')
      /\ Contents(file', values', next_object_ref')
  BY <1>1, <1>2 DEF Tabled
<1> QED
  BY <1>1, <1>2, <1>4, <1>6, <1>7, <1>8, ContinuedTable

(* A number is given to what had none, for which there is no offset yet.    *)
LEMMA LocatesFresh ==
  ASSUME NEW table, NEW evs, NEW evs2, NEW vals, NEW vals2, NEW c \in Nat, NEW n, table[n] = 0,
         LocatesWritten(table, evs, vals, c, TRUE),
         \A q \in Named(evs2) : \/ q \in Named(evs) /\ evs2[q].object_ref = evs[q].object_ref
                                \/ q \in Nat /\ c < q /\ evs2[q].object_ref = n,
         \A i \in Numbered(vals2) : \/ i \in Numbered(vals) /\ vals2[i] = vals[i]
                                    \/ vals2[i].ref = n /\ vals2[i].state = "unwritten"
  PROVE  LocatesWritten(table, evs2, vals2, c, TRUE)
<1>1. ASSUME NEW q \in Named(evs2)
      PROVE  table[evs2[q].object_ref] # 0 <=> q < c \/ (q = c /\ TRUE)
  <2>1. CASE q \in Named(evs) /\ evs2[q].object_ref = evs[q].object_ref
    BY <2>1 DEF LocatesWritten
  <2>2. CASE q \in Nat /\ c < q /\ evs2[q].object_ref = n
    BY <2>2
  <2> QED
    BY <2>1, <2>2
<1>2. ASSUME NEW i \in Numbered(vals2)
      PROVE  table[vals2[i].ref] # 0 <=> vals2[i].state = "written"
  <2>1. CASE i \in Numbered(vals) /\ vals2[i] = vals[i]
    BY <2>1 DEF LocatesWritten
  <2>2. CASE vals2[i].ref = n /\ vals2[i].state = "unwritten"
    BY <2>2
  <2> QED
    BY <2>1, <2>2
<1> QED
  BY <1>1, <1>2, Zenon DEF LocatesWritten

(* What the references and the offsets are once ref is written, with n      *)
(* references given before.                                                 *)
RefGiven(n, ref) ==
  /\ SameShape(todo, todo') /\ Named(todo) \subseteq Named(todo')
  /\ References(todo', values', next_object_ref')
  /\ next_object_ref' \in Nat /\ n <= next_object_ref'
  /\ ref \in Nat /\ ref < next_object_ref'
  /\ Locates(offset_table, num_objects, Len(file), next_object_ref')
  /\ LocatesWritten(offset_table, todo', values', cursor, TRUE)

(* A collection gets the next number.                                       *)
LEMMA CollectionGiven ==
  ASSUME OInv, pc = "refs", pending # <<>>, NEW h, h = Head(pending),
         todo[h].kind = "collection", NEW n, n = next_object_ref,
         values' = values, GivenRef(todo, todo', h, n), next_object_ref' = n + 1
  PROVE  RefGiven(n, n)
<1>1. /\ Writing /\ WInv /\ Tabled
      /\ todo \in Seq(EventsFor(Len(values))) /\ Len(todo) \in Nat /\ Len(values) \in Nat
      /\ cursor \in Nat /\ n \in Nat /\ num_objects \in Nat
      /\ Named(todo) \subseteq 1..Len(todo)
  BY TabledFacts DEF Writing
<1>2. /\ References(todo, values, n)
      /\ Locates(offset_table, num_objects, Len(file), n)
      /\ num_objects = Cardinality(Collections(todo)) + Len(values)
  BY <1>1 DEF Tabled, Counted
<1>3. LocatesWritten(offset_table, todo, values, cursor, TRUE)
  <2>1. pc # "objects" <=> TRUE
    OBVIOUS
  <2> QED
    BY <1>1, <2>1 DEF Tabled
<1>4. h \in 1..Len(todo) /\ cursor < h /\ todo[h].object_ref = NoRef
  BY <1>1, NextToRefer
<1>5. h \notin Named(todo)
  BY <1>4 DEF Named
<1> DEFINE evs2 == todo'
           m == n + 1
           k == Len(values)
<1>6. /\ SameShape(todo, evs2) /\ \A q \in 1..Len(todo) : q # h => evs2[q] = todo[q]
      /\ evs2[h].object_ref = n
  <2>1. GivenRef(todo, evs2, h, n) /\ todo \in Seq(EventsFor(k)) /\ k \in Nat
    BY <1>1
  <2> HIDE DEF evs2, k
  <2>2. SameShape(todo, evs2)
    BY <1>1, <1>4, <2>1, CollectionReferred
  <2>3. \A q \in 1..Len(todo) : q # h => evs2[q] = todo[q]
    BY <1>1, <1>4, <2>1, CollectionReferred
  <2>4. evs2[h].object_ref = n
    BY <1>1, <1>4, <2>1, CollectionReferred
  <2> QED
    BY <2>2, <2>3, <2>4
<1>7. m = n + 1 /\ m \in Nat /\ n <= m /\ n < m /\ todo \in Seq(EventsFor(k)) /\ k \in Nat
      /\ Len(values) = k
  BY <1>1
<1> HIDE DEF evs2, m, k
<1>8. References(evs2, values, m)
  BY <1>1, <1>2, <1>4, <1>5, <1>6, <1>7, CollectionNumbered, ZenonT(30)
<1>9. /\ Named(evs2) = Named(todo) \cup {h} /\ Collections(evs2) = Collections(todo)
      /\ \A q \in Named(todo) : evs2[q] = todo[q]
  BY <1>1, <1>4, <1>5, <1>6 DEF Named, Collections, SameShape, NoRef
<1>10. m <= num_objects
  <2>1. num_objects = Cardinality(Collections(evs2)) + Len(values) /\ Len(evs2) \in Nat
    BY <1>1, <1>2, <1>6, <1>9 DEF SameShape
  <2> QED
    BY <1>1, <1>8, <2>1, NoMoreReferences
<1>11. Locates(offset_table, num_objects, Len(file), m) /\ offset_table[n] = 0
  <2>1. /\ n \in Nat /\ m = n + 1 /\ num_objects \in Nat /\ m <= num_objects
        /\ Locates(offset_table, num_objects, Len(file), n)
    BY <1>1, <1>2, <1>7, <1>10
  <2> QED
    BY <2>1, LocatesMore
<1>12. LocatesWritten(offset_table, evs2, values, cursor, TRUE)
  <2>1. h \in Nat /\ \A q \in Named(evs2) :
          \/ q \in Named(todo) /\ evs2[q].object_ref = todo[q].object_ref
          \/ q \in Nat /\ cursor < q /\ evs2[q].object_ref = n
    BY <1>4, <1>6, <1>9
  <2> QED
    BY <1>1, <1>3, <1>11, <2>1, LocatesFresh
<1> QED
  BY <1>1, <1>6, <1>7, <1>8, <1>9, <1>11, <1>12 DEF RefGiven, evs2, m

(* A value gets the next number.                                            *)
LEMMA ValueGiven ==
  ASSUME OInv, pc = "refs", NEW i \in 1..Len(values), values[i].state = "unassigned",
         NEW n, n = next_object_ref,
         values' = Assigned(i, n), todo' = todo, next_object_ref' = n + 1
  PROVE  RefGiven(n, n)
<1>1. /\ Writing /\ WInv /\ Tabled
      /\ Len(todo) \in Nat /\ Len(values) \in Nat
      /\ cursor \in Nat /\ n \in Nat /\ num_objects \in Nat
      /\ values \in Seq(ValueRecords)
  BY TabledFacts DEF Writing
<1>2. /\ References(todo, values, n)
      /\ Locates(offset_table, num_objects, Len(file), n)
      /\ num_objects = Cardinality(Collections(todo)) + Len(values)
  BY <1>1 DEF Tabled, Counted
<1>3. LocatesWritten(offset_table, todo, values, cursor, TRUE)
  <2>1. pc # "objects" <=> TRUE
    OBVIOUS
  <2> QED
    BY <1>1, <2>1 DEF Tabled
<1> DEFINE vals2 == values'
           m == n + 1
<1>4. vals2 = Assigned(i, n) /\ m = n + 1 /\ m \in Nat /\ n <= m /\ n < m
  BY <1>1
<1> HIDE DEF vals2, m
<1>5. /\ Len(vals2) = Len(values) /\ \A j \in 1..Len(values) : j # i => vals2[j] = values[j]
      /\ vals2[i].state = "unwritten" /\ vals2[i].ref = n
  <2>1. n \in Nat /\ values \in Seq(ValueRecords) /\ vals2 = Assigned(i, n)
    BY <1>1, <1>4
  <2>2. IsAssigned(vals2, i, n)
    BY <2>1, AssignedValue, ZenonT(30)
  <2> QED
    BY <2>2 DEF IsAssigned
<1>6. References(todo, vals2, m)
  BY <1>1, <1>2, <1>4, <1>5, ValueNumbered
<1>7. m <= num_objects
  <2>1. num_objects = Cardinality(Collections(todo)) + Len(vals2) /\ Len(vals2) \in Nat
    BY <1>1, <1>2, <1>5
  <2> QED
    BY <1>1, <1>6, <2>1, NoMoreReferences
<1>8. Locates(offset_table, num_objects, Len(file), m) /\ offset_table[n] = 0
  <2>1. /\ n \in Nat /\ m = n + 1 /\ num_objects \in Nat /\ m <= num_objects
        /\ Locates(offset_table, num_objects, Len(file), n)
    BY <1>1, <1>2, <1>4, <1>7
  <2> QED
    BY <2>1, LocatesMore, ZenonT(30)
<1>9. LocatesWritten(offset_table, todo, vals2, cursor, TRUE)
  <2>1. \A j \in Numbered(vals2) : \/ j \in Numbered(values) /\ vals2[j] = values[j]
                                   \/ vals2[j].ref = n /\ vals2[j].state = "unwritten"
    BY <1>5 DEF Numbered
  <2> QED
    BY <1>1, <1>3, <1>8, <2>1, LocatesFresh
<1> QED
  BY <1>1, <1>4, <1>6, <1>8, <1>9, SameShapeOfSame DEF RefGiven, vals2, m

(* A value has its number already.                                          *)
LEMMA ValueGivenBefore ==
  ASSUME OInv, pc = "refs", NEW i \in 1..Len(values), values[i].state # "unassigned",
         NEW n, n = next_object_ref, NEW ref, ref = values[i].ref,
         values' = values, todo' = todo, next_object_ref' = n
  PROVE  RefGiven(n, ref)
<1>1. /\ Writing /\ Tabled /\ n \in Nat
  BY TabledFacts DEF Writing
<1>2. /\ References(todo, values, n)
      /\ Locates(offset_table, num_objects, Len(file), n)
  BY <1>1 DEF Tabled
<1>3. LocatesWritten(offset_table, todo, values, cursor, TRUE)
  <2>1. pc # "objects" <=> TRUE
    OBVIOUS
  <2> QED
    BY <1>1, <2>1 DEF Tabled
<1>4. ref \in 0..(n - 1)
  BY <1>2 DEF References, Numbered
<1>5. ref \in Nat /\ ref < n /\ n <= n
  BY <1>1, <1>4
<1> QED
  BY <1>1, <1>2, <1>3, <1>5, SameShapeOfSame DEF RefGiven

(* The next of the collection at hand gets a reference if it has none, and  *)
(* its reference is written.                                                *)
LEMMA WriteRefTable ==
  ASSUME OInv, WriteRef, WInv'
  PROVE  OInv'
<1> DEFINE h == Head(pending)
           e == todo[h]
           n == next_object_ref
           fresh == e.kind = "collection" \/ values[e.index].state = "unassigned"
           ref == IF fresh THEN n ELSE values[e.index].ref
           m == Len(file)
<1>1. pc = "refs" /\ pending # <<>> /\ Writing
  BY DEF WriteRef, Writing
<1>2. /\ WInv /\ Tabled /\ Len(values) \in Nat /\ values \in Seq(ValueRecords)
      /\ file \in Seq(Objects) /\ m \in Nat /\ n \in Nat
  BY <1>1, TabledFacts
<1>3. /\ pos = m + 1 /\ Contents(file, values, n) /\ file # <<>> /\ file[m].kind # "value"
  BY <1>1, <1>2 DEF Tabled
<1>4. /\ e.kind = "value" => e.index \in 1..Len(values)
      /\ e.kind \in {"value", "collection"}
  BY <1>1, <1>2, NextToRefer
<1>5. /\ values' = IF e.kind = "value" /\ fresh THEN Assigned(e.index, ref) ELSE values
      /\ \/ IOError
         \/ /\ file' = [file EXCEPT ![m].refs = Append(@, ref)]
            /\ todo' = IF e.kind = "collection" THEN [todo EXCEPT ![h].object_ref = ref] ELSE todo
            /\ next_object_ref' = IF fresh THEN ref + 1 ELSE n
            /\ Continue("refs")
            /\ UNCHANGED <<pos, cursor, offset_table>>
  <2>1. ~Panic
    BY DEF WInv, Phases, Panic
  <2> QED
    BY <2>1 DEF WriteRef
<1>6. ValuesStay
  <2>1. CASE e.kind = "value" /\ fresh
    <3> DEFINE i == e.index
    <3>1. /\ i \in 1..Len(values) /\ values[i].state = "unassigned" /\ n \in Nat
          /\ values' = Assigned(i, n)
      BY <1>2, <1>4, <1>5, <2>1
    <3> HIDE DEF i
    <3>2. /\ Len(values') = Len(values) /\ \A j \in 1..Len(values) : j # i => values'[j] = values[j]
          /\ values'[i].value = values[i].value
      <4>1. n \in Nat /\ values \in Seq(ValueRecords) /\ values' = Assigned(i, n)
        BY <1>2, <3>1
      <4> HIDE DEF n
      <4>2. IsAssigned(values', i, n)
        BY <3>1, <4>1, AssignedValue, ZenonT(30)
      <4> QED
        BY <4>2 DEF IsAssigned
    <3> QED
      BY <3>1, <3>2 DEF ValuesStay
  <2>2. CASE ~(e.kind = "value" /\ fresh)
    BY <1>5, <2>2 DEF ValuesStay
  <2> QED
    BY <2>1, <2>2
<1>7. CASE IOError
  BY <1>6, <1>7, FailedTable DEF IOError
<1>8. CASE /\ file' = [file EXCEPT ![m].refs = Append(@, ref)]
           /\ todo' = IF e.kind = "collection" THEN [todo EXCEPT ![h].object_ref = ref] ELSE todo
           /\ next_object_ref' = IF fresh THEN ref + 1 ELSE n
           /\ Continue("refs")
           /\ UNCHANGED <<pos, cursor, offset_table>>
  <2>1. RefGiven(n, ref)
    <3>1. CASE e.kind = "collection"
      <4>1. /\ values' = values /\ ref = n /\ next_object_ref' = n + 1
            /\ GivenRef(todo, todo', h, n)
        BY <1>5, <1>8, <3>1 DEF GivenRef
      <4>2. todo[h].kind = "collection" /\ h = Head(pending)
        BY <3>1
      <4> HIDE DEF h, e, fresh, ref
      <4>3. RefGiven(n, n)
        BY <1>1, <4>1, <4>2, CollectionGiven
      <4> QED
        BY <4>1, <4>3
    <3>2. CASE e.kind = "value" /\ fresh
      <4> DEFINE i == e.index
      <4>1. /\ i \in 1..Len(values) /\ values[i].state = "unassigned" /\ ref = n
            /\ values' = Assigned(i, n) /\ todo' = todo /\ next_object_ref' = n + 1
        BY <1>4, <1>5, <1>8, <3>2
      <4> HIDE DEF i, e, fresh, ref
      <4>2. RefGiven(n, n)
        BY <1>1, <4>1, ValueGiven
      <4> QED
        BY <4>1, <4>2
    <3>3. CASE e.kind = "value" /\ ~fresh
      <4> DEFINE i == e.index
      <4>1. /\ i \in 1..Len(values) /\ values[i].state # "unassigned" /\ ref = values[i].ref
            /\ values' = values /\ todo' = todo /\ next_object_ref' = n
        BY <1>4, <1>5, <1>8, <3>3
      <4> HIDE DEF i, e, fresh, ref
      <4> QED
        BY <1>1, <4>1, ValueGivenBefore
    <3> QED
      BY <1>4, <3>1, <3>2, <3>3
  <2>2. /\ pc' = "refs" /\ Writing' /\ num_objects' = num_objects /\ cursor' = cursor
        /\ pos' = pos /\ offset_table' = offset_table
    BY <1>8 DEF Continue, Writing
  <2> HIDE DEF h, e, fresh, ref
  <2> DEFINE n2 == next_object_ref'
  <2>3. /\ SameShape(todo, todo') /\ Named(todo) \subseteq Named(todo')
        /\ References(todo', values', n2) /\ n2 \in Nat /\ n <= n2 /\ ref \in Nat /\ ref < n2
        /\ Locates(offset_table, num_objects, m, n2)
        /\ LocatesWritten(offset_table, todo', values', cursor, TRUE)
    BY <2>1 DEF RefGiven
  <2> HIDE DEF n2
  <2>4. /\ Contents(file', values', n2) /\ Len(file') = m
        /\ file' # <<>> /\ file'[m].kind # "value"
    <3>1. /\ file \in Seq(Objects) /\ file # <<>> /\ ref \in Nat /\ file[Len(file)].kind # "value"
          /\ n \in Nat /\ n2 \in Nat /\ n <= n2 /\ ref < n2 /\ Contents(file, values, n)
          /\ file' = [file EXCEPT ![Len(file)].refs = Append(@, ref)]
      BY <1>2, <1>3, <1>8, <2>3
    <3>2. /\ Len(values') = Len(values)
          /\ \A v \in 1..Len(values) : values'[v].value = values[v].value
          /\ \A v \in 1..Len(values) :
               values[v].state = "written" => values'[v].state = "written"
      BY <1>6 DEF ValuesStay
    <3> DEFINE file2 == file'
               vals2 == values'
    <3>3. /\ file2 = [file EXCEPT ![Len(file)].refs = Append(@, ref)]
          /\ Len(vals2) = Len(values)
          /\ \A v \in 1..Len(values) : vals2[v].value = values[v].value
          /\ \A v \in 1..Len(values) :
               values[v].state = "written" => vals2[v].state = "written"
      BY <3>1, <3>2
    <3> HIDE DEF n, file2, vals2, m
    <3>4. /\ Contents(file2, vals2, n2) /\ Len(file2) = Len(file)
          /\ file2 # <<>> /\ file2[Len(file)].kind # "value"
      <4>1. Contents(file2, vals2, n2)
        BY <3>1, <3>3, ContentsReferred, ZenonT(100)
      <4>2. Len(file2) = Len(file)
        BY <3>1, <3>3, ContentsReferred, ZenonT(100)
      <4>3. file2 # <<>>
        BY <3>1, <3>3, ContentsReferred, ZenonT(100)
      <4>4. file2[Len(file)].kind # "value"
        BY <3>1, <3>3, ContentsReferred, ZenonT(100)
      <4> QED
        BY <4>1, <4>2, <4>3, <4>4
    <3> QED
      BY <3>4 DEF file2, vals2, m
  <2>5. Done'
    <3>1. ASSUME NEW q \in 1..Len(todo), ~(q < cursor), q < cursor
          PROVE  FALSE
      BY <3>1
    <3> QED
      BY <1>1, <1>6, <2>2, <2>3, <3>1, DonePassed
  <2>6. LocatesWritten(offset_table', todo', values', cursor', pc' # "objects")
    <3>1. pc' # "objects" <=> TRUE
      BY <2>2
    <3> QED
      BY <2>2, <2>3, <3>1
  <2>7. /\ pos' = Len(file') + 1
        /\ Locates(offset_table', num_objects', Len(file'), next_object_ref')
        /\ file'[Len(file')].kind # "value"
    BY <1>3, <2>2, <2>3, <2>4 DEF n2
  <2>8. References(todo', values', next_object_ref') /\ Contents(file', values', next_object_ref')
    BY <2>3, <2>4 DEF n2
  <2> QED
    BY <1>1, <1>6, <2>2, <2>3, <2>4, <2>5, <2>6, <2>7, <2>8, ContinuedTable
<1> QED
  BY <1>5, <1>7, <1>8

(***************************************************************************)
(* The whole.                                                              *)
(***************************************************************************)
(* Without events or values there is nothing to number.                     *)
LEMMA NothingBuffered ==
  ASSUME WInv', events' = <<>>, values' = <<>>, num_objects' = 0, pos' = 0, pc' = "idle"
  PROVE  OInv'
<1>1. Collections(<<>>) = {} /\ Cardinality({}) = 0
  BY FS_EmptySet DEF Collections
<1>2. Len(values') = 0 /\ Collections(events') = {}
  BY <1>1
<1>3. num_objects' = Cardinality(Collections(events')) + Len(values')
  BY <1>1, <1>2
<1>4. Unnumbered'
  BY <1>2, <1>3 DEF Unnumbered, Counted
<1>5. Distinct'
  BY <1>2 DEF Distinct
<1> QED
  BY <1>4, <1>5 DEF OInv, Writing

(* The trailer; the writer is ready for another plist.                      *)
LEMMA WriteTrailerTable ==
  ASSUME OInv, WriteTrailer, WInv'
  PROVE  OInv'
<1>1. pc = "objects" /\ Writing
  BY DEF WriteTrailer, Writing
<1>2. CASE IOError /\ UNCHANGED values
  BY <1>2, StoppedTable DEF IOError
<1>3. CASE Reset /\ pc' = "idle" /\ UNCHANGED buffer
  <2>1. events = <<>> /\ events' = events
    BY <1>1, <1>3, WritingFacts DEF OInv, buffer
  <2> QED
    BY <1>3, <2>1, NothingBuffered DEF Reset
<1> QED
  BY <1>2, <1>3 DEF WriteTrailer

(* The client may rest.                                                     *)
LEMMA UnchangedTable ==
  ASSUME OInv, UNCHANGED vars, WInv'
  PROVE  OInv'
<1>1. /\ events' = events /\ dictionary_key_events' = dictionary_key_events
      /\ values' = values /\ num_objects' = num_objects /\ pos' = pos /\ pc' = pc
      /\ todo' = todo /\ cursor' = cursor /\ pending' = pending
      /\ next_object_ref' = next_object_ref /\ offset_table' = offset_table /\ file' = file
  BY DEF vars, buffer, output, history
<1>2. Distinct' <=> Distinct
  BY <1>1 DEF Distinct
<1>3. Unnumbered' <=> Unnumbered
  BY <1>1 DEF Unnumbered, Counted, AwaitsEnd
<1>4. Tabled' <=> Tabled
  BY <1>1 DEF Tabled, Counted, Done, IsWritten, KeysOfDict
<1>5. Writing' <=> Writing
  BY <1>1 DEF Writing
<1> QED
  BY <1>1, <1>2, <1>3, <1>4, <1>5 DEF OInv

(* Every step preserves the invariant.                                      *)
LEMMA NextTable == OInv /\ [Next]_vars => OInv'
<1> SUFFICES ASSUME OInv, [Next]_vars
             PROVE  OInv'
  OBVIOUS
<1>1. WInv'
  BY NextKeeps DEF OInv
<1>2. ASSUME NEW ty \in {"array", "dict"}, WriteStartCollection(ty)
      PROVE  OInv'
  BY <1>1, <1>2, WriteStartCollectionTable
<1>3. CASE WriteEndCollection
  BY <1>1, <1>3, WriteEndCollectionTable
<1>4. ASSUME NEW v \in Values, WriteValue(v)
      PROVE  OInv'
  BY <1>1, <1>4, WriteValueTable
<1>5. CASE WritePlist
  BY <1>1, <1>5, WriteHeaderTable, WriteObjectTable, WriteRefTable, RefsWrittenTable,
     WriteKeyTable, KeysWrittenTable, WriteTrailerTable DEF WritePlist
<1>6. CASE Rest \/ UNCHANGED vars
  BY <1>1, <1>6, UnchangedTable DEF Rest
<1> QED
  BY <1>2, <1>3, <1>4, <1>5, <1>6 DEF Next

(* The invariant holds at first.                                            *)
LEMMA InitTable == Init => OInv
<1> SUFFICES ASSUME Init
             PROVE  OInv
  OBVIOUS
<1>1. WInv /\ events = <<>> /\ values = <<>> /\ num_objects = 0 /\ pos = 0 /\ pc = "idle"
  BY InitKeeps DEF Init
<1>2. Collections(<<>>) = {} /\ Cardinality({}) = 0
  BY FS_EmptySet DEF Collections
<1>3. Len(values) = 0 /\ Collections(events) = {}
  BY <1>1, <1>2
<1>4. num_objects = Cardinality(Collections(events)) + Len(values)
  <2>1. Cardinality(Collections(events)) = 0
    BY <1>2, <1>3
  <2> QED
    BY <1>1, <1>3, <2>1
<1>5. Unnumbered
  BY <1>1, <1>3, <1>4 DEF Unnumbered, Counted
<1>6. Distinct
  BY <1>3 DEF Distinct
<1> QED
  BY <1>1, <1>5, <1>6 DEF OInv, Writing

(* Every object has a reference once the events are gone through, and every *)
(* reference is that of an object written.                                  *)
LEMMA AllWritten ==
  ASSUME OInv, pc = "objects", cursor > Len(todo)
  PROVE  /\ next_object_ref = num_objects /\ Len(file) = num_objects
         /\ offset_table \in [0..(num_objects - 1) -> 0..Len(file)]
         /\ \A r \in 0..(num_objects - 1) : offset_table[r] # 0
<1> DEFINE n == next_object_ref
           N == 0..(num_objects - 1)
<1>1. /\ Tabled /\ todo \in Seq(EventsFor(Len(values)))
      /\ Len(todo) \in Nat /\ Len(values) \in Nat /\ cursor \in Nat \ {0}
      /\ num_objects \in Nat /\ Len(file) \in Nat
      /\ Named(todo) \subseteq 1..Len(todo)
  BY TabledFacts DEF Writing
<1>2. /\ References(todo, values, n)
      /\ num_objects = Cardinality(Collections(todo)) + Len(values)
      /\ Locates(offset_table, num_objects, Len(file), n)
      /\ \A i \in 1..Len(values) : Occurs(todo, i)
  BY <1>1 DEF Tabled, Counted
<1>3. \A q \in 1..Len(todo) : q < cursor
  BY <1>1
<1>4. Named(todo) = Collections(todo)
  <2>1. \A q \in 1..Len(todo) : todo[q].kind = "collection" => q \in Named(todo)
    BY <1>1, <1>3 DEF Tabled, Done
  <2> QED
    BY <2>1 DEF Named, Collections
<1>5. \A i \in 1..Len(values) : values[i].state = "written"
  <2> TAKE i \in 1..Len(values)
  <2>1. PICK q \in 1..Len(todo) : todo[q].kind = "value" /\ todo[q].index = i
    BY <1>2 DEF Occurs
  <2> QED
    BY <1>1, <1>3, <2>1 DEF Tabled, Done, IsWritten
<1>6. Numbered(values) = 1..Len(values)
  BY <1>5 DEF Numbered
<1>7. n = num_objects
  BY <1>1, <1>2, <1>4, <1>6, AsManyReferences
<1>8. ASSUME NEW r \in N
      PROVE  offset_table[r] # 0
  <2>1. r \in 0..(n - 1)
    BY <1>7
  <2>2. (\E q \in Named(todo) : todo[q].object_ref = r)
          \/ \E i \in Numbered(values) : values[i].ref = r
    BY <1>2, <2>1 DEF References
  <2>3. CASE \E q \in Named(todo) : todo[q].object_ref = r
    BY <1>1, <1>3, <2>3 DEF Tabled, LocatesWritten
  <2>4. CASE \E i \in Numbered(values) : values[i].ref = r
    BY <1>1, <1>5, <1>6, <2>4 DEF Tabled, LocatesWritten
  <2> QED
    BY <2>2, <2>3, <2>4
<1>9. Len(file) = num_objects
  <2>1. Located(offset_table, num_objects) = N
    BY <1>8 DEF Located
  <2>2. Cardinality(N) = num_objects
    <3>1. Cardinality(0..(num_objects - 1))
            = IF 0 > num_objects - 1 THEN 0 ELSE (num_objects - 1) - 0 + 1
      BY <1>1, FS_Interval
    <3> QED
      BY <1>1, <3>1
  <2>3. Cardinality(Located(offset_table, num_objects)) = Len(file)
    BY <1>2 DEF Locates
  <2> QED
    BY <2>1, <2>2, <2>3
<1> QED
  BY <1>2, <1>7, <1>8, <1>9 DEF Locates

(* The invariant says what ObjectTableComplete does.                        *)
LEMMA TableComplete == OInv => ObjectTableComplete
<1> SUFFICES ASSUME OInv
             PROVE  ObjectTableComplete
  OBVIOUS
<1> DEFINE N == 0..(num_objects - 1)
<1>1. ASSUME Writing
      PROVE  next_object_ref <= num_objects
  BY <1>1, TabledFacts
<1>2. ASSUME pc = "objects", cursor > Len(todo)
      PROVE  /\ next_object_ref = num_objects
             /\ Len(file) = num_objects
             /\ DOMAIN offset_table = N
             /\ \A r \in DOMAIN offset_table : offset_table[r] \in 1..Len(file)
             /\ \A r, q \in DOMAIN offset_table : offset_table[r] = offset_table[q] => r = q
             /\ \A i \in 1..Len(file) : \A k \in 1..Len(file[i].refs) :
                  file[i].refs[k] \in DOMAIN offset_table
             /\ \A i, j \in 1..Len(file) :
                  file[i].kind = "value" /\ file[j] = file[i] => i = j
  <2>1. /\ Tabled /\ file \in Seq(Objects) /\ num_objects \in Nat /\ Len(file) \in Nat
    BY <1>2, TabledFacts DEF Writing
  <2>2. /\ next_object_ref = num_objects /\ Len(file) = num_objects
        /\ offset_table \in [N -> 0..Len(file)]
        /\ \A r \in N : offset_table[r] # 0
    BY <1>2, AllWritten
  <2>3. /\ Locates(offset_table, num_objects, Len(file), next_object_ref)
        /\ Contents(file, values, next_object_ref)
    BY <2>1 DEF Tabled
  <2> HIDE DEF N
  <2>4. DOMAIN offset_table = N
    BY <2>2
  <2>5. \A r \in N : offset_table[r] \in 1..Len(file)
    BY <2>1, <2>2
  <2>6. \A r, q \in N : offset_table[r] = offset_table[q] => r = q
    BY <2>2, <2>3 DEF Locates, Located, N
  <2>7. ASSUME NEW i \in 1..Len(file), NEW k \in 1..Len(file[i].refs)
        PROVE  file[i].refs[k] \in N
    <3>1. file[i] \in Objects
      BY <2>1, SeqElements
    <3>2. file[i].refs \in Seq(Nat)
      BY <3>1 DEF Objects
    <3>3. file[i].refs[k] \in Nat
      BY <3>2, SeqElements
    <3>4. file[i].refs[k] < num_objects
      BY <2>2, <2>3 DEF Contents
    <3> QED
      BY <2>1, <3>3, <3>4 DEF N
  <2>8. \A i, j \in 1..Len(file) : file[i].kind = "value" /\ file[j] = file[i] => i = j
    BY <2>3 DEF Contents
  <2> QED
    BY <2>2, <2>4, <2>5, <2>6, <2>7, <2>8
<1> QED
  BY <1>1, <1>2 DEF ObjectTableComplete, Writing

(* Every object gets exactly one reference below the number of objects, and *)
(* is written exactly once, where its entry of the offset table says: the   *)
(* size of a reference, fixed before any was given, suffices, and whatever  *)
(* the reader looks up is there.                                            *)
THEOREM ObjectTableIsComplete == Spec => []ObjectTableComplete
<1>1. Init => OInv
  BY InitTable
<1>2. OInv /\ [Next]_vars => OInv'
  BY NextTable
<1>3. OInv => ObjectTableComplete
  BY TableComplete
<1> QED
  BY <1>1, <1>2, <1>3, PTL DEF Spec

(***************************************************************************)
(* The layout of the buffer counts elements, where Laid only nests blocks. *)
(***************************************************************************)
(* From p on, n blocks of evs end before end.                               *)
Steps(evs, p, n, end, at) ==
  /\ at[0] = p /\ at[n] = end
  /\ \A k \in 1..n : at[k - 1] \in p..(end - 1) /\ at[k] = Skip(evs, at[k - 1])

Walk(evs, p, n, end) == \E at \in [0..n -> Nat] : Steps(evs, p, n, end, at)

(* The elements before end that the open collection at o has counted, except *)
(* the last one, if it is open (inner is 1).                                *)
Count(evs, o, inner) == evs[o].len - KeysOf(evs[o]) - inner
OpenWalk(evs, o, inner, end) ==
  Count(evs, o, inner) \in Nat /\ Walk(evs, o + 1, Count(evs, o, inner), end)

Inner(stack, d) == IF d < Len(stack) THEN 1 ELSE 0
NextOf(stack, d, n) == IF d < Len(stack) THEN stack[d + 1] ELSE n + 1

OpenWalks(evs, stack) ==
  \A d \in 1..Len(stack) :
    OpenWalk(evs, stack[d], Inner(stack, d), NextOf(stack, d, Len(evs)))

(* The len elements of the closed collection at i.                          *)
ClosedWalk(evs, i) == Walk(evs, i + 1, evs[i].len, ElementsEnd(evs, i) + 1)
ClosedWalks(evs, open) ==
  \A i \in 1..Len(evs) : evs[i].kind = "collection" /\ i \notin open => ClosedWalk(evs, i)

(* The keys that follow the keys event at i are strings.                    *)
KeysAreStrings(evs, vals, i) ==
  \A k \in 1..evs[i].len : vals[evs[i + k].index].value \in Strings
StringKeys(evs, vals) ==
  \A i \in 1..Len(evs) : evs[i].kind = "keys" => KeysAreStrings(evs, vals, i)

WaitingStrings ==
  \A k \in 1..Len(dictionary_key_events) : values[dictionary_key_events[k]].value \in Strings

Walked ==
  /\ OpenWalks(events, collection_stack)
  /\ ClosedWalks(events, OpenSet)
  /\ StringKeys(events, values)
  /\ WaitingStrings

LInv == WInv /\ (pc \in {"idle", "header"} => Walked)

(* No blocks.                                                               *)
LEMMA WalkEmpty ==
  ASSUME NEW evs, NEW p \in Nat
  PROVE  Walk(evs, p, 0, p)
<1> DEFINE at == [k \in 0..0 |-> p]
<1>1. at \in [0..0 -> Nat] /\ Steps(evs, p, 0, p, at)
  BY DEF Steps
<1> QED
  BY <1>1, Zenon DEF Walk

(* One block more.                                                          *)
LEMMA WalkFurther ==
  ASSUME NEW evs, NEW p \in Nat, NEW n \in Nat, NEW end \in Nat, Walk(evs, p, n, end),
         p <= end, NEW end2 \in Nat, end2 = Skip(evs, end), end < end2
  PROVE  Walk(evs, p, n + 1, end2)
<1>1. PICK at \in [0..n -> Nat] : Steps(evs, p, n, end, at)
  BY DEF Walk
<1> DEFINE at2 == [k \in 0..(n + 1) |-> IF k = n + 1 THEN end2 ELSE at[k]]
<1>2. at2 \in [0..(n + 1) -> Nat]
  OBVIOUS
<1>3. at2[0] = p /\ at2[n + 1] = end2
  BY <1>1 DEF Steps
<1>4. ASSUME NEW k \in 1..(n + 1)
      PROVE  at2[k - 1] \in p..(end2 - 1) /\ at2[k] = Skip(evs, at2[k - 1])
  <2>1. CASE k = n + 1
    <3>1. at2[k - 1] = end /\ at2[k] = end2
      BY <1>1, <2>1 DEF Steps
    <3> QED
      BY <3>1
  <2>2. CASE k \in 1..n
    <3>1. at2[k - 1] = at[k - 1] /\ at2[k] = at[k]
      BY <2>2
    <3>2. at[k - 1] \in p..(end - 1) /\ at[k] = Skip(evs, at[k - 1])
      BY <1>1, <2>2 DEF Steps
    <3> QED
      BY <3>1, <3>2
  <2> QED
    BY <2>1, <2>2
<1> HIDE DEF at2
<1>5. Steps(evs, p, n + 1, end2, at2)
  BY <1>3, <1>4 DEF Steps
<1> QED
  BY <1>2, <1>5, Zenon DEF Walk

(* Blocks that end where they did.                                          *)
LEMMA WalkKept ==
  ASSUME NEW evs, NEW evs2, NEW p, NEW n \in Nat, NEW end, Walk(evs, p, n, end),
         \A q \in p..(end - 1) : Skip(evs2, q) = Skip(evs, q)
  PROVE  Walk(evs2, p, n, end)
<1>1. PICK at \in [0..n -> Nat] : Steps(evs, p, n, end, at)
  BY DEF Walk
<1>2. Steps(evs2, p, n, end, at)
  BY <1>1 DEF Steps
<1> QED
  BY <1>2 DEF Walk

(* PastElements, a recursive function, is where the walk ends.              *)
LEMMA WalkPast ==
  ASSUME NEW evs, NEW i \in Nat, NEW n \in Nat, NEW end, Walk(evs, i + 1, n, end)
  PROVE  PastElements(evs, i, n) = end
<1> DEFINE Goes(f) == f = [k \in 0..n |-> IF k = 0 THEN i + 1 ELSE Skip(evs, f[k - 1])]
           past == CHOOSE f : Goes(f)
<1>1. PICK at \in [0..n -> Nat] : Steps(evs, i + 1, n, end, at)
  BY DEF Walk
<1>2. Goes(at)
  <2> DEFINE f == [k \in 0..n |-> IF k = 0 THEN i + 1 ELSE Skip(evs, at[k - 1])]
  <2>1. ASSUME NEW k \in 0..n
        PROVE  at[k] = f[k]
    <3>1. CASE k = 0
      BY <1>1, <3>1 DEF Steps
    <3>2. CASE k \in 1..n
      BY <1>1, <3>2 DEF Steps
    <3> QED
      BY <3>1, <3>2
  <2>2. f = [k \in 0..n |-> f[k]]
    OBVIOUS
  <2> HIDE DEF f
  <2>3. at = f
    BY <1>1, <2>1, <2>2
  <2> QED
    BY <2>3 DEF f
<1>3. Goes(past)
  <2> HIDE DEF Goes
  <2> QED
    BY <1>2
<1> HIDE DEF past
<1>4. past[0] = i + 1 /\ \A k \in 1..n : past[k] = Skip(evs, past[k - 1])
  BY <1>3
<1> DEFINE T == {k \in 0..n : past[k] = at[k]}
<1>5. 0 \in T
  BY <1>1, <1>4 DEF Steps
<1>6. ASSUME NEW k \in 1..n, k - 1 \in T
      PROVE  k \in T
  <2>1. past[k - 1] = at[k - 1]
    BY <1>6
  <2>2. at[k] = Skip(evs, at[k - 1])
    BY <1>1 DEF Steps
  <2> QED
    BY <1>4, <2>1, <2>2
<1>7. n \in T
  <2> HIDE DEF T
  <2>1. 0..n \subseteq T
    BY <1>5, <1>6, BoundedInduction
  <2> QED
    BY <2>1
<1>8. past[n] = end
  BY <1>1, <1>7 DEF Steps
<1> QED
  BY <1>8 DEF PastElements, past

(* The keys of the open dictionaries, added up by a recursive function.     *)
LEMMA KeysAddUp == BufferTypes /\ KeysWait => BufferedKeys = Len(dictionary_key_events)
<1> SUFFICES ASSUME BufferTypes, KeysWait
             PROVE  BufferedKeys = Len(dictionary_key_events)
  OBVIOUS
<1> DEFINE n == Len(collection_stack)
           Goes(f) == f = [d \in 0..n |-> IF d = 0 THEN 0
                                          ELSE f[d - 1] + KeysOf(events[collection_stack[d]])]
           keys == CHOOSE f : Goes(f)
<1>1. n \in Nat
  BY DEF BufferTypes
<1>2. PICK w \in [0..n -> Nat] :
        /\ w[0] = 0 /\ w[n] = Len(dictionary_key_events)
        /\ \A d \in 1..n : w[d] = w[d - 1] + KeysOf(events[collection_stack[d]])
  BY DEF KeysWait, Waits
<1> HIDE DEF n
<1>3. Goes(w)
  <2> DEFINE f == [d \in 0..n |-> IF d = 0 THEN 0
                                  ELSE w[d - 1] + KeysOf(events[collection_stack[d]])]
  <2>1. ASSUME NEW d \in 0..n
        PROVE  w[d] = f[d]
    <3>1. CASE d = 0
      BY <1>2, <3>1
    <3>2. CASE d \in 1..n
      BY <1>1, <1>2, <3>2
    <3> QED
      BY <1>1, <3>1, <3>2
  <2>2. f = [d \in 0..n |-> f[d]]
    OBVIOUS
  <2> HIDE DEF f
  <2>3. w = f
    BY <1>2, <2>1, <2>2
  <2> QED
    BY <2>3 DEF f
<1>4. Goes(keys)
  <2> HIDE DEF Goes
  <2> QED
    BY <1>3
<1> HIDE DEF keys
<1>5. /\ keys[0] = 0
      /\ \A d \in 1..n : keys[d] = keys[d - 1] + KeysOf(events[collection_stack[d]])
  BY <1>1, <1>4
<1> DEFINE T == {d \in 0..n : keys[d] = w[d]}
<1>6. 0 \in T
  BY <1>1, <1>2, <1>5
<1>7. ASSUME NEW d \in 1..n, d - 1 \in T
      PROVE  d \in T
  <2>1. keys[d - 1] = w[d - 1]
    BY <1>7
  <2> QED
    BY <1>1, <1>2, <1>5, <2>1
<1>8. n \in T
  <2> HIDE DEF T
  <2>1. 0..n \subseteq T
    BY <1>1, <1>6, <1>7, BoundedInduction
  <2> QED
    BY <1>1, <2>1
<1>9. keys[n] = Len(dictionary_key_events)
  BY <1>2, <1>8
<1> QED
  BY <1>9 DEF BufferedKeys, keys, n

(* What is open may be counted in another way, if it counts as much.        *)
LEMMA OpenWalkKept ==
  ASSUME NEW evs, NEW evs2, NEW o \in Nat, NEW inner, NEW inner2, NEW end,
         OpenWalk(evs, o, inner, end),
         Count(evs2, o, inner2) = Count(evs, o, inner),
         \A q \in (o + 1)..(end - 1) : Skip(evs2, q) = Skip(evs, q)
  PROVE  OpenWalk(evs2, o, inner2, end)
<1> DEFINE c == Count(evs, o, inner)
<1>1. c \in Nat /\ Walk(evs, o + 1, c, end) /\ Count(evs2, o, inner2) = c
  BY DEF OpenWalk
<1> HIDE DEF c
<1>2. Walk(evs2, o + 1, c, end)
  BY <1>1, WalkKept
<1> QED
  BY <1>1, <1>2 DEF OpenWalk

(* One element more, a closed one.                                          *)
LEMMA OpenWalkFurther ==
  ASSUME NEW evs, NEW evs2, NEW o \in Nat, NEW inner, NEW inner2,
         NEW end \in Nat, o < end, OpenWalk(evs, o, inner, end),
         Count(evs2, o, inner2) = Count(evs, o, inner) + 1,
         \A q \in (o + 1)..(end - 1) : Skip(evs2, q) = Skip(evs, q),
         NEW end2 \in Nat, end2 = Skip(evs2, end), end < end2
  PROVE  OpenWalk(evs2, o, inner2, end2)
<1> DEFINE c == Count(evs, o, inner)
<1>1. c \in Nat /\ Walk(evs, o + 1, c, end) /\ Count(evs2, o, inner2) = c + 1
  BY DEF OpenWalk
<1> HIDE DEF c
<1>2. Walk(evs2, o + 1, c, end)
  BY <1>1, WalkKept
<1>3. Walk(evs2, o + 1, c + 1, end2)
  BY <1>1, <1>2, WalkFurther
<1> QED
  BY <1>1, <1>3 DEF OpenWalk

(* What is closed stays as it is laid out when the events are extended.     *)
LEMMA ClosedWalkKept ==
  ASSUME NEW n \in Nat, NEW evs \in Seq(EventsFor(n)), NEW evs2, NEW open,
         Continues(evs, evs2, open), Laid(evs, open),
         NEW i \in 1..Len(evs), i \notin open, evs[i].kind = "collection", ClosedWalk(evs, i)
  PROVE  evs2[i] = evs[i] /\ ClosedWalk(evs2, i)
<1> DEFINE end == ElementsEnd(evs, i)
           len == evs[i].len
<1>1. evs2[i] = evs[i]
  BY DEF Continues
<1>2. /\ end \in Int /\ end <= Len(evs) /\ i \in Nat /\ Len(evs) \in Nat /\ len \in Nat
      /\ \A q \in (i + 1)..end : q \notin open
  <2>1. LaidAt(evs, open, i) /\ LaidCollection(evs, open, i)
    BY DEF Laid, LaidAt
  <2>2. BlockEnd(evs, i) <= Len(evs)
    BY <2>1 DEF LaidAt
  <2>3. /\ i \in Nat /\ Len(evs) \in Nat /\ end \in Int /\ len \in Nat
        /\ end <= BlockEnd(evs, i) /\ BlockEnd(evs, i) \in Nat
    BY BlockFacts
  <2>4. \A q \in (i + 1)..end : q \notin open
    BY <2>1 DEF LaidCollection
  <2> HIDE DEF end, len
  <2> QED
    BY <2>2, <2>3, <2>4
<1>3. ElementsEnd(evs2, i) = end /\ evs2[i].len = len
  BY <1>1 DEF ElementsEnd
<1>4. Walk(evs, i + 1, len, end + 1)
  BY DEF ClosedWalk
<1> HIDE DEF end, len
<1>5. ASSUME NEW q \in (i + 1)..((end + 1) - 1)
      PROVE  Skip(evs2, q) = Skip(evs, q)
  <2>1. q \in 1..Len(evs) /\ q \notin open
    BY <1>2
  <2>2. evs2[q] = evs[q]
    BY <2>1 DEF Continues
  <2> QED
    BY <2>2 DEF Skip
<1>6. Walk(evs2, i + 1, len, end + 1)
  BY <1>2, <1>4, <1>5, WalkKept, ZenonT(30)
<1> QED
  BY <1>1, <1>3, <1>6 DEF ClosedWalk

(* The values stay what they are.                                           *)
SameContents(vals, vals2) == \A j \in 1..Len(vals) : vals2[j].value = vals[j].value

(* The keys of a closed dictionary stay strings.                            *)
LEMMA StringKeysKept ==
  ASSUME NEW vals, Len(vals) \in Nat, NEW evs \in Seq(EventsFor(Len(vals))), NEW evs2, NEW open,
         NEW vals2, SameContents(vals, vals2),
         Continues(evs, evs2, open), Laid(evs, open),
         \A o \in open : evs[o].kind = "collection",
         NEW i \in 1..Len(evs), evs[i].kind = "keys", KeysAreStrings(evs, vals, i)
  PROVE  evs2[i] = evs[i] /\ KeysAreStrings(evs2, vals2, i)
<1>1. i \notin open
  OBVIOUS
<1>2. evs2[i] = evs[i]
  BY <1>1 DEF Continues
<1>3. /\ i \in Nat /\ Len(evs) \in Nat /\ evs[i].len \in Nat /\ i + evs[i].len <= Len(evs)
      /\ \A p \in (i + 1)..(i + evs[i].len) : evs[p].kind = "value"
  <2>1. LaidAt(evs, open, i) /\ LaidKeys(evs, open, i)
    BY <1>1 DEF Laid, LaidAt
  <2>2. BlockEnd(evs, i) <= Len(evs)
    BY <2>1 DEF LaidAt
  <2>3. i \in Nat /\ Len(evs) \in Nat /\ evs[i].len \in Nat /\ BlockEnd(evs, i) = i + evs[i].len
    BY BlockFacts
  <2> QED
    BY <2>1, <2>2, <2>3 DEF LaidKeys
<1>4. ASSUME NEW k \in 1..evs[i].len
      PROVE  vals2[evs2[i + k].index].value \in Strings
  <2>1. i + k \in 1..Len(evs) /\ i + k \in (i + 1)..(i + evs[i].len)
    BY <1>3
  <2>2. evs[i + k].kind = "value"
    BY <1>3, <2>1
  <2>3. i + k \notin open
    BY <2>2
  <2>4. evs2[i + k] = evs[i + k]
    BY <2>1, <2>3 DEF Continues
  <2>5. evs[i + k].index \in 1..Len(vals)
    <3>1. evs[i + k] \in EventsFor(Len(vals))
      BY <2>1, SeqElements
    <3> QED
      BY <2>2, <3>1, EventFacts
  <2>6. vals[evs[i + k].index].value \in Strings
    BY DEF KeysAreStrings
  <2> QED
    BY <2>4, <2>5, <2>6 DEF SameContents
<1> QED
  BY <1>2, <1>4 DEF KeysAreStrings

(* What is known of the open collections when the client calls.             *)
LEMMA OpenPositions ==
  ASSUME BufferTypes, OpenCollections, NEW d \in 1..Len(collection_stack)
  PROVE  /\ collection_stack[d] \in 1..Len(events) /\ collection_stack[d] \in Nat
         /\ Len(events) \in Nat /\ Len(collection_stack) \in Nat
         /\ d < Len(collection_stack) =>
              /\ collection_stack[d + 1] \in 1..Len(events)
              /\ collection_stack[d] < collection_stack[d + 1]
              /\ collection_stack[d] # Last(collection_stack)
              /\ Inner(collection_stack, d) = 1
              /\ NextOf(collection_stack, d, Len(events)) = collection_stack[d + 1]
         /\ d = Len(collection_stack) =>
              /\ collection_stack[d] = Last(collection_stack)
              /\ Inner(collection_stack, d) = 0
              /\ NextOf(collection_stack, d, Len(events)) = Len(events) + 1
<1> DEFINE s == collection_stack
           m == Len(s)
           n == Len(events)
<1>1. m \in Nat /\ n \in Nat /\ \A b \in 1..m : s[b] \in 1..n
  BY SeqElements DEF BufferTypes
<1>2. s # <<>>
  <2>1. Len(s) # 0
    BY <1>1
  <2> QED
    BY <2>1, EmptySeq
<1>3. Last(s) = s[m] /\ \A b \in 1..(m - 1) : s[b] # Last(s)
  BY <1>2, InnermostFacts
<1>4. ASSUME d < m
      PROVE  /\ s[d + 1] \in 1..n /\ s[d] < s[d + 1] /\ s[d] # Last(s)
             /\ Inner(s, d) = 1 /\ NextOf(s, d, n) = s[d + 1]
  <2>1. d + 1 \in 1..m /\ d \in 1..(m - 1) /\ d < d + 1
    BY <1>1, <1>4
  <2>2. s[d] < s[d + 1]
    BY <2>1 DEF OpenCollections
  <2> QED
    BY <1>1, <1>3, <1>4, <2>1, <2>2 DEF Inner, NextOf
<1>5. ASSUME d = m
      PROVE  s[d] = Last(s) /\ Inner(s, d) = 0 /\ NextOf(s, d, n) = n + 1
  <2>1. ~(d < m)
    BY <1>1, <1>5
  <2> QED
    BY <1>3, <1>5, <2>1 DEF Inner, NextOf
<1> QED
  BY <1>1, <1>4, <1>5

(* What one element more makes of the counts.                               *)
LEMMA IncrementedCounts ==
  ASSUME BufferTypes, OpenCollections
  PROVE  /\ \A q \in 1..Len(events) : Skip(Incremented, q) = Skip(events, q)
         /\ \A q \in 1..Len(events) : q # Last(collection_stack) =>
              \A x \in Nat : Count(Incremented, q, x) = Count(events, q, x)
         /\ collection_stack # <<>> /\ ExpectingKey =>
              Count(Incremented, Last(collection_stack), 0)
                = Count(events, Last(collection_stack), 0)
         /\ collection_stack # <<>> /\ ~ExpectingKey =>
              /\ Count(Incremented, Last(collection_stack), 0)
                   = Count(events, Last(collection_stack), 0) + 1
              /\ Count(Incremented, Last(collection_stack), 1)
                   = Count(events, Last(collection_stack), 0)
<1> DEFINE l == Last(collection_stack)
<1>1. CASE collection_stack = <<>>
  <2>1. Incremented = events
    BY <1>1 DEF Incremented
  <2> QED
    BY <1>1, <2>1
<1>2. CASE collection_stack # <<>>
  <2>1. /\ l \in 1..Len(events) /\ events[l] \in EventsFor(Len(values))
        /\ events[l].kind = "collection"
    BY <1>2, InnermostFacts
  <2>2. events \in Seq(EventsFor(Len(values))) /\ Len(values) \in Nat
    BY DEF BufferTypes
  <2>3. /\ \A q \in 1..Len(events) : q # l => Incremented[q] = events[q]
        /\ Incremented[l].kind = events[l].kind
        /\ Incremented[l].ty = events[l].ty /\ Incremented[l].len = events[l].len + 1
    BY <1>2, <2>1, IncrementedFacts
  <2>4. Incremented[l].skip = events[l].skip
    <3>1. Incremented = [events EXCEPT ![l].len = @ + 1]
      BY <1>2 DEF Incremented
    <3>2. events[l].skip \in Nat
      BY <2>1, <2>2, EventFacts
    <3>3. events[l] = [kind |-> "collection", ty |-> events[l].ty, len |-> events[l].len,
                       skip |-> events[l].skip, object_ref |-> events[l].object_ref]
      BY <2>1, <2>2, EventFacts
    <3> HIDE DEF l
    <3>4. Incremented[l] = [events[l] EXCEPT !.len = @ + 1]
      BY <2>1, <2>2, <3>1
    <3> QED
      BY <3>3, <3>4
  <2>5. /\ events[l].len \in Nat /\ KeysOf(events[l]) \in Nat
        /\ ExpectingKey => KeysOf(Incremented[l]) = KeysOf(events[l]) + 1
        /\ ~ExpectingKey => KeysOf(Incremented[l]) = KeysOf(events[l])
    <3>1. ExpectingKey <=> events[l].ty = "dict" /\ events[l].len % 2 = 0
      BY <1>2 DEF ExpectingKey
    <3> HIDE DEF l
    <3> QED
      BY <2>1, <2>2, <2>3, <3>1, KeysFacts, EventFacts
  <2> HIDE DEF l
  <2>6. ASSUME NEW q \in 1..Len(events)
        PROVE  Skip(Incremented, q) = Skip(events, q)
    <3>1. CASE q = l
      BY <2>3, <2>4, <3>1 DEF Skip
    <3>2. CASE q # l
      BY <2>3, <3>2 DEF Skip
    <3> QED
      BY <3>1, <3>2
  <2>7. \A q \in 1..Len(events) : q # l =>
          \A x \in Nat : Count(Incremented, q, x) = Count(events, q, x)
    BY <2>3 DEF Count
  <2>8. ExpectingKey => Count(Incremented, l, 0) = Count(events, l, 0)
    BY <2>3, <2>5 DEF Count
  <2>9. ~ExpectingKey => /\ Count(Incremented, l, 0) = Count(events, l, 0) + 1
                         /\ Count(Incremented, l, 1) = Count(events, l, 0)
    BY <2>3, <2>5 DEF Count
  <2> QED
    BY <2>6, <2>7, <2>8, <2>9 DEF l
<1> QED
  BY <1>1, <1>2

(* The open collections in evs2, which begins as the events with one        *)
(* element more.                                                            *)
LEMMA IncrementedWalks ==
  ASSUME BufferTypes, OpenCollections, OpenWalks(events, collection_stack),
         NEW n, n = Len(events), NEW m, m = Len(collection_stack),
         NEW evs2, \A q \in 1..n : evs2[q] = Incremented[q],
         NEW d \in 1..m
  PROVE  /\ d < m => OpenWalk(evs2, collection_stack[d], 1, collection_stack[d + 1])
         /\ d = m /\ ExpectingKey => OpenWalk(evs2, collection_stack[d], 0, n + 1)
         /\ d = m /\ ~ExpectingKey => OpenWalk(evs2, collection_stack[d], 1, n + 1)
         /\ d = m /\ ~ExpectingKey /\ Skip(evs2, n + 1) = n + 2 =>
              OpenWalk(evs2, collection_stack[d], 0, n + 2)
<1> DEFINE o == collection_stack[d]
           l == Last(collection_stack)
           next == collection_stack[d + 1]
<1>1. /\ o \in 1..n /\ o \in Nat /\ n \in Nat /\ m \in Nat
      /\ d < m => /\ next \in 1..n /\ o < next /\ o # l
                  /\ Inner(collection_stack, d) = 1
                  /\ NextOf(collection_stack, d, n) = next
      /\ d = m => /\ o = l /\ Inner(collection_stack, d) = 0
                  /\ NextOf(collection_stack, d, n) = n + 1
  BY OpenPositions
<1>2. OpenWalk(events, o, Inner(collection_stack, d), NextOf(collection_stack, d, n))
  BY DEF OpenWalks
<1>3. \A q \in 1..n : Skip(evs2, q) = Skip(events, q)
  <2>1. \A q \in 1..n : Skip(Incremented, q) = Skip(events, q)
    BY IncrementedCounts
  <2> QED
    BY <2>1 DEF Skip
<1>4. \A x : Count(evs2, o, x) = Count(Incremented, o, x)
  BY <1>1 DEF Count
<1>5. d < m => Count(evs2, o, 1) = Count(events, o, 1)
  BY <1>1, <1>4, IncrementedCounts
<1>6. d = m => /\ ExpectingKey => Count(evs2, o, 0) = Count(events, o, 0)
               /\ ~ExpectingKey => /\ Count(evs2, o, 0) = Count(events, o, 0) + 1
                                   /\ Count(evs2, o, 1) = Count(events, o, 0)
  <2> SUFFICES ASSUME d = m
               PROVE  /\ ExpectingKey => Count(evs2, o, 0) = Count(events, o, 0)
                      /\ ~ExpectingKey => /\ Count(evs2, o, 0) = Count(events, o, 0) + 1
                                          /\ Count(evs2, o, 1) = Count(events, o, 0)
    OBVIOUS
  <2>1. collection_stack # <<>>
    <3>1. Len(collection_stack) # 0
      BY <1>1
    <3> QED
      BY <3>1, EmptySeq
  <2> QED
    BY <1>1, <1>4, <2>1, IncrementedCounts
<1> HIDE DEF o, l, next
<1>7. ASSUME d < m
      PROVE  OpenWalk(evs2, o, 1, next)
  <2>1. \A q \in (o + 1)..(next - 1) : q \in 1..n
    BY <1>1, <1>7
  <2>2. OpenWalk(events, o, 1, next)
    BY <1>1, <1>2, <1>7
  <2> QED
    BY <1>1, <1>3, <1>5, <1>7, <2>1, <2>2, OpenWalkKept
<1>8. \A q \in (o + 1)..((n + 1) - 1) : q \in 1..n
  BY <1>1
<1>9. d = m => OpenWalk(events, o, 0, n + 1)
  BY <1>1, <1>2
<1>10. ASSUME d = m, ExpectingKey
       PROVE  OpenWalk(evs2, o, 0, n + 1)
  BY <1>1, <1>3, <1>6, <1>8, <1>9, <1>10, OpenWalkKept
<1>11. ASSUME d = m, ~ExpectingKey
       PROVE  OpenWalk(evs2, o, 1, n + 1)
  BY <1>1, <1>3, <1>6, <1>8, <1>9, <1>11, OpenWalkKept
<1>12. ASSUME d = m, ~ExpectingKey, Skip(evs2, n + 1) = n + 2
       PROVE  OpenWalk(evs2, o, 0, n + 2)
  <2>1. n + 1 \in Nat /\ o < n + 1 /\ n + 2 \in Nat /\ n + 1 < n + 2
    BY <1>1
  <2>2. /\ OpenWalk(events, o, 0, n + 1) /\ Count(evs2, o, 0) = Count(events, o, 0) + 1
        /\ \A q \in (o + 1)..((n + 1) - 1) : Skip(evs2, q) = Skip(events, q)
    BY <1>3, <1>6, <1>8, <1>9, <1>12
  <2> QED
    BY <1>1, <1>12, <2>1, <2>2, OpenWalkFurther
<1> QED
  BY <1>7, <1>10, <1>11, <1>12 DEF o, next

(* The closed collections, when the events are extended.                    *)
LEMMA ClosedWalksKept ==
  ASSUME BufferTypes, Laid(events, OpenSet), ClosedWalks(events, OpenSet),
         NEW evs2, Continues(events, evs2, OpenSet), NEW open2,
         \A q \in 1..Len(evs2) :
           q \in 1..Len(events) \/ evs2[q].kind # "collection" \/ q \in open2,
         \A o \in OpenSet : o \in open2 \/ ClosedWalk(evs2, o)
  PROVE  ClosedWalks(evs2, open2)
<1> SUFFICES ASSUME NEW q \in 1..Len(evs2), evs2[q].kind = "collection", q \notin open2
             PROVE  ClosedWalk(evs2, q)
  BY DEF ClosedWalks
<1>1. q \in 1..Len(events)
  OBVIOUS
<1>2. events \in Seq(EventsFor(Len(values))) /\ Len(values) \in Nat
  BY DEF BufferTypes
<1> HIDE DEF OpenSet
<1>3. CASE q \in OpenSet
  BY <1>3
<1>4. CASE q \notin OpenSet
  <2>1. events[q].kind = "collection"
    BY <1>1 DEF Continues
  <2>2. ClosedWalk(events, q)
    BY <1>1, <1>4, <2>1 DEF ClosedWalks
  <2> QED
    BY <1>1, <1>2, <1>4, <2>1, <2>2, ClosedWalkKept
<1> QED
  BY <1>3, <1>4

(* The keys of the closed dictionaries, when the events are extended.       *)
LEMMA StringKeysExtended ==
  ASSUME BufferTypes, OpenCollections, Laid(events, OpenSet), StringKeys(events, values),
         NEW vals2, SameContents(values, vals2),
         NEW evs2, Continues(events, evs2, OpenSet),
         \A q \in 1..Len(evs2) :
           q \in 1..Len(events) \/ (evs2[q].kind = "keys" => KeysAreStrings(evs2, vals2, q))
  PROVE  StringKeys(evs2, vals2)
<1> SUFFICES ASSUME NEW q \in 1..Len(evs2), evs2[q].kind = "keys"
             PROVE  KeysAreStrings(evs2, vals2, q)
  BY DEF StringKeys
<1>1. events \in Seq(EventsFor(Len(values))) /\ Len(values) \in Nat
  BY DEF BufferTypes
<1>2. \A o \in OpenSet : events[o].kind = "collection"
  BY OpenAreCollections
<1> HIDE DEF OpenSet
<1>3. CASE q \in 1..Len(events)
  <2>1. events[q].kind = "keys"
    BY <1>3 DEF Continues
  <2>2. KeysAreStrings(events, values, q)
    BY <1>3, <2>1 DEF StringKeys
  <2> QED
    BY <1>1, <1>2, <1>3, <2>1, <2>2, StringKeysKept
<1>4. CASE q \notin 1..Len(events)
  BY <1>4
<1> QED
  BY <1>3, <1>4

(* What is known of the layout when the client calls.                       *)
LEMMA IdleLayout ==
  ASSUME LInv, pc = "idle"
  PROVE  /\ WInv /\ BufferTypes /\ OpenCollections /\ KeysWait
         /\ Laid(events, OpenSet)
         /\ OpenWalks(events, collection_stack) /\ ClosedWalks(events, OpenSet)
         /\ StringKeys(events, values) /\ WaitingStrings
         /\ Len(events) \in Nat /\ Len(values) \in Nat
  BY IdleFacts DEF LInv, Walked, BufferTypes

(* Where an accepted call leads to, or another.                             *)
LEMMA LayoutKept ==
  ASSUME WInv', pc' \in {"idle", "header"} => Walked'
  PROVE  LInv'
  BY DEF LInv

(* A call that is refused leaves nothing to say.                            *)
LEMMA LayoutStopped ==
  ASSUME WInv', pc' \notin {"idle", "header"}
  PROVE  LInv'
  BY DEF LInv

(* A collection starts: it is the last element of the one it is in.         *)
LEMMA WriteStartCollectionWalks ==
  ASSUME LInv, NEW ty \in {"array", "dict"}, WriteStartCollection(ty), WInv'
  PROVE  LInv'
<1> DEFINE n == Len(events)
           s == collection_stack
           m == Len(s)
           s2 == Append(s, n + 1)
           e == Collection(ty)
<1>1. pc = "idle"
  BY DEF WriteStartCollection, Call
<1>2. /\ WInv /\ BufferTypes /\ OpenCollections /\ Laid(events, OpenSet)
      /\ OpenWalks(events, s) /\ ClosedWalks(events, OpenSet)
      /\ StringKeys(events, values) /\ WaitingStrings
      /\ n \in Nat /\ Len(values) \in Nat
  BY <1>1, IdleLayout
<1>3. CASE ExpectingKey
  BY <1>3, LayoutStopped DEF WriteStartCollection, Refuse
<1>4. CASE ~ExpectingKey
  <2>1. /\ events' = Append(Incremented, e)
        /\ collection_stack' = s2
        /\ dictionary_key_events' = dictionary_key_events /\ values' = values
    BY <1>4 DEF WriteStartCollection, Accept
  <2>2. /\ e \in EventsFor(Len(values)) /\ e.kind = "collection"
        /\ e.len = 0 /\ KeysOf(e) = 0
    <3>1. e \in EventsFor(Len(values)) /\ e.kind = "collection" /\ e.len = 0 /\ e.ty = ty
      BY <1>2, EventsMade DEF Collection
    <3>2. (0 + 1) \div 2 = 0
      OBVIOUS
    <3> HIDE DEF e
    <3> QED
      BY <3>1, <3>2 DEF KeysOf
  <2> HIDE DEF e
  <2>3. /\ Incremented \in Seq(EventsFor(Len(values))) /\ Len(Incremented) = n
        /\ Continues(events, Incremented, OpenSet)
    BY <1>2, IncrementedFacts
  <2>4. /\ Len(events') = n + 1 /\ events'[n + 1] = e
        /\ \A q \in 1..n : events'[q] = Incremented[q]
    BY <2>1, <2>2, <2>3, AppendFacts
  <2>5. Continues(events, events', OpenSet)
    BY <1>2, <2>3, <2>4 DEF Continues
  <2>6. /\ m \in Nat /\ Len(s2) = m + 1 /\ s2[m + 1] = n + 1
        /\ \A d \in 1..m : s2[d] = s[d]
    <3>1. s \in Seq(Nat) /\ n + 1 \in Nat
      BY <1>2 DEF BufferTypes
    <3> QED
      BY <3>1, AppendFacts
  <2> HIDE DEF s2, n, m
  <2>7. OpenWalks(events', s2)
    <3> SUFFICES ASSUME NEW d \in 1..(m + 1)
                 PROVE  OpenWalk(events', s2[d], Inner(s2, d), NextOf(s2, d, n + 1))
      BY <2>4, <2>6 DEF OpenWalks
    <3>1. CASE d \in 1..m
      <4>1. /\ d < m => OpenWalk(events', s[d], 1, s[d + 1])
            /\ d = m => OpenWalk(events', s[d], 1, n + 1)
        BY <1>2, <1>4, <2>4, <3>1, IncrementedWalks DEF n, m
      <4>2. /\ Inner(s2, d) = 1 /\ s2[d] = s[d]
            /\ d < m => NextOf(s2, d, n + 1) = s[d + 1]
            /\ d = m => NextOf(s2, d, n + 1) = n + 1
        BY <2>6, <3>1 DEF Inner, NextOf
      <4>3. d < m \/ d = m
        BY <2>6, <3>1
      <4> QED
        BY <4>1, <4>2, <4>3
    <3>2. CASE d = m + 1
      <4>1. /\ Inner(s2, d) = 0 /\ s2[d] = n + 1 /\ NextOf(s2, d, n + 1) = n + 2
        BY <1>2, <2>6, <3>2 DEF Inner, NextOf, n
      <4>2. Count(events', n + 1, 0) = 0
        BY <2>2, <2>4 DEF Count
      <4>3. n + 2 \in Nat /\ n + 1 + 1 = n + 2
        BY <1>2 DEF n
      <4>4. Walk(events', n + 2, 0, n + 2)
        BY <4>3, WalkEmpty
      <4>5. OpenWalk(events', n + 1, 0, n + 2)
        BY <4>2, <4>3, <4>4 DEF OpenWalk
      <4> QED
        BY <4>1, <4>5
    <3> QED
      BY <2>6, <3>1, <3>2
  <2>8. ClosedWalks(events', OpenSet')
    <3>1. ASSUME NEW o \in OpenSet
          PROVE  o \in OpenSet'
      <4>1. PICK d \in 1..m : o = s[d]
        BY DEF OpenSet, m
      <4>2. d \in 1..(m + 1)
        BY <2>6, <4>1
      <4> QED
        BY <2>1, <2>6, <4>1, <4>2 DEF OpenSet
    <3>2. n + 1 \in OpenSet'
      BY <2>1, <2>6 DEF OpenSet
    <3>3. \A q \in 1..Len(events') : q \in 1..n \/ q \in OpenSet'
      BY <1>2, <2>4, <3>2 DEF n
    <3> HIDE DEF OpenSet
    <3> QED
      BY <1>2, <2>5, <3>1, <3>3, ClosedWalksKept DEF n
  <2>9. StringKeys(events', values')
    <3>1. \A q \in 1..Len(events') :
            q \in 1..n \/ (events'[q].kind = "keys" => KeysAreStrings(events', values', q))
      BY <1>2, <2>2, <2>4 DEF n
    <3>2. SameContents(values, values')
      BY <2>1 DEF SameContents
    <3> QED
      BY <1>2, <2>5, <3>1, <3>2, StringKeysExtended DEF n
  <2>10. WaitingStrings'
    BY <1>2, <2>1 DEF WaitingStrings
  <2>11. Walked'
    BY <2>1, <2>7, <2>8, <2>9, <2>10 DEF Walked
  <2> QED
    BY <2>11, LayoutKept
<1> QED
  BY <1>3, <1>4

(* What a value is known as.                                                *)
ValueKnown(index, v) ==
  /\ index \in 1..Len(values')
  /\ values'[index].value = v
  /\ \A j \in 1..Len(values) : values'[j] = values[j]
  /\ Len(values) <= Len(values')

(* What an accepted value makes of the buffer.                              *)
LEMMA ValueOutcome ==
  ASSUME WInv, pc = "idle", NEW v \in Values, WriteValue(v)
  PROVE  \/ pc' = "stopped"
         \/ \E index :
              /\ ValueKnown(index, v)
              /\ collection_stack' = collection_stack
              /\ \/ /\ ExpectingKey /\ v \in Strings
                    /\ dictionary_key_events' = Append(dictionary_key_events, index)
                    /\ events' = Incremented
                 \/ /\ ~ExpectingKey
                    /\ events' = Append(Incremented, ValueAt(index))
                    /\ dictionary_key_events' = dictionary_key_events
<1> DEFINE n == Len(values)
           known == Indices(v) # {}
           index == IF known THEN CHOOSE i \in Indices(v) : TRUE ELSE n + 1
           new == [value |-> v, state |-> "unassigned", ref |-> NoRef]
<1>1. CASE ExpectingKey /\ v \notin Strings
  BY <1>1 DEF WriteValue, Refuse
<1>2. CASE ~(ExpectingKey /\ v \notin Strings)
  <2>1. /\ IF known THEN UNCHANGED values ELSE values' = Append(values, new)
        /\ IF ExpectingKey
           THEN /\ dictionary_key_events' = Append(dictionary_key_events, index)
                /\ events' = Incremented
           ELSE /\ events' = Append(Incremented, ValueAt(index))
                /\ dictionary_key_events' = dictionary_key_events
        /\ collection_stack' = collection_stack
    BY <1>2 DEF WriteValue, Accept
  <2>2. /\ n \in Nat
        /\ values \in Seq([value : Values, state : {"unassigned", "unwritten", "written"},
                           ref : Nat \cup {NoRef}])
    BY IdleFacts DEF BufferTypes
  <2>3. ValueKnown(index, v)
    <3>1. CASE known
      <4>1. index \in 1..n /\ values[index].value = v
        BY <3>1 DEF Indices
      <4>2. values' = values
        BY <2>1, <3>1
      <4> HIDE DEF index, known
      <4> QED
        BY <2>2, <4>1, <4>2 DEF ValueKnown
    <3>2. CASE ~known
      <4>1. new \in [value : Values, state : {"unassigned", "unwritten", "written"},
                     ref : Nat \cup {NoRef}]
            /\ new.value = v
        OBVIOUS
      <4>2. values' = Append(values, new) /\ index = n + 1
        BY <2>1, <3>2
      <4> HIDE DEF new
      <4>3. /\ Len(values') = n + 1 /\ values'[n + 1] = new
            /\ \A i \in 1..n : values'[i] = values[i]
        BY <2>2, <4>1, <4>2, AppendFacts
      <4> HIDE DEF index, known
      <4> QED
        BY <2>2, <4>1, <4>2, <4>3 DEF ValueKnown
    <3> QED
      BY <3>1, <3>2
  <2> HIDE DEF index, known
  <2> QED
    BY <1>2, <2>1, <2>3
<1> QED
  BY <1>1, <1>2

(* A value is an element of the innermost collection or a key that waits.   *)
LEMMA WriteValueWalks ==
  ASSUME LInv, NEW v \in Values, WriteValue(v), WInv'
  PROVE  LInv'
<1> DEFINE n == Len(events)
           s == collection_stack
           m == Len(s)
           dke == dictionary_key_events
<1>1. pc = "idle"
  BY DEF WriteValue, Call
<1>2. /\ WInv /\ BufferTypes /\ OpenCollections /\ Laid(events, OpenSet)
      /\ OpenWalks(events, s) /\ ClosedWalks(events, OpenSet)
      /\ StringKeys(events, values) /\ WaitingStrings
      /\ n \in Nat /\ Len(values) \in Nat
  BY <1>1, IdleLayout
<1>3. CASE pc' = "stopped"
  BY <1>3, LayoutStopped
<1>4. ASSUME NEW index, ValueKnown(index, v), collection_stack' = s,
             \/ /\ ExpectingKey /\ v \in Strings
                /\ dke' = Append(dke, index) /\ events' = Incremented
             \/ /\ ~ExpectingKey /\ dke' = dke
                /\ events' = Append(Incremented, ValueAt(index))
      PROVE  LInv'
  <2>0. /\ index \in 1..Len(values') /\ index \in Nat
        /\ SameContents(values, values') /\ Len(values') \in Nat
    <3>1. values' \in Seq([value : Values, state : {"unassigned", "unwritten", "written"},
                           ref : Nat \cup {NoRef}])
      BY DEF WInv, TypeOK
    <3> QED
      BY <1>4, <3>1 DEF ValueKnown, SameContents
  <2>1. /\ Incremented \in Seq(EventsFor(Len(values))) /\ Len(Incremented) = n
        /\ Continues(events, Incremented, OpenSet)
    BY <1>2, IncrementedFacts
  <2>2. m \in Nat /\ s \in Seq(Nat)
    BY <1>2 DEF BufferTypes
  <2>3. /\ Continues(events, events', OpenSet)
        /\ \A q \in 1..n : events'[q] = Incremented[q]
        /\ \A q \in 1..Len(events') : q \in 1..n \/ events'[q].kind = "value"
        /\ ExpectingKey => Len(events') = n
        /\ ~ExpectingKey => Len(events') = n + 1 /\ Skip(events', n + 1) = n + 2
    <3>1. CASE ExpectingKey
      <4>1. events' = Incremented
        BY <1>4, <3>1
      <4> QED
        BY <2>1, <3>1, <4>1
    <3>2. CASE ~ExpectingKey
      <4> DEFINE e == ValueAt(index)
      <4>1. events' = Append(Incremented, e)
        BY <1>4, <3>2
      <4>2. e.kind = "value"
        BY DEF ValueAt
      <4>3. e \in EventsFor(Len(values')) /\ Incremented \in Seq(EventsFor(Len(values')))
        <5>1. EventsFor(Len(values)) \subseteq EventsFor(Len(values'))
          BY <1>2, <1>4, <2>0, EventsMade DEF ValueKnown
        <5> QED
          BY <2>0, <2>1, <5>1, EventsMade, SeqOfMore
      <4> HIDE DEF e
      <4>4. /\ Len(events') = n + 1 /\ events'[n + 1] = e
            /\ \A q \in 1..n : events'[q] = Incremented[q]
        BY <2>1, <4>1, <4>3, AppendFacts
      <4>5. Continues(events, events', OpenSet)
        BY <1>2, <2>1, <4>4 DEF Continues
      <4>6. Skip(events', n + 1) = n + 2
        BY <1>2, <4>2, <4>4 DEF Skip
      <4> HIDE DEF n
      <4>7. \A q \in 1..Len(events') : q \in 1..n \/ events'[q].kind = "value"
        BY <1>2, <4>2, <4>4
      <4> QED
        BY <3>2, <4>4, <4>5, <4>6, <4>7
    <3> QED
      BY <3>1, <3>2
  <2> HIDE DEF n, m
  <2>4. OpenWalks(events', s)
    <3> SUFFICES ASSUME NEW d \in 1..m
                 PROVE  OpenWalk(events', s[d], Inner(s, d), NextOf(s, d, Len(events')))
      BY DEF OpenWalks, m
    <3>1. CASE d < m
      <4>1. OpenWalk(events', s[d], 1, s[d + 1])
        BY <1>2, <2>3, <3>1, IncrementedWalks DEF n, m
      <4>2. Inner(s, d) = 1 /\ NextOf(s, d, Len(events')) = s[d + 1]
        BY <3>1 DEF Inner, NextOf, m
      <4> QED
        BY <4>1, <4>2
    <3>2. CASE d = m
      <4>1. Inner(s, d) = 0 /\ NextOf(s, d, Len(events')) = Len(events') + 1
        BY <2>2, <3>2 DEF Inner, NextOf, m
      <4>2. CASE ExpectingKey
        <5>1. OpenWalk(events', s[d], 0, n + 1)
          BY <1>2, <2>3, <3>2, <4>2, IncrementedWalks DEF n, m
        <5> QED
          BY <2>3, <4>1, <4>2, <5>1
      <4>3. CASE ~ExpectingKey
        <5>1. OpenWalk(events', s[d], 0, n + 2)
          BY <1>2, <2>3, <3>2, <4>3, IncrementedWalks DEF n, m
        <5>2. Len(events') + 1 = n + 2
          BY <1>2, <2>3, <4>3 DEF n
        <5> QED
          BY <4>1, <5>1, <5>2
      <4> QED
        BY <4>2, <4>3
    <3> QED
      BY <2>2, <3>1, <3>2
  <2>5. OpenSet' = OpenSet
    BY <1>4 DEF OpenSet
  <2>6. ClosedWalks(events', OpenSet)
    <3>1. \A q \in 1..Len(events') : q \in 1..n \/ events'[q].kind # "collection"
      BY <2>3
    <3> HIDE DEF OpenSet
    <3> QED
      BY <1>2, <2>3, <3>1, ClosedWalksKept DEF n
  <2>7. StringKeys(events', values')
    <3>1. \A q \in 1..Len(events') :
            q \in 1..n \/ (events'[q].kind = "keys" => KeysAreStrings(events', values', q))
      BY <2>3
    <3> QED
      BY <1>2, <2>0, <2>3, <3>1, StringKeysExtended DEF n
  <2>8. WaitingStrings'
    <3>1. dke \in Seq(1..Len(values)) /\ Len(dke) \in Nat
      BY <1>2 DEF BufferTypes
    <3>2. ASSUME NEW k \in 1..Len(dke)
          PROVE  values'[dke[k]].value \in Strings
      <4>1. dke[k] \in 1..Len(values)
        BY <3>1, SeqElements
      <4> QED
        BY <1>2, <2>0, <4>1 DEF SameContents, WaitingStrings
    <3>3. CASE dke' = dke
      BY <3>2, <3>3 DEF WaitingStrings
    <3>4. CASE dke' = Append(dke, index) /\ v \in Strings
      <4>1. dke \in Seq(Nat)
        BY <3>1
      <4>2. /\ Len(dke') = Len(dke) + 1 /\ dke'[Len(dke) + 1] = index
            /\ \A k \in 1..Len(dke) : dke'[k] = dke[k]
        BY <2>0, <3>4, <4>1, AppendFacts
      <4>3. values'[index].value \in Strings
        BY <1>4, <3>4 DEF ValueKnown
      <4>4. \A k \in 1..Len(dke') : k \in 1..Len(dke) \/ k = Len(dke) + 1
        BY <3>1, <4>2
      <4> HIDE DEF dke
      <4>5. \A k \in 1..Len(dke') : values'[dke'[k]].value \in Strings
        BY <3>2, <4>2, <4>3, <4>4
      <4> QED
        BY <4>5 DEF WaitingStrings, dke
    <3> QED
      BY <1>4, <3>3, <3>4
  <2>9. Walked'
    BY <1>4, <2>4, <2>5, <2>6, <2>7, <2>8 DEF Walked
  <2> QED
    BY <2>9, LayoutKept
<1> QED
  BY <1>1, <1>2, <1>3, <1>4, ValueOutcome

(* evs2 is evs up to its end, but for the event at i.                       *)
SameBut(evs, evs2, i) == \A p \in 1..Len(evs) : p # i => evs2[p] = evs[p]

(* What that leaves of the events.                                          *)
LEMMA SameButFacts ==
  ASSUME NEW evs, NEW evs2, NEW i, SameBut(evs, evs2, i),
         NEW p \in 1..Len(evs), p # i
  PROVE  Skip(evs2, p) = Skip(evs, p) /\ \A x : Count(evs2, p, x) = Count(evs, p, x)
<1>1. evs2[p] = evs[p]
  BY DEF SameBut
<1> QED
  BY <1>1 DEF Skip, Count

(* What lies between o and y, if i does not.                                *)
LEMMA SameSkips ==
  ASSUME NEW evs, NEW evs2, NEW i \in Nat, SameBut(evs, evs2, i), Len(evs) \in Nat,
         NEW o \in Nat, NEW y \in Nat, y <= Len(evs) + 1, y <= i \/ i <= o
  PROVE  \A q \in (o + 1)..(y - 1) : Skip(evs2, q) = Skip(evs, q)
<1> SUFFICES ASSUME NEW q \in (o + 1)..(y - 1)
             PROVE  Skip(evs2, q) = Skip(evs, q)
  OBVIOUS
<1>1. q \in 1..Len(evs) /\ q # i
  OBVIOUS
<1> QED
  BY <1>1, SameButFacts

(* A collection outside the one at i, when that is not its last element.    *)
LEMMA OuterWalkKept ==
  ASSUME NEW evs, NEW evs2, NEW i \in Nat, SameBut(evs, evs2, i), Len(evs) \in Nat,
         NEW o \in 1..Len(evs), o # i, NEW y \in 1..Len(evs), y <= i,
         OpenWalk(evs, o, 1, y)
  PROVE  OpenWalk(evs2, o, 1, y)
<1>1. o \in Nat /\ y \in Nat /\ y <= Len(evs) + 1
  OBVIOUS
<1>2. \A q \in (o + 1)..(y - 1) : Skip(evs2, q) = Skip(evs, q)
  BY <1>1, SameSkips
<1>3. Count(evs2, o, 1) = Count(evs, o, 1)
  BY SameButFacts
<1> QED
  BY <1>1, <1>2, <1>3, OpenWalkKept

(* The collection of which the one at i is the last element.                *)
LEMMA LastWalkFurther ==
  ASSUME NEW evs, NEW evs2, NEW i \in Nat, SameBut(evs, evs2, i), Len(evs) \in Nat,
         NEW o \in 1..Len(evs), o < i, i <= Len(evs),
         Count(evs, o, 0) \in Int, Count(evs, o, 1) = Count(evs, o, 0) - 1,
         OpenWalk(evs, o, 1, i),
         NEW end2 \in Nat, end2 = Skip(evs2, i), i < end2
  PROVE  OpenWalk(evs2, o, 0, end2)
<1>1. o \in Nat /\ i <= Len(evs) + 1 /\ o # i
  OBVIOUS
<1>2. \A q \in (o + 1)..(i - 1) : Skip(evs2, q) = Skip(evs, q)
  BY <1>1, SameSkips
<1>3. Count(evs2, o, 0) = Count(evs, o, 0)
  BY <1>1, SameButFacts
<1>4. Count(evs2, o, 0) = Count(evs, o, 1) + 1
  BY <1>3
<1> QED
  BY <1>1, <1>2, <1>4, OpenWalkFurther

(* The counts of a collection.                                              *)
LEMMA CountFacts ==
  ASSUME NEW n \in Nat, NEW evs \in Seq(EventsFor(n)), NEW o \in 1..Len(evs),
         evs[o].kind = "collection"
  PROVE  Count(evs, o, 0) \in Int /\ Count(evs, o, 1) = Count(evs, o, 0) - 1
<1>1. evs[o] \in EventsFor(n)
  BY SeqElements
<1>2. evs[o].len \in Nat
  BY <1>1, EventFacts
<1>3. KeysOf(evs[o]) \in Nat
  <2>1. (evs[o].len + 1) \div 2 \in Nat
    BY <1>2
  <2> QED
    BY <2>1 DEF KeysOf
<1> QED
  BY <1>2, <1>3 DEF Count

(* The innermost collection i is closed, as the next element of the one it  *)
(* is in; evs2 goes on after it only with what belongs to it.               *)
LEMMA EndWalks ==
  ASSUME BufferTypes, OpenCollections, OpenWalks(events, collection_stack),
         collection_stack # <<>>,
         NEW i, i = Last(collection_stack), NEW evs2, SameBut(events, evs2, i),
         NEW skip \in Nat, Len(evs2) = i + skip,
         evs2[i].kind = "collection", evs2[i].skip = skip,
         evs2[i].len = Count(events, i, 0), ElementsEnd(evs2, i) = Len(events)
  PROVE  /\ OpenWalks(evs2, Front(collection_stack))
         /\ ClosedWalk(evs2, i)
<1> DEFINE s == collection_stack
           m == Len(s)
           f == Front(s)
           n == Len(events)
           end2 == i + skip + 1
<1>1. /\ i \in 1..n /\ i \in Nat /\ n \in Nat /\ m \in Nat \ {0} /\ i = s[m]
      /\ Len(f) = m - 1 /\ \A d \in 1..(m - 1) : f[d] = s[d]
  BY InnermostFacts DEF BufferTypes
<1>2. /\ Skip(evs2, i) = end2
      /\ end2 \in Nat /\ i < end2 /\ Len(evs2) + 1 = end2
  <2>1. Skip(evs2, i) = end2
    BY DEF Skip
  <2>2. end2 \in Nat /\ i < end2 /\ Len(evs2) + 1 = end2
    <3>1. i \in Nat
      BY <1>1
    <3> HIDE DEF n, m, f
    <3> QED
      BY <3>1
  <2> QED
    BY <2>1, <2>2
<1>3. m \in 1..m
  BY <1>1
<1>4. \A d \in 1..m : s[d] <= i
  <2>1. \A p \in OpenSet : p <= i
    BY InnermostFacts
  <2> QED
    BY <2>1 DEF OpenSet
<1>5. \A d \in 1..m : OpenWalk(events, s[d], Inner(s, d), NextOf(s, d, n))
  BY DEF OpenWalks
<1> HIDE DEF f, m, end2
<1>6. ASSUME NEW d \in 1..(m - 1)
      PROVE  OpenWalk(evs2, f[d], Inner(f, d), NextOf(f, d, Len(evs2)))
  <2>0. m \in Nat
    BY <1>1
  <2>1. d \in 1..m /\ d < m /\ d + 1 \in 1..m /\ f[d] = s[d] /\ d \in Nat
    <3>1. d \in 1..m /\ d < m /\ d + 1 \in 1..m /\ d \in Nat
      BY <2>0
    <3>2. f[d] = s[d]
      BY <1>1
    <3> QED
      BY <3>1, <3>2
  <2>2. /\ s[d] \in 1..n /\ s[d] \in Nat /\ s[d + 1] \in 1..n /\ s[d] < s[d + 1] /\ s[d] # i
        /\ Inner(s, d) = 1 /\ NextOf(s, d, n) = s[d + 1]
    BY <2>1, OpenPositions DEF m
  <2>3. OpenWalk(events, s[d], 1, s[d + 1])
    BY <1>5, <2>1, <2>2
  <2>4. s[d + 1] <= i
    BY <1>4, <2>1
  <2> DEFINE x == s[d]
             y == s[d + 1]
  <2>5. CASE d + 1 # m
    <3>1. d < m - 1 /\ d + 1 \in 1..(m - 1)
      BY <2>0, <2>1, <2>5
    <3>2. d < Len(f) /\ f[d + 1] = y
      BY <1>1, <3>1
    <3>4. Inner(f, d) = 1 /\ NextOf(f, d, Len(evs2)) = y
      BY <3>2 DEF Inner, NextOf
    <3>3. OpenWalk(evs2, x, 1, y)
      <4> HIDE DEF x, y
      <4>1. x \in 1..n /\ x # i /\ y \in 1..n /\ y <= i /\ OpenWalk(events, x, 1, y)
        BY <2>2, <2>3, <2>4 DEF x, y
      <4> QED
        BY <1>1, <4>1, OuterWalkKept
    <3> QED
      BY <2>1, <3>3, <3>4
  <2>6. CASE d + 1 = m
    <3>1. ~(d < Len(f))
      BY <1>1, <2>1, <2>6
    <3>2. Inner(f, d) = 0 /\ NextOf(f, d, Len(evs2)) = end2
      BY <1>2, <3>1 DEF Inner, NextOf
    <3>3. OpenWalk(evs2, x, 0, end2)
      <4>1. y = i
        BY <1>1, <2>6
      <4>2. events[x].kind = "collection"
        BY <2>1 DEF OpenCollections, m
      <4> HIDE DEF x, y
      <4>3. x \in 1..n /\ x < i /\ i <= n /\ OpenWalk(events, x, 1, i)
        BY <1>1, <2>2, <2>3, <4>1 DEF x, y
      <4>4. Count(events, x, 0) \in Int /\ Count(events, x, 1) = Count(events, x, 0) - 1
        BY <4>2, <4>3, CountFacts DEF BufferTypes
      <4> QED
        BY <1>1, <1>2, <4>3, <4>4, LastWalkFurther
    <3> QED
      BY <2>1, <3>2, <3>3
  <2> QED
    BY <2>5, <2>6
<1>7. OpenWalks(evs2, f)
  BY <1>1, <1>6 DEF OpenWalks
<1>8. ClosedWalk(evs2, i)
  <2>1. OpenWalk(events, i, 0, n + 1)
    BY <1>1, <1>3, <1>5, OpenPositions DEF m
  <2> DEFINE c == Count(events, i, 0)
  <2>2. c \in Nat /\ Walk(events, i + 1, c, n + 1) /\ evs2[i].len = c
    BY <2>1 DEF OpenWalk
  <2> HIDE DEF c
  <2>3. n + 1 \in Nat /\ n + 1 <= Len(events) + 1
    BY <1>1
  <2>4. \A q \in (i + 1)..((n + 1) - 1) : Skip(evs2, q) = Skip(events, q)
    <3> DEFINE y == n + 1
    <3> HIDE DEF y
    <3>1. y \in Nat /\ y <= Len(events) + 1 /\ i <= i /\ i \in Nat /\ Len(events) \in Nat
      BY <1>1, <2>3 DEF y
    <3> HIDE DEF n, m, f
    <3>2. \A q \in (i + 1)..(y - 1) : Skip(evs2, q) = Skip(events, q)
      BY <3>1, SameSkips
    <3> QED
      BY <3>2 DEF y
  <2>5. Walk(evs2, i + 1, c, n + 1)
    BY <2>2, <2>4, WalkKept
  <2> QED
    BY <2>2, <2>5 DEF ClosedWalk
<1> QED
  BY <1>7, <1>8 DEF f

(* The closed collections and the invariant, after the end of a collection. *)
LEMMA LayoutAfterEnd ==
  ASSUME WInv, WInv', BufferTypes, OpenCollections, Laid(events, OpenSet),
         ClosedWalks(events, OpenSet), collection_stack # <<>>,
         NEW i, i = Last(collection_stack), NEW n, n = Len(events), n \in Nat,
         Len(events') \in Nat, n <= Len(events'),
         \A p \in 1..n : p # i => events'[p] = events[p],
         events'[i].kind = "collection",
         Accept(call', Front(collection_stack)),
         OpenWalks(events', Front(collection_stack)), ClosedWalk(events', i),
         \A q \in 1..Len(events') : q \in 1..n \/ events'[q].kind # "collection",
         StringKeys(events', values'), WaitingStrings'
  PROVE  LInv'
<1> DEFINE s == collection_stack
           f == Front(s)
           m == Len(s)
<1>1. /\ m \in Nat \ {0} /\ i = s[m] /\ Len(f) = m - 1
      /\ \A d \in 1..(m - 1) : f[d] = s[d]
      /\ i \in 1..n /\ i \in OpenSet /\ events[i].kind = "collection"
  BY InnermostFacts
<1>2. collection_stack' = f
  BY DEF Accept
<1>3. ASSUME NEW o \in OpenSet
      PROVE  o \in OpenSet' \/ o = i
  <2>1. PICK d \in 1..m : o = s[d]
    BY DEF OpenSet
  <2>2. CASE d = m
    BY <1>1, <2>1, <2>2
  <2>3. CASE d # m
    <3>1. d \in 1..(m - 1)
      BY <1>1, <2>3
    <3> QED
      BY <1>1, <1>2, <2>1, <3>1 DEF OpenSet
  <2> QED
    BY <2>2, <2>3
<1>4. Continues(events, events', OpenSet)
  BY <1>1 DEF Continues
<1>5. ClosedWalks(events', OpenSet')
  <2>1. \A q \in 1..Len(events') :
          q \in 1..Len(events) \/ events'[q].kind # "collection" \/ q \in OpenSet'
    OBVIOUS
  <2>2. \A o \in OpenSet : o \in OpenSet' \/ ClosedWalk(events', o)
    BY <1>3
  <2> DEFINE open2 == OpenSet'
  <2> HIDE DEF open2, OpenSet
  <2> QED
    BY <1>4, <2>1, <2>2, ClosedWalksKept DEF open2
<1>6. Walked'
  BY <1>2, <1>5 DEF Walked
<1> QED
  BY <1>6, LayoutKept

(* A collection ends: its keys, if it has any, follow its elements.         *)
LEMMA WriteEndCollectionWalks ==
  ASSUME LInv, WriteEndCollection, WInv'
  PROVE  LInv'
<1> DEFINE n == Len(events)
           s == collection_stack
           i == Last(s)
           dke == dictionary_key_events
<1>1. pc = "idle" /\ values' = values
  BY DEF WriteEndCollection, Call
<1>2. /\ WInv /\ BufferTypes /\ OpenCollections /\ Laid(events, OpenSet)
      /\ OpenWalks(events, s) /\ ClosedWalks(events, OpenSet)
      /\ StringKeys(events, values) /\ WaitingStrings
      /\ n \in Nat /\ Len(values) \in Nat
  BY <1>1, IdleLayout
<1>3. CASE s = <<>> \/ pc' = "stopped"
  BY <1>3, LayoutStopped DEF WriteEndCollection, Refuse
<1>4. CASE s # <<>> /\ Accept(call', Front(s)) /\ ArrayEnded(i, n)
  <2>1. /\ i \in 1..n /\ events[i].len \in Nat /\ i \in Nat /\ i \in OpenSet
        /\ events[i].kind = "collection"
    <3>1. i \in 1..n /\ events[i] \in EventsFor(Len(values)) /\ events[i].kind = "collection"
          /\ i \in OpenSet
      BY <1>2, <1>4, InnermostFacts
    <3> HIDE DEF i
    <3> QED
      BY <1>2, <3>1, EventFacts
  <2> HIDE DEF i, n
  <2>2. /\ Len(events') = n /\ events[i].ty = "array"
        /\ events'[i].kind = "collection" /\ events'[i].ty = "array"
        /\ events'[i].len = events[i].len /\ events'[i].skip = n - i
        /\ \A p \in 1..n : p # i => events'[p] = events[p]
        /\ dke' = dke
    BY <1>4 DEF ArrayEnded
  <2>3. /\ n - i \in Nat /\ i + (n - i) = n /\ ElementsEnd(events', i) = n
        /\ events'[i].len = Count(events, i, 0)
    <3>1. KeysOf(events[i]) = 0
      BY <2>2 DEF KeysOf
    <3>2. KeysStart(events'[i]) = n - i
      BY <2>2 DEF KeysStart
    <3> QED
      BY <1>2, <2>1, <2>2, <3>1, <3>2 DEF ElementsEnd, Count
  <2>4. OpenWalks(events', Front(s)) /\ ClosedWalk(events', i)
    <3> DEFINE skip == n - i
    <3>1. i = Last(s) /\ s # <<>> /\ SameBut(events, events', i)
      BY <1>4, <2>2 DEF i, n, SameBut
    <3>2. skip \in Nat /\ Len(events') = i + skip /\ events'[i].skip = skip
      BY <2>2, <2>3
    <3>3. ElementsEnd(events', i) = Len(events)
      BY <2>3 DEF n
    <3> HIDE DEF skip
    <3> QED
      BY <1>2, <2>2, <2>3, <3>1, <3>2, <3>3, EndWalks
  <2>5. \A q \in 1..Len(events') : q \in 1..n
    BY <2>2
  <2>6. StringKeys(events', values') /\ WaitingStrings'
    <3>1. Continues(events, events', OpenSet)
      BY <1>2, <2>1, <2>2 DEF Continues, n
    <3>2. SameContents(values, values')
      BY <1>1 DEF SameContents
    <3>3. StringKeys(events', values')
      BY <1>2, <2>5, <3>1, <3>2, StringKeysExtended DEF n
    <3> QED
      BY <1>1, <1>2, <2>2, <3>3 DEF WaitingStrings
  <2> QED
    BY <1>1, <1>2, <1>4, <2>1, <2>2, <2>4, <2>5, <2>6, LayoutAfterEnd DEF i, n
<1>5. ASSUME s # <<>>, Accept(call', Front(s)), NEW pairs \in Nat, NEW start \in Nat,
             DictEnded(i, n, pairs, start)
      PROVE  LInv'
  <2>1. /\ i \in 1..n /\ i \in Nat /\ i \in OpenSet /\ events[i].kind = "collection"
    BY <1>2, <1>5, InnermostFacts
  <2> HIDE DEF i, n, dke
  <2>2. /\ Len(events') = n + 1 + pairs /\ events[i].ty = "dict"
        /\ events[i].len = 2 * pairs /\ pairs = KeysOf(events[i])
        /\ events'[i].kind = "collection" /\ events'[i].ty = "dict"
        /\ events'[i].len = pairs /\ events'[i].skip = n - i + 1 + pairs
        /\ \A p \in 1..n : p # i => events'[p] = events[p]
        /\ events'[n + 1] = DictionaryKeys(pairs)
        /\ \A k \in 1..pairs : events'[n + 1 + k] = ValueAt(dke[start + k])
        /\ start + pairs = Len(dke)
        /\ Len(dke') = start
        /\ \A k \in 1..start : dke'[k] = dke[k]
    BY <1>5 DEF DictEnded, dke
  <2>3. /\ n - i + 1 + pairs \in Nat /\ i + (n - i + 1 + pairs) = n + 1 + pairs
        /\ n <= n + 1 + pairs
        /\ ElementsEnd(events', i) = n /\ events'[i].len = Count(events, i, 0)
    <3>0. n \in Nat /\ i \in 1..n
      BY <1>2, <2>1 DEF n
    <3>1. KeysStart(events'[i]) = n - i
      <4>1. KeysStart(events'[i]) = (n - i + 1 + pairs) - pairs - 1
        BY <2>2 DEF KeysStart
      <4> QED
        BY <1>5, <3>0, <4>1
    <3>2. ElementsEnd(events', i) = n
      BY <3>0, <3>1 DEF ElementsEnd
    <3>3. Count(events, i, 0) = pairs
      <4>1. Count(events, i, 0) = 2 * pairs - pairs - 0
        BY <2>2 DEF Count
      <4> QED
        BY <1>5, <4>1
    <3>4. n - i + 1 + pairs \in Nat /\ i + (n - i + 1 + pairs) = n + 1 + pairs
          /\ n <= n + 1 + pairs
      BY <1>5, <3>0
    <3> QED
      BY <2>2, <3>2, <3>3, <3>4
  <2>4. OpenWalks(events', Front(s)) /\ ClosedWalk(events', i)
    <3> DEFINE skip == n - i + 1 + pairs
    <3>1. i = Last(s) /\ s # <<>> /\ SameBut(events, events', i)
      BY <1>5, <2>2 DEF i, n, SameBut
    <3>2. skip \in Nat /\ Len(events') = i + skip /\ events'[i].skip = skip
      BY <2>2, <2>3
    <3>3. ElementsEnd(events', i) = Len(events)
      BY <2>3 DEF n
    <3> HIDE DEF skip
    <3> QED
      BY <1>2, <2>2, <2>3, <3>1, <3>2, <3>3, EndWalks
  <2>5. ASSUME NEW q \in 1..Len(events')
        PROVE  q \in 1..n \/ q = n + 1 \/ \E k \in 1..pairs : q = n + 1 + k
    <3>1. CASE q > n + 1
      <4>1. q - (n + 1) \in 1..pairs /\ q = n + 1 + (q - (n + 1))
        BY <1>2, <2>2, <3>1
      <4> QED
        BY <4>1
    <3>2. CASE ~(q > n + 1)
      BY <1>2, <2>2, <3>2
    <3> QED
      BY <3>1, <3>2
  <2>6. /\ events'[n + 1].kind = "keys" /\ events'[n + 1].len = pairs
        /\ \A k \in 1..pairs : /\ events'[n + 1 + k].kind = "value"
                               /\ events'[n + 1 + k].index = dke[start + k]
    <3>1. events'[n + 1].kind = "keys" /\ events'[n + 1].len = pairs
      BY <2>2 DEF DictionaryKeys
    <3>2. ASSUME NEW k \in 1..pairs
          PROVE  /\ events'[n + 1 + k].kind = "value"
                 /\ events'[n + 1 + k].index = dke[start + k]
      <4>1. events'[n + 1 + k] = ValueAt(dke[start + k])
        BY <2>2
      <4> QED
        BY <4>1 DEF ValueAt
    <3> QED
      BY <3>1, <3>2
  <2>7. KeysAreStrings(events', values', n + 1)
    <3>1. ASSUME NEW k \in 1..pairs
          PROVE  values[dke[start + k]].value \in Strings
      <4>1. start + k \in 1..Len(dke)
        BY <2>2
      <4> QED
        BY <1>2, <4>1 DEF WaitingStrings, dke
    <3> QED
      BY <1>1, <2>6, <3>1 DEF KeysAreStrings
  <2>8. \A q \in 1..Len(events') :
          /\ q \in 1..n \/ events'[q].kind # "collection"
          /\ q \in 1..n \/ (events'[q].kind = "keys" => KeysAreStrings(events', values', q))
    BY <2>5, <2>6, <2>7
  <2>9. StringKeys(events', values') /\ WaitingStrings'
    <3>1. Continues(events, events', OpenSet)
      <4>1. Len(events) <= Len(events')
        BY <2>2, <2>3 DEF n
      <4>2. \A q \in 1..n : events'[q].kind = events[q].kind
                           /\ (q \notin OpenSet => events'[q] = events[q])
        BY <2>1, <2>2
      <4> QED
        BY <4>1, <4>2 DEF Continues, n
    <3>2. SameContents(values, values')
      BY <1>1 DEF SameContents
    <3>3. StringKeys(events', values')
      BY <1>2, <2>8, <3>1, <3>2, StringKeysExtended DEF n
    <3>4. \A k \in 1..start : k \in 1..Len(dke)
      BY <2>2
    <3> QED
      BY <1>1, <1>2, <2>2, <3>3, <3>4 DEF WaitingStrings, dke
  <2>10. /\ i = Last(s) /\ n = Len(events) /\ n \in Nat /\ Len(events') \in Nat
         /\ n <= Len(events')
    BY <1>2, <2>2, <2>3 DEF i, n
  <2>11. \A q \in 1..Len(events') : q \in 1..n \/ events'[q].kind # "collection"
    BY <2>8
  <2> QED
    BY <1>2, <1>5, <2>2, <2>4, <2>9, <2>10, <2>11, LayoutAfterEnd
<1> QED
  BY <1>1, <1>2, <1>3, <1>4, <1>5, EndOutcome

(* A value is not the last thing that is written.                           *)
LEMMA ValueWrites ==
  ASSUME WInv, Writing, NEW i \in 1..Len(values), WritePlistValue(i)
  PROVE  pc' \notin {"idle", "header"}
<1>1. values[i].state \in {"unassigned", "written", "unwritten"}
  <2>1. values \in Seq(ValueRecords)
    BY WritingFacts DEF TypeOK, ValueRecords
  <2>2. values[i] \in ValueRecords
    BY <2>1, SeqElements
  <2> QED
    BY <2>2 DEF ValueRecords
<1>2. CASE values[i].state = "unassigned"
  BY <1>2 DEF WritePlistValue, Panic
<1>3. CASE values[i].state = "written"
  BY <1>3 DEF WritePlistValue, Continue, Writing
<1>4. CASE values[i].state = "unwritten"
  BY <1>4 DEF WritePlistValue, Continue, IOError, Writing
<1> QED
  BY <1>1, <1>2, <1>3, <1>4

(* While the plist is written nothing is buffered, and afterwards neither.   *)
LEMMA WritePlistWalks ==
  ASSUME LInv, WritePlist, WInv'
  PROVE  LInv'
<1>1. WInv
  BY DEF LInv
<1>2. CASE pc' \notin {"idle", "header"}
  BY <1>2, LayoutStopped
<1>3. CASE pc' \in {"idle", "header"}
  <2>1. WriteTrailer /\ pc = "objects" /\ pc' = "idle" /\ Reset
        /\ UNCHANGED <<buffer, cursor, pending, next_object_ref, offset_table, file,
                       verdict, call, calls>>
    <3>1. ~WriteHeader
      BY <1>3 DEF WriteHeader, IOError
    <3>2. ~WriteRef /\ ~RefsWritten /\ ~KeysWritten
      BY <1>3 DEF WriteRef, RefsWritten, KeysWritten, Continue, IOError, Panic
    <3>3. ~WriteObject
      <4> SUFFICES ASSUME WriteObject
                   PROVE  FALSE
        OBVIOUS
      <4> DEFINE e == todo[cursor]
      <4>1. Writing /\ cursor <= Len(todo) /\ pc = "objects"
        BY DEF WriteObject, Writing
      <4>2. CASE e.kind = "value" /\ WritePlistValue(e.index)
        <5>1. e \in EventsFor(Len(values))
          BY <1>1, <4>1, WritingFacts, SeqElements
        <5>2. e.index \in 1..Len(values)
          BY <1>1, <4>1, <4>2, <5>1, WritingFacts, EventFacts
        <5> HIDE DEF e
        <5> QED
          BY <1>1, <1>3, <4>1, <4>2, <5>2, ValueWrites
      <4>3. CASE ~(e.kind = "value" /\ WritePlistValue(e.index))
        BY <1>3, <4>3 DEF WriteObject, Continue, IOError, Panic
      <4> QED
        BY <4>2, <4>3
    <3>4. ~WriteKey
      <4> SUFFICES ASSUME WriteKey
                   PROVE  FALSE
        OBVIOUS
      <4> DEFINE i == todo[Head(pending)].index
      <4>1. pc = "keys" /\ pending # <<>> /\ Writing /\ WritePlistValue(i)
        BY DEF WriteKey, Writing
      <4>2. i \in 1..Len(values)
        <5>1. /\ \A j \in 1..Len(pending) : pending[j] \in KeysAt
              /\ \A q \in KeysAt : todo[q].index \in 1..Len(values)
          BY <1>1, <4>1, AtHandFacts DEF AtHand
        <5>2. pending \in Seq(1..Len(todo))
          BY <1>1, <4>1, WritingFacts
        <5>3. Head(pending) = pending[1] /\ 1 \in 1..Len(pending)
          BY <4>1, <5>2, EmptyIffZero
        <5> QED
          BY <5>1, <5>3
      <4> HIDE DEF i
      <4> QED
        BY <1>1, <1>3, <4>1, <4>2, ValueWrites
    <3>5. WriteTrailer
      BY <3>1, <3>2, <3>3, <3>4 DEF WritePlist
    <3> QED
      BY <1>3, <3>5 DEF WriteTrailer, IOError
  <2>2. events = <<>> /\ dictionary_key_events = <<>> /\ collection_stack = <<>>
    BY <1>1, <2>1 DEF WInv, Phases, Writing
  <2>3. events' = <<>> /\ dictionary_key_events' = <<>> /\ collection_stack' = <<>>
    BY <2>1, <2>2 DEF buffer
  <2>4. OpenWalks(events', collection_stack') /\ ClosedWalks(events', OpenSet')
        /\ StringKeys(events', values') /\ WaitingStrings'
    BY <2>3 DEF OpenWalks, ClosedWalks, StringKeys, WaitingStrings
  <2> QED
    BY <2>4, LayoutKept DEF Walked
<1> QED
  BY <1>2, <1>3

(* Nothing happens.                                                         *)
LEMMA UnchangedWalks ==
  ASSUME LInv, UNCHANGED vars, WInv'
  PROVE  LInv'
<1>1. /\ events' = events /\ dictionary_key_events' = dictionary_key_events
      /\ collection_stack' = collection_stack /\ values' = values /\ pc' = pc
  BY DEF vars, buffer
<1>2. OpenSet' = OpenSet
  BY <1>1 DEF OpenSet
<1>3. Walked => Walked'
  BY <1>1, <1>2 DEF Walked, WaitingStrings
<1> QED
  BY <1>1, <1>3, LayoutKept DEF LInv

(* Every step keeps the layout.                                             *)
LEMMA NextWalks == LInv /\ [Next]_vars => LInv'
<1> SUFFICES ASSUME LInv, [Next]_vars
             PROVE  LInv'
  OBVIOUS
<1>1. WInv'
  BY NextKeeps DEF LInv
<1>2. ASSUME NEW ty \in {"array", "dict"}, WriteStartCollection(ty)
      PROVE  LInv'
  BY <1>1, <1>2, WriteStartCollectionWalks
<1>3. CASE WriteEndCollection
  BY <1>1, <1>3, WriteEndCollectionWalks
<1>4. ASSUME NEW v \in Values, WriteValue(v)
      PROVE  LInv'
  BY <1>1, <1>4, WriteValueWalks
<1>5. CASE WritePlist
  BY <1>1, <1>5, WritePlistWalks
<1>6. CASE UNCHANGED vars
  BY <1>1, <1>6, UnchangedWalks
<1> QED
  BY <1>2, <1>3, <1>4, <1>5, <1>6 DEF Next, Rest

(* Nothing is buffered at first.                                            *)
LEMMA InitWalks == Init => LInv
<1> SUFFICES ASSUME Init
             PROVE  LInv
  OBVIOUS
<1>1. events = <<>> /\ dictionary_key_events = <<>> /\ collection_stack = <<>>
  BY DEF Init
<1>2. Walked
  BY <1>1 DEF Walked, OpenWalks, ClosedWalks, StringKeys, WaitingStrings
<1> QED
  BY <1>2, InitKeeps DEF LInv

(* The open collections are laid out as documented.                         *)
LEMMA OpenWalkLaid ==
  ASSUME BufferTypes, OpenCollections, OpenWalks(events, collection_stack),
         NEW d \in 1..Len(collection_stack)
  PROVE  OpenLayout(d)
<1> DEFINE i == collection_stack[d]
           inner == Inner(collection_stack, d)
           end == NextOf(collection_stack, d, Len(events))
           c == Count(events, i, inner)
<1>1. i \in Nat
  BY OpenPositions
<1>2. OpenWalk(events, i, inner, end)
  BY DEF OpenWalks
<1>3. c \in Nat /\ Walk(events, i + 1, c, end)
  BY <1>2 DEF OpenWalk
<1>4. PastElements(events, i, c) = end
  <2> HIDE DEF i, c, end
  <2> QED
    BY <1>1, <1>3, WalkPast
<1>5. CASE d < Len(collection_stack)
  <2>1. inner = 1 /\ end = collection_stack[d + 1]
    BY <1>5 DEF Inner, NextOf
  <2>2. c = events[i].len - KeysOf(events[i]) - 1
    BY <2>1 DEF Count
  <2>3. PastElements(events, i, events[i].len - KeysOf(events[i]) - 1) = collection_stack[d + 1]
    BY <1>4, <2>1, <2>2
  <2> HIDE DEF inner, end, c
  <2> QED
    BY <1>5, <2>3 DEF OpenLayout
<1>6. CASE ~(d < Len(collection_stack))
  <2>1. inner = 0 /\ end = Len(events) + 1
    BY <1>6 DEF Inner, NextOf
  <2>2. c = events[i].len - KeysOf(events[i]) - 0
    BY <2>1 DEF Count
  <2>3. PastElements(events, i, events[i].len - KeysOf(events[i]) - 0) = Len(events) + 1
    BY <1>4, <2>1, <2>2
  <2> HIDE DEF inner, end, c
  <2> QED
    BY <1>6, <2>3 DEF OpenLayout
<1> QED
  BY <1>5, <1>6

(* The closed ones are.                                                     *)
LEMMA ClosedWalkLaid ==
  ASSUME BufferTypes, Laid(events, OpenSet), ClosedWalks(events, OpenSet),
         StringKeys(events, values), OpenCollections,
         NEW i \in 1..Len(events), events[i].kind = "collection", i \notin OpenSet
  PROVE  ClosedLayout(events, i)
<1> DEFINE n == Len(events)
           c == events[i]
           last == ElementsEnd(events, i)
<1>1. Len(values) \in Nat /\ n \in Nat /\ events \in Seq(EventsFor(Len(values)))
  BY DEF BufferTypes
<1>2. /\ i \in Nat /\ c.len \in Nat /\ c.skip \in Nat /\ c.ty \in {"array", "dict"}
      /\ last \in Int
      /\ c.ty = "array" => last = i + c.skip
      /\ c.ty = "dict" => last = i + c.skip - c.len - 1
      /\ BlockEnd(events, i) = i + c.skip
  BY <1>1, BlockFacts
<1>3. LaidAt(events, OpenSet, i)
  BY DEF Laid
<1>4. /\ i <= last /\ i + c.skip <= n
      /\ c.ty = "dict" => events[last + 1] = DictionaryKeys(c.len)
  BY <1>2, <1>3 DEF LaidAt, LaidCollection
<1>5. PastElements(events, i, c.len) = last + 1
  <2>1. Walk(events, i + 1, c.len, last + 1)
    BY DEF ClosedWalks, ClosedWalk
  <2> HIDE DEF c, last
  <2> QED
    BY <1>2, <2>1, WalkPast
<1>6. CASE c.ty = "array"
  <2>1. PastElements(events, i, c.len) = i + c.skip + 1
    BY <1>2, <1>5, <1>6
  <2> QED
    BY <1>6, <2>1 DEF ClosedLayout
<1>7. CASE c.ty = "dict"
  <2> DEFINE end == last + 1
             len == c.len
  <2>1. end \in 1..n /\ events[end] = DictionaryKeys(len) /\ end + len = i + c.skip
        /\ len \in Nat
    <3>1. end \in 1..n /\ end + len = i + c.skip
      <4> DEFINE skip == c.skip
      <4>1. skip \in Nat /\ len \in Nat /\ last = i + skip - len - 1 /\ i <= last
            /\ i + skip <= n /\ i \in Nat /\ i \in 1..n
        BY <1>2, <1>4, <1>7
      <4>2. n \in Nat
        BY <1>1
      <4> HIDE DEF skip, len, last, n, c
      <4>3. end \in 1..n /\ end + len = i + skip
        BY <4>1, <4>2
      <4> QED
        BY <4>3 DEF skip
    <3> QED
      BY <1>2, <1>4, <1>7, <3>1
  <2>2. events[end].kind = "keys" /\ events[end].len = len
    BY <2>1 DEF DictionaryKeys
  <2> HIDE DEF end, len
  <2>3. end \notin OpenSet
    BY <2>2, OpenAreCollections
  <2>4. KeysAreStrings(events, values, end)
    BY <2>1, <2>2 DEF StringKeys
  <2>5. LaidKeys(events, OpenSet, end)
    BY <2>1, <2>2, <2>3 DEF Laid, LaidAt
  <2>6. ASSUME NEW k \in 1..len
        PROVE  /\ events[end + k].kind = "value"
               /\ values[events[end + k].index].value \in Strings
    <3>1. end + k \in (end + 1)..(end + events[end].len)
      BY <2>1, <2>2
    <3>2. events[end + k].kind = "value"
      BY <2>5, <3>1 DEF LaidKeys
    <3>3. k \in 1..events[end].len
      BY <2>2
    <3> QED
      BY <2>4, <3>2, <3>3 DEF KeysAreStrings
  <2>7. PastElements(events, i, events[i].len) = end
    BY <1>5 DEF end
  <2>8. /\ events[end] = DictionaryKeys(events[i].len)
        /\ end + events[i].len = i + events[i].skip
        /\ \A k \in 1..events[i].len :
             /\ events[end + k].kind = "value"
             /\ values[events[end + k].index].value \in Strings
    BY <2>1, <2>6 DEF len
  <2>9. events[i].ty # "array"
    BY <1>7
  <2> HIDE DEF c
  <2> QED
    BY <2>7, <2>8, <2>9 DEF ClosedLayout
<1> QED
  BY <1>2, <1>6, <1>7

(* So the buffer is.                                                        *)
LEMMA BufferIsLaidOut == LInv => LayoutAsDocumented
<1> SUFFICES ASSUME LInv, pc \in {"idle", "header"}
             PROVE  /\ \A d \in 1..Len(collection_stack) : OpenLayout(d)
                    /\ BufferedKeys = Len(dictionary_key_events)
                    /\ \A i \in 1..Len(events) :
                         events[i].kind = "collection"
                           /\ ~(\E d \in 1..Len(collection_stack) : collection_stack[d] = i)
                         => ClosedLayout(events, i)
  BY DEF LayoutAsDocumented
<1>1. /\ BufferTypes /\ OpenCollections /\ KeysWait /\ Laid(events, OpenSet)
      /\ OpenWalks(events, collection_stack) /\ ClosedWalks(events, OpenSet)
      /\ StringKeys(events, values)
  BY TypesOfBuffer DEF LInv, WInv, Buffering, Walked
<1>2. \A d \in 1..Len(collection_stack) : OpenLayout(d)
  BY <1>1, OpenWalkLaid
<1>3. BufferedKeys = Len(dictionary_key_events)
  BY <1>1, KeysAddUp
<1>4. ASSUME NEW i \in 1..Len(events), events[i].kind = "collection",
             ~(\E d \in 1..Len(collection_stack) : collection_stack[d] = i)
      PROVE  ClosedLayout(events, i)
  <2>1. i \notin OpenSet
    BY <1>4 DEF OpenSet
  <2> QED
    BY <1>1, <1>4, <2>1, ClosedWalkLaid
<1> QED
  BY <1>2, <1>3, <1>4

(* The buffer is laid out as its documentation says: a closed array has len *)
(* elements, a closed dictionary len values and then that many strings, to  *)
(* where skip says; an open collection has what it has counted, and just    *)
(* the keys of the open dictionaries wait.                                  *)
THEOREM BufferLaidOut == Spec => []LayoutAsDocumented
<1>1. Init => LInv
  BY InitWalks
<1>2. LInv /\ [Next]_vars => LInv'
  BY NextWalks
<1>3. LInv => LayoutAsDocumented
  BY BufferIsLaidOut
<1> QED
  BY <1>1, <1>2, <1>3, PTL DEF Spec

=============================================================================
