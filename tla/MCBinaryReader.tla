--------------------------- MODULE MCBinaryReader ---------------------------
(***************************************************************************)
(* Bounded inputs for BinaryReader, and a reference definition of what a   *)
(* file contains.                                                          *)
(***************************************************************************)
EXTENDS BinaryReader, FiniteSets

CONSTANT MaxRefs   (* references in an array, keys plus values in a dict *)

(* Object numbers 0..NumObjects-1 exist; NumObjects is out of range. *)
MCRef == 0..NumObjects
Leaves == [kind : {"value", "unreadable"}, refs : {<<>>}]
Collections(max) ==
  LET Refs(n) == [1..n -> MCRef] IN
  [kind : {"array"}, refs : UNION { Refs(n) : n \in 0..max }]
    \cup [kind : {"dict"}, refs : UNION { Refs(2 * n) : n \in 0..(max \div 2) }]

Tables(Objects) == [ObjectRef -> Objects]

(* Every graph of collections of up to MaxRefs references; deep sharing and *)
(* long cycles.  The root is object 0, without loss of generality.          *)
Graphs ==
  [header : {"good"}, root : {0}, faulty : {FALSE},
   objects : Tables(Leaves \cup Collections(MaxRefs))]
(* A wide root over leaves: the order of keys and values. *)
Wide ==
  [header : {"good"}, root : {0}, faulty : BOOLEAN,
   objects : { [leaves EXCEPT ![0] = root] :
                 root \in Collections(2 * MaxRefs), leaves \in Tables(Leaves) }]
(* Bad headers, a root out of range, faulty reads. *)
Broken ==
  [header : Header, root : {0, NumObjects}, faulty : BOOLEAN,
   objects : Tables(Leaves \cup Collections(MaxRefs - 1))]

MCFiles == Graphs \cup Wide \cup Broken

(***************************************************************************)
(* The reference: the events of object r of file f, met on the path above. *)
(* ok is FALSE when the walk stops at an error.                            *)
(***************************************************************************)
KeyedRefs(o) ==        \* element k of a collection, in document order
  LET n == Len(o.refs) IN
  IF o.kind = "array" THEN o.refs
  ELSE [k \in 1..n |-> IF k % 2 = 1 THEN o.refs[(k + 1) \div 2]
                                    ELSE o.refs[n \div 2 + k \div 2]]

RECURSIVE Expand(_, _, _), ExpandAll(_, _, _)
Expand(f, r, above) ==
  IF \/ r \notin ObjectRef
     \/ f.objects[r].kind = "unreadable"
     \/ r \in above
  THEN [ok |-> FALSE, evs |-> <<>>]
  ELSE LET o == f.objects[r] IN
       IF o.kind = "value"
       THEN [ok |-> TRUE, evs |-> <<ValueEvent(r)>>]
       ELSE LET inner == ExpandAll(f, KeyedRefs(o), above \cup {r})
                started == <<[kind |-> o.kind,
                              arg |-> IF o.kind = "dict" THEN Len(o.refs) \div 2
                                                         ELSE Len(o.refs)]>>
            IN  IF inner.ok THEN [ok |-> TRUE, evs |-> started \o inner.evs \o <<EndEvent>>]
                            ELSE [ok |-> FALSE, evs |-> started \o inner.evs]
ExpandAll(f, refs, above) ==
  IF refs = <<>> THEN [ok |-> TRUE, evs |-> <<>>]
  ELSE LET first == Expand(f, Head(refs), above) IN
       IF ~first.ok THEN first
       ELSE LET rest == ExpandAll(f, Tail(refs), above)
            IN  [ok |-> rest.ok, evs |-> first.evs \o rest.evs]

(* The events are those of the tree that the object graph unfolds to, cut   *)
(* at the first object that cannot be read or that contains itself.  The    *)
(* walk delivers a prefix of them, reading faults only ever cut it short,   *)
(* and without one it ends with an error exactly when the document has one. *)
WalkIsUnfolding ==
  LET doc == Expand(file, file.root, {}) IN
  /\ Len(events) <= Len(doc.evs)
  /\ events = SubSeq(doc.evs, 1, Len(events))
  /\ phase = "after" /\ file.header = "good" /\ ~file.faulty =>
       /\ events = doc.evs
       /\ returned = "event" => doc.ok
       /\ returned = "err" => ~doc.ok

=============================================================================
