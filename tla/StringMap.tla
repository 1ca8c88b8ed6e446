----------------------------- MODULE StringMap -----------------------------
(***************************************************************************)
(* What a dictionary promises: it is a map from keys to values, whatever   *)
(* order it keeps them in.  `call` is the call made last, `answer` what it *)
(* returned and how many entries there were afterwards.                    *)
(***************************************************************************)
EXTENDS Integers, Sequences, FiniteSets, Functions

VARIABLES map, call, answer

Nothing == [kind |-> "none", of |-> <<>>]
Some(v) == [kind |-> "some", of |-> <<v>>]
Panics == [kind |-> "panic", of |-> <<>>]

Held(k) == IF k \in DOMAIN map THEN Some(map[k]) ELSE Nothing

With(k, v) == [j \in DOMAIN map \cup {k} |-> IF j = k THEN v ELSE map[j]]

Answers(a) == answer' = [returned |-> a, len |-> Cardinality(DOMAIN map')]

Clear == call'.op = "clear" /\ map' = << >> /\ Answers(Nothing)

Get == call'.op = "get" /\ UNCHANGED map /\ Answers(Held(call'.key))

Insert ==
  /\ call'.op = "insert"
  /\ map' = With(call'.key, call'.value)
  /\ Answers(Held(call'.key))

Remove ==
  /\ call'.op = "remove"
  /\ map' = Restrict(map, DOMAIN map \ {call'.key})
  /\ Answers(Held(call'.key))

Retain ==
  /\ call'.op = "retain"
  /\ map' = Restrict(map, DOMAIN map \cap call'.keys)
  /\ Answers(Nothing)

SortKeys == call'.op = "sort_keys" /\ UNCHANGED map /\ Answers(Nothing)

OrInsert ==
  /\ call'.op = "or_insert"
  /\ map' = IF call'.key \in DOMAIN map THEN map ELSE With(call'.key, call'.value)
  /\ Answers(Some(map'[call'.key]))

(* An assignment through a reference to the value of a key.                 *)
IndexMut ==
  /\ call'.op = "index_mut"
  /\ \/ /\ call'.key \in DOMAIN map
        /\ map' = With(call'.key, call'.value) /\ Answers(Nothing)
     \/ call'.key \notin DOMAIN map /\ UNCHANGED map /\ Answers(Panics)

(* The pair that comes last decides.                                        *)
Extend ==
  /\ call'.op = "extend"
  /\ LET pairs == call'.pairs
         given == { pairs[i].key : i \in 1..Len(pairs) }
         last(k) == CHOOSE i \in 1..Len(pairs) :
                      pairs[i].key = k /\ \A j \in (i + 1)..Len(pairs) : pairs[j].key # k
     IN  map' = [k \in DOMAIN map \cup given |->
                   IF k \in given THEN pairs[last(k)].value ELSE map[k]]
  /\ Answers(Nothing)

Next ==
  \/ Clear \/ Get \/ Insert \/ Remove \/ Retain \/ SortKeys
  \/ OrInsert \/ IndexMut \/ Extend

=============================================================================
