------------------------------ MODULE IndexMap ------------------------------
(***************************************************************************)
(* The IndexMap (external) behind Dictionary, as dictionary.rs uses it: a  *)
(* sequence of entries [key, value] that are found by their keys.          *)
(***************************************************************************)
EXTENDS Integers, Sequences, SequencesExt

(* Where a key is, 0 for nowhere.                                           *)
IndexOf(es, k) == SelectInSeq(es, LAMBDA e : e.key = k)

(* Mutant: a key already there is inserted once more. *)
Inserted_Again(es, k, v) == Append(es, [key |-> k, value |-> v])

(* Mutant: the first value of a key stays. *)
Inserted_First(es, k, v) ==
  IF IndexOf(es, k) # 0 THEN es ELSE Append(es, [key |-> k, value |-> v])

(* Mutant: a key that is inserted again goes to the end. *)
Inserted_Moves(es, k, v) ==
  Append(SelectSeq(es, LAMBDA e : e.key # k), [key |-> k, value |-> v])

(* insert: the value of a key already there is replaced where it is.        *)
Inserted(es, k, v) ==
  LET i == IndexOf(es, k) IN
  IF i # 0 THEN [es EXCEPT ![i].value = v] ELSE Append(es, [key |-> k, value |-> v])

(* Mutant: the last entry also stays where it was. *)
Removed_Twice(es, k) ==
  LET i == IndexOf(es, k) IN IF i = 0 THEN es ELSE [es EXCEPT ![i] = Last(es)]

(* swap_remove: the last entry goes where the removed one was.              *)
Removed(es, k) ==
  LET i == IndexOf(es, k)
      n == Len(es)
  IN  IF i = 0 THEN es
      ELSE [j \in 1..(n - 1) |-> IF j = i THEN es[n] ELSE es[j]]

Retained(es, keys) == SelectSeq(es, LAMBDA e : e.key \in keys)

Sorted(es) == SortSeq(es, LAMBDA d, e : d.key < e.key)

Extended(es, pairs) ==
  FoldLeft(LAMBDA acc, p : Inserted(acc, p.key, p.value), es, pairs)

=============================================================================
