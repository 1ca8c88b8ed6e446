----------------------------- MODULE Dictionary -----------------------------
(***************************************************************************)
(* dictionary.rs: the Dictionary, an IndexMap (external), which keeps its  *)
(* entries in a sequence and finds them through an index.  The order of    *)
(* the entries is the order in which they are written.                     *)
(***************************************************************************)
EXTENDS IndexMap

CONSTANTS Keys,     (* the keys used, integers in the order of str *)
          Items     (* the values put in                           *)

VARIABLES
  entries,    (* [key, value], in their order                  *)
  call,       (* the call made last                            *)
  answer      (* what it returned, and the len() after it      *)

dictionary == <<entries, call, answer>>

(***************************************************************************)
(* The operations.                                                         *)
(***************************************************************************)
Nothing == [kind |-> "none", of |-> <<>>]
Some(v) == [kind |-> "some", of |-> <<v>>]
Panics == [kind |-> "panic", of |-> <<>>]

Value(k) ==
  LET i == IndexOf(entries, k) IN IF i = 0 THEN Nothing ELSE Some(entries[i].value)

Called(c) == call' = c
Answers(a) == answer' = [returned |-> a, len |-> Len(entries')]

Clear ==
  /\ Called([op |-> "clear"])
  /\ entries' = <<>> /\ Answers(Nothing)

(* get, contains_key and Index, which panics instead of returning nothing.  *)
Get(k) ==
  /\ Called([op |-> "get", key |-> k])
  /\ UNCHANGED entries /\ Answers(Value(k))

Insert(k, v) ==
  /\ Called([op |-> "insert", key |-> k, value |-> v])
  /\ entries' = Inserted(entries, k, v) /\ Answers(Value(k))

(* remove, and remove of an occupied Entry.                                 *)
RemoveKey(k) ==
  /\ Called([op |-> "remove", key |-> k])
  /\ entries' = Removed(entries, k) /\ Answers(Value(k))

Retain(keys) ==
  /\ Called([op |-> "retain", keys |-> keys])
  /\ entries' = Retained(entries, keys) /\ Answers(Nothing)

SortKeys ==
  /\ Called([op |-> "sort_keys"])
  /\ entries' = Sorted(entries) /\ Answers(Nothing)

(* Mutant: the default takes the place of what is there. *)
Default_Always(k, v) == Inserted(entries, k, v)

(* The entries once k has a value, v if it had none.                        *)
Default(k, v) ==
  IF IndexOf(entries, k) # 0 THEN entries ELSE Append(entries, [key |-> k, value |-> v])

(* entry(k).or_insert(v), or_insert_with.                                   *)
OrInsert(k, v) ==
  /\ Called([op |-> "or_insert", key |-> k, value |-> v])
  /\ entries' = Default(k, v)
  /\ Answers(Some(entries'[IndexOf(entries', k)].value))

(* dict[k] = v, and what get_mut, iter_mut and an occupied Entry lend.      *)
IndexMut(k, v) ==
  /\ Called([op |-> "index_mut", key |-> k, value |-> v])
  /\ LET i == IndexOf(entries, k) IN
     \/ i # 0 /\ entries' = [entries EXCEPT ![i].value = v] /\ Answers(Nothing)
     \/ i = 0 /\ UNCHANGED entries /\ Answers(Panics)

(* extend, and from_iter when the dictionary is new.                        *)
Extend(pairs) ==
  /\ Called([op |-> "extend", pairs |-> pairs])
  /\ entries' = Extended(entries, pairs) /\ Answers(Nothing)

New ==
  /\ entries = <<>>
  /\ call = [op |-> "new"] /\ answer = [returned |-> Nothing, len |-> 0]

Edit ==
  \/ Clear \/ SortKeys
  \/ \E k \in Keys : Get(k) \/ RemoveKey(k)
  \/ \E keys \in SUBSET Keys : Retain(keys)
  \/ \E k \in Keys, v \in Items : Insert(k, v) \/ OrInsert(k, v) \/ IndexMut(k, v)
  \/ \E k \in Keys, j \in Keys, v \in Items :
       Extend(<<[key |-> k, value |-> v], [key |-> j, value |-> v]>>)

(***************************************************************************)
(* Properties.                                                             *)
(***************************************************************************)
(* The map that the entries are.                                            *)
KeysOf(es) == { es[i].key : i \in 1..Len(es) }
Contents(es) == [k \in KeysOf(es) |-> es[IndexOf(es, k)].value]

Map == INSTANCE StringMap WITH map <- Contents(entries)

(* A dictionary answers every call as a map does, whatever was inserted,    *)
(* removed, moved and sorted before: no key is there twice, none is lost    *)
(* when the last entry takes the place of another.                          *)
ImplementsMap == [][Map!Next]_dictionary

=============================================================================
