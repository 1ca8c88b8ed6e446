------------------------------ MODULE MCValue ------------------------------
(***************************************************************************)
(* Values for ValueRoundTrip: numbers that stand for strings come first.   *)
(***************************************************************************)
EXTENDS ValueRoundTrip

MCEditItems == {Leaf(3)}

=============================================================================
