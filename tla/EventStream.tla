---------------------------- MODULE EventStream ----------------------------
(***************************************************************************)
(* What a source of plist events promises its consumer (stream/mod.rs): a  *)
(* flat encoding of one tree.  A collection announces how many elements    *)
(* follow before its EndCollection (a dictionary of n pairs announces 2n:  *)
(* keys and values are "represented as pairs of values"), collections nest *)
(* properly, exactly one root is delivered, and after an error nothing     *)
(* more is.  The readers are shown to implement this specification.        *)
(***************************************************************************)
EXTENDS Naturals, Sequences

CONSTANT Event      (* the events a source can deliver: [kind, arg] records, *)
                    (* arg being what a value is or the length announced     *)

VARIABLES
  phase,            (* "before" the root, "inside" it, or "after" it     *)
  open,             (* elements still due in each open collection        *)
  events            (* the events delivered so far                       *)

streamVars == <<phase, open, events>>

(* The number of elements that StartX(Some(n)) announces. *)
Announced(e) == IF e.kind = "dict" THEN 2 * e.arg ELSE e.arg

Deliver(e) == events' = Append(events, e)

StreamInit == phase = "before" /\ open = <<>> /\ events = <<>>

(* An element is due: the root, or the next one of the innermost collection. *)
ElementDue ==
  \/ phase = "before"
  \/ phase = "inside" /\ open[Len(open)] > 0

(* The open collections once the element due has been delivered. *)
Consumed ==
  IF open = <<>> THEN open ELSE [open EXCEPT ![Len(open)] = @ - 1]

Scalar ==
  /\ ElementDue
  /\ \E e \in Event : e.kind = "value" /\ Deliver(e)
  /\ open' = Consumed
  /\ phase' = IF open = <<>> THEN "after" ELSE "inside"

StartCollection ==
  /\ ElementDue
  /\ \E e \in Event :
       /\ e.kind \in {"array", "dict"}
       /\ Deliver(e)
       /\ open' = Append(Consumed, Announced(e))
  /\ phase' = "inside"

EndCollection ==
  /\ phase = "inside"
  /\ open[Len(open)] = 0
  /\ \E e \in Event : e.kind = "end" /\ Deliver(e)
  /\ open' = SubSeq(open, 1, Len(open) - 1)
  /\ phase' = IF Len(open) = 1 THEN "after" ELSE "inside"

(* The source gives up: whatever is open stays unclosed. *)
Fail ==
  /\ phase # "after"
  /\ open' = <<>>
  /\ phase' = "after"
  /\ UNCHANGED events

StreamNext == Scalar \/ StartCollection \/ EndCollection \/ Fail

StreamSpec == StreamInit /\ [][StreamNext]_streamVars

=============================================================================
