--------------------------- MODULE SerdeRoundTrip ---------------------------
(***************************************************************************)
(* A value of a Rust type is serialized, and a value of the same type is   *)
(* deserialized from the events written, or from events that differ from   *)
(* them in one place.                                                      *)
(***************************************************************************)
EXTENDS Serializer

CONSTANTS
  Typed,                (* the values, each with its type: [ty, value]      *)
  Disturbed,            (* the types whose events are read with changes too *)
  Dates, Reals, Uids    (* the leaves that are not strings                  *)

VARIABLES dEvents, dAt, dType, dMode, dInValue, dCalls, dBuilt, dOutcome

deserializer == <<dEvents, dAt, dType, dMode, dInValue, dCalls, dBuilt, dOutcome>>
allVars == <<vars, deserializer>>

D == INSTANCE Deserializer WITH
  events <- dEvents, at <- dAt, type <- dType, option_mode <- dMode,
  in_plist_value <- dInValue, calls <- dCalls, built <- dBuilt, outcome <- dOutcome

RoundTripInit ==
  /\ \E t \in Typed : value = t.value /\ dType = t.ty
  /\ Init /\ D!Idle

Run == Next /\ UNCHANGED deserializer

(* The events es with one of them dropped, repeated or replaced.            *)
Changes == {<<Start("array")>>, <<Start("dict")>>, <<End>>, <<Leaf("None")>>, <<Leaf("date")>>,
            <<[kind |-> "error", arg |-> ""]>>, <<>>}
Changed(es) ==
  UNION { { SubSeq(es, 1, i - 1) \o change \o SubSeq(es, i + 1, Len(es)) :
              change \in Changes \cup {<<es[i], es[i]>>} } : i \in 1..Len(es) }

Turn ==
  /\ outcome = "ok" /\ dOutcome = "idle"
  /\ \/ D!FromStream(written)
     \/ dType \in Disturbed /\ \E es \in Changed(written) : D!FromStream(es)
  /\ UNCHANGED vars

Read == D!Step /\ UNCHANGED vars

(* All calls have returned: nothing is left to do. *)
Rest ==
  /\ \/ outcome = "error" /\ calls = <<>>
     \/ dOutcome \in {"ok", "error"} /\ dCalls = <<>>
  /\ UNCHANGED allVars

RoundTripNext == Run \/ Turn \/ Read \/ Rest

RoundTripSpec == RoundTripInit /\ [][RoundTripNext]_allVars

(***************************************************************************)
(* Properties.                                                             *)
(***************************************************************************)

(* What is read back from the events of a value is that value: both sides   *)
(* agree on where an Option is left out and where it is a dictionary, under *)
(* every nesting of types.                                                  *)
DeserializesBack ==
  dEvents = written =>
    /\ dOutcome # "error"
    /\ dOutcome = "ok" => dBuilt = <<value>>

(* The Deserializer's properties.                                           *)
ReadsWholePlist == D!ReadsWholePlist
DeserializerModeRestored == D!ModeRestored

=============================================================================
