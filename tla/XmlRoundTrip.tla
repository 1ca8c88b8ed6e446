---------------------------- MODULE XmlRoundTrip ----------------------------
(***************************************************************************)
(* The XML encoding end to end: whatever XmlWriter writes, with or without *)
(* the root element, XmlReader reads back as the events that were written. *)
(* The reader is given the output when a root is complete, or a document   *)
(* that no writer wrote.                                                   *)
(***************************************************************************)
EXTENDS XmlWriter

CONSTANT Documents   (* those that no writer wrote *)

VARIABLES reading,   (* FALSE while the writer is used, TRUE afterwards *)
          document,  (* what the reader is given                        *)
          rAt, rOpened, rStarted, rFinished, rElement, rContent, rEvents, rReturned

reader == <<rAt, rOpened, rStarted, rFinished, rElement, rContent, rEvents, rReturned>>
allVars == <<vars, reading, document, reader>>

R == INSTANCE XmlReader WITH
  Parsable <- Datas \cup Texts,
  at <- rAt, opened <- rOpened, started <- rStarted, finished <- rFinished,
  element <- rElement, content <- rContent, events <- rEvents, returned <- rReturned

RoundTripInit ==
  /\ Init
  /\ \/ reading = FALSE /\ document = <<>>
     \/ reading = TRUE /\ document \in Documents /\ ~write_root_element
  /\ rAt = 1 /\ rOpened = <<>> /\ rStarted = FALSE /\ rFinished = FALSE
  /\ rElement = "none" /\ rContent = <<>> /\ rEvents = <<>> /\ rReturned = "reading"

Write == ~reading /\ Next /\ UNCHANGED <<reading, document, reader>>

(* A second plist on a writer of root elements is not a document.           *)
Turn ==
  /\ ~reading
  /\ verdict = "ok" /\ request = NoCall /\ pending_collection = "none"
  /\ stack = <<>> /\ PlistsEnded <= 1
  /\ reading' = TRUE
  /\ document' = output
  /\ UNCHANGED <<vars, reader>>

Read == reading /\ UNCHANGED <<vars, reading>> /\ R!Read

ReadFinished == reading /\ UNCHANGED <<vars, reading>> /\ R!Finished

RoundTripNext == Write \/ Turn \/ Read \/ ReadFinished

RoundTripSpec == RoundTripInit /\ [][RoundTripNext]_allVars

(* The consumer calls next until the reader is finished.                    *)
FairRoundTripSpec == RoundTripSpec /\ WF_allVars(Read)

(***************************************************************************)
(* Properties.                                                             *)
(***************************************************************************)
AsCall(e) == [kind |-> e.kind, arg |-> IF e.kind = "value" THEN e.arg[1] ELSE 0]

(* The reader delivers the events written, in the order they were written,  *)
(* all of them when it ends, and never fails: whatever collections are      *)
(* empty, wherever keys fall and whether or not there is a root element.    *)
XmlReadsBack ==
  reading /\ document = output =>
    /\ rReturned # "error"
    /\ Len(rEvents) <= Len(input)
    /\ \A i \in 1..Len(rEvents) : AsCall(rEvents[i]) = input[i]
    /\ rFinished => Len(rEvents) = Len(input)

(* In any document, the collections that the events leave open are those    *)
(* whose elements are open.                                                 *)
EventsMatchElements == R!EventsMatchElements

(* Every document is read to its end.                                       *)
ReadToTheEnd == reading ~> rFinished

=============================================================================
