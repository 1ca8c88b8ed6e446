---------------------------- MODULE StreamReader ----------------------------
(***************************************************************************)
(* stream/mod.rs: Reader, which finds out the encoding of its input by     *)
(* trying one reader after the other, and then hands every call to the one *)
(* that fits.  An error while it does so puts the input back, so that the  *)
(* next call tries again.                                                  *)
(*                                                                         *)
(* A document is the same input as each of the readers sees it: its object *)
(* table, its XML tokens, its characters; and what it says (`events`), for *)
(* the properties.  The client calls next until it returns None, an error  *)
(* once the encoding is known, or MaxErrors errors before that.            *)
(***************************************************************************)
EXTENDS Integers, Sequences, SequencesExt

CONSTANTS
  Inputs,       (* the documents read                                       *)
  NumObjects,   (* the size of their object tables                          *)
  Booleans, Parsable,
  MaxFaults,    (* how often the input fails to be read or rewound          *)
  MaxErrors

ASSUME BoundsAssumption ==
  MaxFaults \in Nat /\ MaxErrors \in Nat /\ MaxFaults < MaxErrors

VARIABLES
  input,
  inner,        (* "uninitialized", "taken" (Uninitialized(None)), "binary",*)
                (* "xml" or "ascii"                                         *)
  position,     (* of the input: 0 when it is at the start                  *)
  pc,           (* "call" between calls, a step of init, "end", "panic"     *)
  results,      (* history: what next has returned                          *)
  errors,       (* how many of them are errors                              *)
  faults,       (* the failures still to come                               *)
  misread       (* history: a failure has been taken for text that is not   *)
                (* XML, in a document that is                               *)

VARIABLES bInitialised, bStack, bOnStack, bEvents, bReturned
VARIABLES xAt, xOpened, xStarted, xFinished, xElement, xContent, xEvents, xReturned
VARIABLES aRead, aPeeked, aCurrent, aPos, aLoop, aQuote, aAcc, aEscape, aCodeUnit,
          aLatest, aEvents

binary == <<bInitialised, bStack, bOnStack, bEvents, bReturned>>
xml == <<xAt, xOpened, xStarted, xFinished, xElement, xContent, xEvents, xReturned>>
ascii == <<aRead, aPeeked, aCurrent, aPos, aLoop, aQuote, aAcc, aEscape, aCodeUnit,
           aLatest, aEvents>>
vars == <<input, inner, position, pc, results, errors, faults, misread, binary, xml, ascii>>

B == INSTANCE BinaryReader WITH
  Files <- {}, file <- input.file,
  initialised <- bInitialised, stack <- bStack, object_on_stack <- bOnStack,
  events <- bEvents, returned <- bReturned

X == INSTANCE XmlReader WITH
  Documents <- {}, document <- input.tokens,
  at <- xAt, opened <- xOpened, started <- xStarted, finished <- xFinished,
  element <- xElement, content <- xContent, events <- xEvents, returned <- xReturned

A == INSTANCE AsciiReader WITH
  Documents <- {}, FaultyDocuments <- {}, document <- input.chars,
  read <- aRead, peeked_char <- aPeeked, current_char <- aCurrent, current_pos <- aPos,
  loop <- aLoop, quote <- aQuote, acc <- aAcc, escape <- aEscape, code_unit <- aCodeUnit,
  latest_consume <- aLatest, events <- aEvents

(***************************************************************************)
(* The readers as their new leaves them, at position p of the input.       *)
(***************************************************************************)
BinaryNew ==
  /\ bInitialised' = FALSE /\ bStack' = <<>> /\ bOnStack' = << >>
  /\ bEvents' = <<>> /\ bReturned' = "none"

XmlNew ==
  /\ xAt' = 1 /\ xOpened' = <<>> /\ xStarted' = FALSE /\ xFinished' = FALSE
  /\ xElement' = "none" /\ xContent' = <<>> /\ xEvents' = <<>> /\ xReturned' = "reading"

AsciiNew(p) ==
  /\ aRead' = p /\ aPeeked' = A!None /\ aCurrent' = A!None /\ aPos' = 0
  /\ aLoop' = "next" /\ aQuote' = A!None /\ aAcc' = <<>> /\ aEscape' = <<>>
  /\ aCodeUnit' = <<>> /\ aLatest' = " " /\ aEvents' = <<>>

(***************************************************************************)
(* What a call comes to.                                                   *)
(***************************************************************************)
Error == [kind |-> "error", arg |-> "none"]

Going(l) == pc' = l /\ UNCHANGED <<results, errors>>
Delivers(e) == pc' = "call" /\ results' = Append(results, e) /\ UNCHANGED errors
Ends == pc' = "end" /\ UNCHANGED <<results, errors>>
ReturnsError(next) == pc' = next /\ results' = Append(results, Error) /\ errors' = errors + 1

PutBack == "uninitialized"

(* init fails: the input is put back. *)
InitFails == inner' = PutBack /\ ReturnsError("call")

InputFails == faults > 0 /\ faults' = faults - 1

(***************************************************************************)
(* init.                                                                   *)
(***************************************************************************)
(* reader.take().unwrap()                                                   *)
Take ==
  /\ pc = "call" /\ inner \in {"uninitialized", "taken"} /\ errors < MaxErrors
  /\ inner' = "taken" /\ Going(IF inner = "taken" THEN "panic" ELSE "start")
  /\ UNCHANGED <<input, position, faults, misread, binary, xml, ascii>>

RewindAtStart ==
  /\ pc = "start"
  /\ \/ position' = 0 /\ Going("magic") /\ UNCHANGED <<inner, faults>>
     \/ InputFails /\ InitFails /\ UNCHANGED position
  /\ UNCHANGED <<input, misread, binary, xml, ascii>>

(* is_binary: eight bytes are read, and the input is rewound.               *)
IsBinary ==
  /\ pc = "magic"
  /\ \/ /\ InputFails /\ InitFails /\ position' \in {0, 8}
        /\ UNCHANGED <<binary, xml>>
     \/ /\ input.short /\ InitFails /\ position' = Len(input.chars)
        /\ UNCHANGED <<faults, binary, xml>>
     \/ /\ ~input.short /\ input.format = "binary"
        /\ inner' = "binary" /\ BinaryNew /\ position' = 0 /\ Going("call")
        /\ UNCHANGED <<faults, xml>>
     \/ /\ ~input.short /\ input.format # "binary"
        /\ XmlNew /\ position' = 0 /\ Going("xml")
        /\ UNCHANGED <<inner, faults, binary>>
  /\ UNCHANGED <<input, misread, ascii>>

(* Mutant: an error of the XML reader is the end of the search. *)
NoMarkup_Never == FALSE

(* The XML reader has failed, before an event or a declaration: the input   *)
(* may yet be ASCII.                                                        *)
NoMarkup == ~xStarted

(* The first call of the XML reader, whose buffer takes in the input.       *)
XmlOrNot ==
  \/ xReturned' = "reading" /\ Going("xml") /\ UNCHANGED inner
  \/ xReturned' = "event" /\ inner' = "xml" /\ Delivers(Last(xEvents'))
  \/ xReturned' = "none" /\ inner' = "xml" /\ Ends
  \/ xReturned' = "error" /\ ~NoMarkup /\ InitFails
  \/ xReturned' = "error" /\ NoMarkup /\ Going("rewind") /\ UNCHANGED inner

(* A failure is an error of the XML reader like any other.                  *)
TryXml ==
  /\ pc = "xml"
  /\ UNCHANGED <<input, binary, ascii>>
  /\ position' = Len(input.chars)
  /\ \/ X!Read /\ UNCHANGED <<faults, misread>>
     \/ /\ InputFails /\ X!Fail /\ UNCHANGED <<xAt, xOpened>>
        /\ misread' = (misread \/ (input.format = "xml" /\ NoMarkup))
  /\ XmlOrNot

(* Mutant: the input is read on from where the XML reader has left it. *)
Start_Here == position

(* Where the input is once it is rewound.                                   *)
Start == 0

Rewind ==
  /\ pc = "rewind"
  /\ \/ AsciiNew(Start) /\ position' = Start /\ Going("ascii") /\ UNCHANGED <<inner, faults>>
     \/ InputFails /\ InitFails /\ UNCHANGED <<position, ascii>>
  /\ UNCHANGED <<input, misread, binary, xml>>

TryAscii ==
  /\ pc = "ascii"
  /\ UNCHANGED <<input, misread, binary, xml>>
  /\ position' = Len(input.chars)
  /\ A!Read
  /\ LET returned == Len(aEvents') > Len(aEvents) IN
     \/ ~returned /\ aLoop' # "done" /\ Going("ascii") /\ UNCHANGED inner
     \/ ~returned /\ aLoop' = "done" /\ inner' = "ascii" /\ Ends
     \/ returned /\ Last(aEvents') # A!Error /\ inner' = "ascii" /\ Delivers(Last(aEvents'))
     \/ returned /\ Last(aEvents') = A!Error /\ InitFails

(***************************************************************************)
(* next, once the encoding is known.  The input no longer fails.           *)
(***************************************************************************)
Handed(format) ==
  /\ pc = "call" /\ inner = format
  /\ UNCHANGED <<input, inner, position, faults, misread>>

NextBinary ==
  /\ Handed("binary") /\ B!Next
  /\ \/ bReturned' = "event" /\ Delivers(Last(bEvents'))
     \/ bReturned' = "none" /\ Ends
     \/ bReturned' = "err" /\ ReturnsError("end")
  /\ UNCHANGED <<xml, ascii>>

NextXml ==
  /\ Handed("xml") /\ X!Read
  /\ \/ xReturned' = "reading" /\ Going("call")
     \/ xReturned' = "event" /\ Delivers(Last(xEvents'))
     \/ xReturned' = "none" /\ Ends
     \/ xReturned' = "error" /\ ReturnsError("end")
  /\ UNCHANGED <<binary, ascii>>

NextAscii ==
  /\ Handed("ascii") /\ A!Read
  /\ LET returned == Len(aEvents') > Len(aEvents) IN
     \/ ~returned /\ aLoop' # "done" /\ Going("call")
     \/ ~returned /\ aLoop' = "done" /\ Ends
     \/ returned /\ Last(aEvents') # A!Error /\ Delivers(Last(aEvents'))
     \/ returned /\ Last(aEvents') = A!Error /\ ReturnsError("end")
  /\ UNCHANGED <<binary, xml>>

Init ==
  /\ input \in Inputs
  /\ inner = "uninitialized" /\ position \in {0, 8} /\ pc = "call"
  /\ results = <<>> /\ errors = 0 /\ faults = MaxFaults /\ misread = FALSE
  /\ bInitialised = FALSE /\ bStack = <<>> /\ bOnStack = << >>
  /\ bEvents = <<>> /\ bReturned = "none"
  /\ xAt = 1 /\ xOpened = <<>> /\ xStarted = FALSE /\ xFinished = FALSE
  /\ xElement = "none" /\ xContent = <<>> /\ xEvents = <<>> /\ xReturned = "reading"
  /\ aRead = 0 /\ aPeeked = A!None /\ aCurrent = A!None /\ aPos = 0
  /\ aLoop = "next" /\ aQuote = A!None /\ aAcc = <<>> /\ aEscape = <<>>
  /\ aCodeUnit = <<>> /\ aLatest = " " /\ aEvents = <<>>

Call ==
  \/ Take \/ RewindAtStart \/ IsBinary \/ TryXml \/ Rewind \/ TryAscii
  \/ NextBinary \/ NextXml \/ NextAscii

Rest == (pc \in {"end", "panic"} \/ errors = MaxErrors) /\ UNCHANGED vars

Next == Call \/ Rest

Spec == Init /\ [][Next]_vars

(* The client goes on calling next. *)
FairSpec == Spec /\ WF_vars(Call)

(***************************************************************************)
(* Properties.                                                             *)
(***************************************************************************)
Events == SelectSeq(results, LAMBDA r : r.kind # "error")

(* The one way in which a document is taken for another: the first read of   *)
(* XML fails, which init does not tell from text that is not XML, and what   *)
(* there is of it is ASCII enough.                                           *)
TakenForAscii == misread /\ inner = "ascii"

(* However often detection fails and begins anew, the events delivered are  *)
(* those of the document, from its first one on, each once, in the order of *)
(* the one encoding it has: none is lost to a reader that was tried before, *)
(* and when next returns None it has delivered all of them.                 *)
DeliversDocument ==
  \/ TakenForAscii
  \/ /\ IsPrefix(Events, input.events)
     /\ pc = "end" /\ (results = <<>> \/ Last(results).kind # "error") =>
          Events = input.events /\ input.whole

(* A failure of the input while the encoding is detected is not for good:   *)
(* a client that calls again gets the whole document.                       *)
Recovers ==
  <>[](input.whole /\ ~TakenForAscii => pc = "end" /\ Events = input.events)

=============================================================================
