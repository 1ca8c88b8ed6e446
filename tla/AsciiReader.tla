---------------------------- MODULE AsciiReader ----------------------------
(***************************************************************************)
(* stream/ascii_reader.rs: an iterator that turns the characters of an old *)
(* style property list into plist events, with one character of lookahead. *)
(*                                                                         *)
(* An action is one pass of one of the loops, with the advance it makes;   *)
(* `loop` says which of them is next, and is "next" between two calls of   *)
(* next.  The client calls next until it returns None and does not mind    *)
(* errors.                                                                 *)
(***************************************************************************)
EXTENDS AsciiGrammar

CONSTANTS
  Documents,         (* the documents read                                 *)
  FaultyDocuments    (* those whose source fails once, at any read         *)

VARIABLES
  document,
  read,                       (* how much of it the source has delivered   *)
  peeked_char, current_char, current_pos,
  loop,
  quote,                      (* the quote of the string being read        *)
  acc,                        (* what a string, comment or escape holds    *)
  escape, code_unit,          (* the digits of an escape, a surrogate      *)
  latest_consume,             (* in a block comment                        *)
  faults,                     (* the failures still to come                *)
  events                      (* history: what next has returned           *)

source == <<document, read, peeked_char, current_char, current_pos, faults>>
string == <<quote, acc, escape, code_unit>>
vars == <<source, string, loop, latest_consume, events>>

(***************************************************************************)
(* advance.                                                                *)
(***************************************************************************)
Source(k) == IF k <= Len(document) THEN document[k] ELSE None
Delivered(n) == read' = IF read + n <= Len(document) THEN read + n ELSE Len(document)

(* "We need to read two chars to boot the process."                         *)
Booting == current_pos = 0

Advance ==
  /\ \/ /\ Booting
        /\ current_char' = Source(read + 1) /\ peeked_char' = Source(read + 2)
        /\ Delivered(2)
     \/ /\ ~Booting
        /\ current_char' = peeked_char /\ peeked_char' = Source(read + 1)
        /\ Delivered(1)
  /\ current_pos' = IF current_char' = None THEN current_pos ELSE current_pos + 1
  /\ UNCHANGED <<document, faults>>

(* The first or, to begin with, the second read fails.                      *)
AdvanceFails ==
  /\ faults > 0
  /\ faults' = faults - 1
  /\ \/ current_char' = peeked_char /\ UNCHANGED <<peeked_char, read>>
     \/ /\ Booting
        /\ current_char' = Source(read + 1) /\ peeked_char' = Source(read + 1)
        /\ Delivered(1)
  /\ UNCHANGED <<document, current_pos>>

(***************************************************************************)
(* What a pass of a loop leads to.                                         *)
(***************************************************************************)
Goto(l) == loop' = l /\ UNCHANGED events

(* next returns. *)
Return(e) == loop' = "next" /\ events' = Append(events, e)
Fail == Return(Error)

SameString == UNCHANGED string
SameComment == UNCHANGED latest_consume

Start(q, text) == quote' = q /\ acc' = text /\ escape' = <<>> /\ code_unit' = <<>>
Add(char) == acc' = Append(acc, char) /\ escape' = <<>> /\ code_unit' = <<>> /\ UNCHANGED quote

(***************************************************************************)
(* read_next and potential_comment.                                        *)
(***************************************************************************)
StringAfterSlash == Goto("unquoted") /\ Start(None, <<<<peeked_char'>>>>) /\ SameComment

PotentialComment ==
  \/ peeked_char' = "/" /\ Goto("line") /\ SameString /\ SameComment
  \/ peeked_char' = "*" /\ Goto("block") /\ latest_consume' = " " /\ SameString
  \/ peeked_char' = None /\ Fail /\ SameString /\ SameComment
  \/ peeked_char' \notin {"/", "*", None} /\ StringAfterSlash

ReadNext ==
  /\ loop = "next" /\ Advance
  /\ LET c == current_char' IN
     \/ c = "/" /\ PotentialComment
     \/ c \in Quotes /\ Goto("quoted") /\ Start(c, <<>>) /\ SameComment
     \/ /\ SameString /\ SameComment
        /\ \/ c = None /\ Goto("done")
           \/ c = "(" /\ Return(Event("array", <<>>))
           \/ c = "{" /\ Return(Event("dict", <<>>))
           \/ c \in {")", "}"} /\ Return(Event("end", <<>>))
           \/ c \in White \cup Separators /\ Goto("next")
     \/ /\ c \notin {"/", None, "(", "{", ")", "}"} \cup Quotes \cup White \cup Separators
        /\ Goto("unquoted") /\ Start(None, <<<<c>>>>) /\ SameComment

(***************************************************************************)
(* unquoted_string_literal.                                                *)
(***************************************************************************)
(* Mutant: a parenthesis does not end a string. *)
Terminators_NoParenthesis == {" ", "\r", "\t", ";", ",", None}

Terminators == {" ", ")", "\r", "\t", ";", ",", None}

UnquotedChar ==
  /\ loop = "unquoted" /\ peeked_char \notin Terminators
  /\ Advance /\ Goto("unquoted") /\ Add(<<current_char'>>) /\ SameComment

UnquotedEnd ==
  /\ loop = "unquoted" /\ peeked_char \in Terminators
  /\ Return(Unquoted(acc))
  /\ UNCHANGED source /\ SameString /\ SameComment

(***************************************************************************)
(* quoted_string_literal.                                                  *)
(***************************************************************************)
(* advance_quoted_string, in the loop l. *)
Quoted(l) == loop = l /\ Advance /\ SameComment

(* The end of the document is the end of no string.                         *)
Unclosed(l) == Quoted(l) /\ current_char' = None /\ Fail /\ SameString

QuotedChar ==
  /\ Quoted("quoted")
  /\ LET c == current_char' IN
     \/ c = quote /\ Return(Event("string", acc)) /\ SameString
     \/ c = "\\" /\ Goto("escape") /\ SameString
     \/ c \notin {quote, "\\", None} /\ Goto("quoted") /\ Add(AsChar(c))

Escape ==
  /\ Quoted("escape")
  /\ LET c == current_char' IN
     \/ c \in {"\\", "\""} /\ Goto("quoted") /\ Add(<<c>>)
     \/ c \in ControlLetters /\ Goto("quoted") /\ Add(<<"control", c>>)
     \/ c = "U" /\ Goto("utf16") /\ SameString
     \/ c \in OctalDigits /\ Goto("octal") /\ escape' = <<c>> /\ UNCHANGED <<quote, acc, code_unit>>
     \/ c \notin {"\\", "\"", "U", None} \cup ControlLetters \cup OctalDigits
          /\ Fail /\ SameString

(* The characters of a number, the last of which makes it one.              *)
Collect(l, n) ==
  /\ Quoted(l) /\ current_char' # None /\ Len(escape) + 1 < n
  /\ Goto(l) /\ escape' = Append(escape, current_char') /\ UNCHANGED <<quote, acc, code_unit>>
Collected(l, n) == Quoted(l) /\ current_char' # None /\ Len(escape) + 1 = n

Octal ==
  \/ Collect("octal", 3)
  \/ /\ Collected("octal", 3)
     /\ LET ds == Append(escape, current_char') IN
        IF \A i \in 1..3 : ds[i] \in OctalDigits
        THEN Goto("quoted") /\ Add(OctalChar(ds))
        ELSE Fail /\ SameString

(* utf16_escape and utf16_code_unit: a surrogate waits for another code     *)
(* unit, which must complete it.                                            *)
Utf16 ==
  \/ Collect("utf16", 4)
  \/ /\ Collected("utf16", 4)
     /\ LET u == Append(escape, current_char')
            hex == \A i \in 1..4 : u[i] \in HexDigits
        IN \/ /\ hex /\ code_unit = <<>> /\ ~Surrogate(u)
              /\ Goto("quoted") /\ Add(Utf16Char(u))
           \/ /\ hex /\ code_unit = <<>> /\ Surrogate(u)
              /\ Goto("pair") /\ code_unit' = u /\ escape' = <<>> /\ UNCHANGED <<quote, acc>>
           \/ /\ hex /\ code_unit # <<>> /\ HighSurrogate(code_unit) /\ LowSurrogate(u)
              /\ Goto("quoted") /\ Add(Utf16Char(code_unit \o u))
           \/ /\ ~hex \/ (code_unit # <<>> /\ ~(HighSurrogate(code_unit) /\ LowSurrogate(u)))
              /\ Fail /\ SameString

Pair ==
  \/ /\ Quoted("pair") /\ current_char' # None
     /\ IF current_char' = "\\" /\ peeked_char' \in {"u", "U"} THEN Goto("second") ELSE Fail
     /\ SameString
  \/ Quoted("second") /\ current_char' # None /\ Goto("utf16") /\ SameString

QuotedEnds == \E l \in {"quoted", "escape", "octal", "utf16", "pair", "second"} : Unclosed(l)

(***************************************************************************)
(* line_comment and block_comment.                                         *)
(***************************************************************************)
LineComment ==
  /\ loop = "line"
  /\ \/ peeked_char \notin {"\n", None} /\ Advance /\ Goto("line")
     \/ peeked_char \in {"\n", None} /\ UNCHANGED source /\ Goto("next")
  /\ SameString /\ SameComment

(* The condition of the loop, and its body: what follows a star is consumed *)
(* by the condition and never itself compared with a star.                  *)
BlockCondition ==
  /\ loop = "block"
  /\ \/ latest_consume # "*" /\ UNCHANGED source /\ Goto("comment")
     \/ /\ latest_consume = "*" /\ Advance
        /\ Goto(IF current_char' \in {"/", None} THEN "next" ELSE "comment")
  /\ SameString /\ SameComment

(* Mutant: the end of the document is not noticed. *)
Incomplete_Ignored == Goto("comment")

Incomplete == Fail

BlockBody ==
  /\ loop = "comment" /\ Advance /\ SameString
  /\ \/ current_char' # None /\ Goto("block") /\ latest_consume' = current_char'
     \/ current_char' = None /\ Incomplete /\ SameComment

(* The source fails in advance, in whichever loop it is.                    *)
Advances ==
  \/ loop \in {"next", "quoted", "escape", "octal", "utf16", "pair", "second", "comment"}
  \/ loop = "unquoted" /\ peeked_char \notin Terminators
  \/ loop = "line" /\ peeked_char \notin {"\n", None}
  \/ loop = "block" /\ latest_consume = "*"

ReadFails == Advances /\ AdvanceFails /\ Fail /\ SameString /\ SameComment

Init ==
  /\ document \in Documents
  /\ faults = (IF document \in FaultyDocuments THEN 1 ELSE 0)
  /\ read = 0 /\ peeked_char = None /\ current_char = None /\ current_pos = 0
  /\ loop = "next" /\ quote = None /\ acc = <<>> /\ escape = <<>> /\ code_unit = <<>>
  /\ latest_consume = " " /\ events = <<>>

Read ==
  \/ ReadNext \/ UnquotedChar \/ UnquotedEnd
  \/ QuotedChar \/ Escape \/ Octal \/ Utf16 \/ Pair \/ QuotedEnds
  \/ LineComment \/ BlockCondition \/ BlockBody
  \/ ReadFails

Finished == loop = "done" /\ UNCHANGED vars

Next == Read \/ Finished

Spec == Init /\ [][Next]_vars

(* next is called until it returns None.                                    *)
FairSpec == Spec /\ WF_vars(Read)

(***************************************************************************)
(* Properties.                                                             *)
(***************************************************************************)

(* What next has returned up to its first error.                            *)
UpToError ==
  LET failed == SelectInSeq(events, LAMBDA e : e.kind = "error")
  IN  IF failed = 0 THEN events ELSE SubSeq(events, 1, failed)

(* What next has returned up to its first error is what the grammar says,   *)
(* wherever strings, comments and escapes touch: the lookahead neither      *)
(* loses a character nor uses one twice.  Where the source fails, it is     *)
(* what the grammar says up to there.                                       *)
AsSpecified(tokens) ==
  IF document \in FaultyDocuments /\ faults = 0
  THEN \/ IsPrefix(UpToError, tokens)
       \/ IsPrefix(SubSeq(UpToError, 1, Len(UpToError) - 1), tokens)
  ELSE UpToError = tokens

(* The documents are those without strings that begin with a slash and      *)
(* without stars in comments that touch one another or the slash that opens *)
(* the comment.                                                             *)
TokensAsSpecified ==
  loop = "done" =>
    LET g == Lexed(document) IN g.plain /\ ~g.slash => AsSpecified(g.tokens)

(* The same for strings that begin with a slash: "Some(string) if '/' was   *)
(* the first character of a string" (ascii_reader.rs:278).                  *)
SlashStringsAsSpecified ==
  loop = "done" =>
    LET g == Lexed(document) IN g.plain => AsSpecified(g.tokens)

(* Every document is read to its end, whatever is left open in it.          *)
Terminates == <>(loop = "done")

=============================================================================
