---------------------------- MODULE AsciiGrammar ----------------------------
(***************************************************************************)
(* The characters of old style property lists, what they stand for, and    *)
(* the tokens of a document as a definition over its positions, with which *)
(* AsciiReader is compared.                                                *)
(*                                                                         *)
(* A document is a sequence of bytes, each a one-letter string or NotAscii *)
(* for one that is not ASCII.  The text of a token is a sequence of        *)
(* characters, each the sequence of what it was made of: <<c>> for the     *)
(* byte c taken as it is.                                                  *)
(***************************************************************************)
EXTENDS Integers, Sequences, SequencesExt

None == "none"
NotAscii == "non-ASCII"
White == {" ", "\r", "\t", "\n"}
Separators == {",", ";", "="}
Quotes == {"'", "\""}
Digits == {"0", "1", "2", "3", "4", "5", "6", "7", "8", "9"}
OctalDigits == Digits \ {"8", "9"}
(* from_str_radix also takes a leading +, which no document has.            *)
HexDigits == Digits \cup {"A", "B", "C", "D", "E", "F", "a", "b", "c", "d", "e", "f"}
ControlLetters == {"a", "b", "f", "n", "r", "t", "v"}

Event(k, text) == [kind |-> k, text |-> text]
Error == Event("error", <<>>)

(***************************************************************************)
(* What bytes stand for.                                                   *)
(***************************************************************************)
(* from_utf8, NotAscii being no UTF-8, and Integer::from_str.               *)
Unquoted(text) ==
  CASE Contains(text, <<NotAscii>>) -> Error
    [] \A i \in 1..Len(text) : text[i][1] \in Digits -> Event("integer", text)
    [] OTHER -> Event("string", text)

(* `c as char`: in quotes a byte is a character of Latin-1.                 *)
AsChar(c) == IF c = NotAscii THEN <<"Latin-1", c>> ELSE <<c>>

(* The character with an octal number; those of one byte that are not ASCII *)
(* are mapped from the character set of NeXTSTEP.                           *)
OctalChar(ds) == <<IF ds[1] \in {"2", "3"} THEN "NeXTSTEP" ELSE "Unicode">> \o ds

Surrogate(u) == u[1] \in {"D", "d"} /\ u[2] \notin OctalDigits
HighSurrogate(u) == Surrogate(u) /\ u[2] \in {"8", "9", "A", "B", "a", "b"}
LowSurrogate(u) == Surrogate(u) /\ ~HighSurrogate(u)

Utf16Char(u) == <<"UTF-16">> \o u

(***************************************************************************)
(* The grammar.                                                            *)
(***************************************************************************)
(* The first position from i on that is one of the given ones, else past    *)
(* the end of s.                                                            *)
First(s, i, Found(_)) ==
  IF \E k \in i..Len(s) : Found(k)
  THEN CHOOSE k \in i..Len(s) : Found(k) /\ \A j \in i..(k - 1) : ~Found(j)
  ELSE Len(s) + 1

All(s, i, n, set) == i + n - 1 <= Len(s) /\ \A k \in i..(i + n - 1) : s[k] \in set

(* Lexemes: the position after one, and the events it stands for.           *)
Lexeme(next, out) == [next |-> next, out |-> out]
Broken(s) == Lexeme(Len(s) + 1, <<Error>>)

(* A string without quotes ends before white space on the same line, a      *)
(* parenthesis or a separator other than =.                                 *)
StringAt(s, i) ==
  LET end == First(s, i + 1, LAMBDA k : s[k] \in {" ", "\r", "\t", ")", ";", ","})
  IN  Lexeme(end, <<Unquoted([k \in 1..(end - i) |-> <<s[i + k - 1]>>])>>)

LineCommentAt(s, i) == Lexeme(First(s, i + 2, LAMBDA k : s[k] = "\n"), <<>>)

CommentEnd(s, i) == First(s, i + 3, LAMBDA k : s[k - 1] = "*" /\ s[k] = "/")
BlockCommentAt(s, i) ==
  IF CommentEnd(s, i) <= Len(s) THEN Lexeme(CommentEnd(s, i) + 1, <<>>) ELSE Broken(s)

(* No star in the comment is next to another, to the slash that opens it,   *)
(* or, if nothing closes it, at the end.                                    *)
Plain(s, i) ==
  \A k \in (i + 1)..(CommentEnd(s, i) - 1) :
    s[k] = "*" =>
      /\ k < Len(s) /\ s[k + 1] # "*"
      /\ k = i + 1 => s[k + 1] # "/"

(* The escape at the backslash s[k]: its length, 0 if it is none, and the   *)
(* character it stands for.                                                 *)
EscapeAt(s, k) ==
  LET Unit(j) == SubSeq(s, j, j + 3)
      Sized(n, char) == [length |-> n, char |-> char]
      Pair == /\ All(s, k + 6, 1, {"\\"}) /\ All(s, k + 7, 1, {"u", "U"})
              /\ All(s, k + 8, 4, HexDigits)
              /\ HighSurrogate(Unit(k + 2)) /\ LowSurrogate(Unit(k + 8))
  IN  CASE All(s, k + 1, 1, {"\\", "\""}) -> Sized(2, <<s[k + 1]>>)
        [] All(s, k + 1, 1, ControlLetters) -> Sized(2, <<"control", s[k + 1]>>)
        [] All(s, k + 1, 3, OctalDigits) -> Sized(4, OctalChar(SubSeq(s, k + 1, k + 3)))
        [] All(s, k + 1, 1, {"U"}) /\ All(s, k + 2, 4, HexDigits) /\ ~Surrogate(Unit(k + 2)) ->
             Sized(6, Utf16Char(Unit(k + 2)))
        [] All(s, k + 1, 1, {"U"}) /\ All(s, k + 2, 4, HexDigits) /\ Pair ->
             Sized(12, Utf16Char(Unit(k + 2) \o Unit(k + 8)))
        [] OTHER -> Sized(0, <<>>)

(* The characters from k on up to the quote; <<Error>> in their place if    *)
(* there is none, or an escape is wrong.                                    *)
QuotedAt(s, i) ==
  LET Scanned(out, next) == [out |-> out, next |-> next]
      Scan[k \in (i + 1)..(Len(s) + 12)] ==
        CASE k > Len(s) -> Scanned(<<>>, 0)
          [] k <= Len(s) /\ s[k] = s[i] -> Scanned(<<>>, k + 1)
          [] k <= Len(s) /\ s[k] \notin {s[i], "\\"} ->
               LET rest == Scan[k + 1] IN Scanned(<<AsChar(s[k])>> \o rest.out, rest.next)
          [] k <= Len(s) /\ s[k] = "\\" ->
               LET esc == EscapeAt(s, k) IN
               IF esc.length = 0 THEN Scanned(<<>>, 0)
               ELSE LET rest == Scan[k + esc.length]
                    IN  Scanned(<<esc.char>> \o rest.out, rest.next)
      scan == Scan[i + 1]
  IN  IF scan.next = 0 THEN Broken(s) ELSE Lexeme(scan.next, <<Event("string", scan.out)>>)

(* What begins with a slash is a comment, or a string of which the slash is *)
(* part.                                                                    *)
Slash(s, i, second) == s[i] = "/" /\ i < Len(s) /\ s[i + 1] \in second
SlashString(s, i) == s[i] = "/" /\ i < Len(s) /\ s[i + 1] \notin {"/", "*"}

LexemeAt(s, i) ==
  CASE s[i] \in White \cup Separators -> Lexeme(i + 1, <<>>)
    [] s[i] = "(" -> Lexeme(i + 1, <<Event("array", <<>>)>>)
    [] s[i] = "{" -> Lexeme(i + 1, <<Event("dict", <<>>)>>)
    [] s[i] \in {")", "}"} -> Lexeme(i + 1, <<Event("end", <<>>)>>)
    [] s[i] \in Quotes -> QuotedAt(s, i)
    [] Slash(s, i, {"/"}) -> LineCommentAt(s, i)
    [] Slash(s, i, {"*"}) -> BlockCommentAt(s, i)
    [] s[i] = "/" /\ i = Len(s) -> Broken(s)
    [] OTHER -> StringAt(s, i)

(* The events up to the first error, and whether the document has plain     *)
(* comments only, or strings that begin with a slash.                       *)
Lexed(s) ==
  LET Then(lexeme, rest, plain, slash) ==
        [tokens |-> lexeme.out \o rest.tokens,
         plain |-> plain /\ rest.plain, slash |-> slash \/ rest.slash]
      From[i \in 1..(Len(s) + 1)] ==
        IF i > Len(s) THEN [tokens |-> <<>>, plain |-> TRUE, slash |-> FALSE]
        ELSE LET lexeme == LexemeAt(s, i) IN
             Then(lexeme,
                  From[IF Contains(lexeme.out, Error) THEN Len(s) + 1 ELSE lexeme.next],
                  Slash(s, i, {"*"}) => Plain(s, i), SlashString(s, i))
  IN  From[1]

=============================================================================
