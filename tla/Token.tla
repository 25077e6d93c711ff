------------------------------- MODULE Token -------------------------------
(***************************************************************************)
(* How characters become tokens (libutil/token.c): nexttoken, with a token *)
(* to be returned again; peekc, which looks past blanks and comments, also *)
(* in the lines that follow; and the one line that both read from.         *)
(*                                                                         *)
(* A text is a sequence of pieces, so that its tokens are known.  Letters  *)
(* are "a" and "L", a digit is "1".  Every line ends with a newline: the   *)
(* carriage return and a last line without end are left out, as are the    *)
(* names of files and messages.                                            *)
(***************************************************************************)
EXTENDS Integers, Sequences, SequencesExt, FiniteSetsExt

CONSTANTS Texts,         \* sequences of pieces [kind, chars]
          Interested,    \* the special characters that are tokens
          Reserved,      \* of "##", "::" and "%%", the reserved words
          MAXTOKEN

VARIABLES pieces, text,  \* the text, and its characters
          in,            \* the line that is read: ip, ib, sp, cp, lineno, continued_line
          mode,          \* where nexttoken or peekc is
          crflag, sharp, percent, quote,
          token, ptok, lasttok,
          look, comment, answer,  \* of peekc
          due, peeked    \* the token the caller has to be given; whether peekc(0) was called

tokenVars == <<pieces, text, in, mode, crflag, sharp, percent, quote, token, ptok, lasttok, look,
               comment, answer, due, peeked>>

NL == "newline"
EOF == "EOF"
SYMBOL == "symbol"
Letters == {"a", "L"}
WordChars == {"a", "L", "1"}

----------------------------------------------------------------------------
(* Characters.  "at" is how many of them were read, "held" whether cp is   *)
(* not NULL, "open" whether sp is not: that is so until the end was met.   *)

StartOfText == [at |-> 0, held |-> FALSE, open |-> FALSE, line |-> 0, continued |-> FALSE]

\* nextchar(): what it returns, and what is left.
Got(b) == IF b.at = Len(text) THEN EOF ELSE text[b.at + 1]
After(b) ==
  IF Got(b) = EOF THEN [b EXCEPT !.held = FALSE, !.open = FALSE]
  ELSE [at |-> b.at + 1, held |-> Got(b) # NL, open |-> TRUE,
        line |-> IF b.held THEN b.line ELSE b.line + 1,
        continued |-> b.continued /\ Got(b) # NL]

\* pushbackchar().
Back(b) == IF b.open THEN [b EXCEPT !.at = @ - 1, !.held = TRUE] ELSE b

\* The line after a call of peekc(1), which returns Got(b).
Peeked(b) == IF b.held THEN Back(After(b)) ELSE b

\* atfirst and atfirst_exceptspace(), of the character read last.
AtFirst(b) == b.at = 1 \/ text[b.at - 1] = NL
AtFirstExceptSpace(b) ==
  \E k \in 0 .. b.at - 1 : /\ k = 0 \/ text[k] = NL
                           /\ \A j \in k + 1 .. b.at - 1 : text[j] = " "

----------------------------------------------------------------------------
(* What the caller should be told: pieces, not characters.                 *)

IsBlank(p) == p.kind = "blank"
OnlyBlanks(s, i, j) == \A k \in i .. j : IsBlank(s[k])
FirstOfLine(s, i) == i = 1 \/ Last(s[i - 1].chars) = NL
FirstButBlanks(s, i) ==   \* of a line that continues no other
  \E k \in 1 .. i : (k = 1 \/ s[k - 1].kind = "newline") /\ OnlyBlanks(s, k, i - 1)

\* Whether the symbol at i belongs to a "#", or to a "%".
Directive(s, i) ==
  \E j \in 1 .. i - 1 : s[j].kind = "sharp" /\ FirstButBlanks(s, j) /\ OnlyBlanks(s, j + 1, i - 1)
YaccWord(s, i) == i > 1 /\ s[i - 1].kind = "percent" /\ FirstOfLine(s, i - 1)

TokenAt(s, i) ==
  CASE s[i].kind # "symbol" -> s[i].chars
    [] Directive(s, i)      -> <<"#">> \o s[i].chars
    [] YaccWord(s, i)       -> <<"%">> \o s[i].chars
    [] OTHER                -> s[i].chars

IsToken(s, i) ==
  CASE s[i].kind = "symbol"   -> TokenAt(s, i) # <<"L">> \/ s[i + 1].kind # "string"
    [] s[i].kind = "newline"  -> TRUE
    [] s[i].kind = "special"  -> s[i].chars[1] \in Interested
    [] s[i].kind = "percents" -> FirstOfLine(s, i) /\ s[i].chars \in Reserved
    [] OTHER                  -> FALSE

CharsOf(s) == FlattenSeq([i \in DOMAIN s |-> s[i].chars])
LineAt(s, i) == 1 + Len(SelectSeq(CharsOf(SubSeq(s, 1, i - 1)), LAMBDA x: x = NL))

\* The piece of the next token, after the one at i; one more than there are at the end.
NextToken(s, i, cr) ==
  Min({j \in i + 1 .. Len(s) : IsToken(s, j) /\ (cr \/ s[j].kind # "newline")} \cup {Len(s) + 1})

PassedOver == {"blank", "newline", "comment", "long"}

\* What is to be seen behind the piece at i.
Seen(s, i, immediate) ==
  LET behind == SelectSeq(SubSeq(s, i + 1, Len(s)),
                          LAMBDA p: immediate \/ p.kind \notin PassedOver)
  IN  IF behind = <<>> THEN EOF ELSE Head(behind).chars[1]

----------------------------------------------------------------------------
(* nexttoken.                                                              *)

TokenInitOf(ts) ==
  /\ pieces \in ts
  /\ text = CharsOf(pieces)
  /\ in = StartOfText
  /\ mode = "idle"
  /\ crflag = TRUE /\ sharp = FALSE /\ percent = FALSE /\ quote = EOF
  /\ token = <<>> /\ ptok = <<>> /\ lasttok = EOF
  /\ look = StartOfText /\ comment = FALSE /\ answer = EOF
  /\ due = 0 /\ peeked = FALSE
TokenInit == TokenInitOf(Texts)

\* The next character and the one behind it, and what is left when one or both are read.
ch == Got(in)
ch2 == Got(After(in))
one == After(in)
two == After(one)

unpeeked == UNCHANGED <<pieces, text, look, comment, answer, due, peeked>>

\* The next turn of the loop, with what was read; and the end of the loop.
Turn(b) == /\ mode' = "next" /\ in' = b
           /\ sharp' = FALSE /\ percent' = FALSE
           /\ UNCHANGED <<crflag, quote, token, ptok, lasttok>>
Within(m, b) == /\ mode' = m /\ in' = b
                /\ UNCHANGED <<crflag, sharp, percent, quote, token, ptok, lasttok>>
Return(b, tok, val) == /\ mode' = "idle" /\ in' = b
                       /\ token' = tok /\ lasttok' = val
                       /\ UNCHANGED <<crflag, sharp, percent, quote, ptok>>

\* A call, by a caller that wants newlines as tokens or does not (it sets crflag).
CallNextToken ==
  /\ mode = "idle" /\ ptok = <<>>
  /\ due <= Len(pieces)
  /\ \E cr \in BOOLEAN : crflag' = cr /\ due' = NextToken(pieces, due, cr)
  /\ mode' = "next" /\ sharp' = FALSE /\ percent' = FALSE
  /\ UNCHANGED <<pieces, text, in, quote, token, ptok, lasttok, look, comment, answer, peeked>>

CallAgain ==
  /\ mode = "idle" /\ ptok # <<>>
  /\ token' = ptok /\ ptok' = <<>>
  /\ UNCHANGED <<pieces, text, in, mode, crflag, sharp, percent, quote, lasttok, look, comment,
                 answer, due, peeked>>

\* The parsers push back no token before they have read a symbol.
PushBackToken ==
  /\ mode = "idle" /\ ptok = <<>> /\ token # <<>>
  /\ ptok' = token
  /\ UNCHANGED <<pieces, text, in, mode, crflag, sharp, percent, quote, token, lasttok, look,
                 comment, answer, due, peeked>>

Space == ch = " " \/ (ch = NL /\ ~crflag)
SkipSpaces == mode = "next" /\ Space /\ Within("next", one) /\ unpeeked
LineEnds == mode = "next" /\ ~Space /\ ch \in {NL, EOF} /\ Return(one, token, ch) /\ unpeeked

OpenQuote == /\ mode = "next" /\ ch \in {"\"", "'"}
             /\ mode' = "quote" /\ in' = one /\ quote' = ch
             /\ UNCHANGED <<crflag, sharp, percent, token, ptok, lasttok>> /\ unpeeked
InQuote == /\ mode = "quote"
           /\ IF ch \in {quote, EOF} \/ (quote = "'" /\ ch = NL) THEN Turn(one)
              ELSE IF ch # "\\" THEN Within("quote", one)
              ELSE IF ch2 = EOF THEN Turn(two) ELSE Within("quote", two)
           /\ unpeeked

Slash == /\ mode = "next" /\ ch = "/"
         /\ CASE ch2 = "/" -> Within("line", two)
              [] ch2 = "*" -> Within("block", two)
              [] OTHER     -> Turn(Back(two))
         /\ unpeeked
\* The newline behind a comment is not pushed back.
MUT_LineComment_NoPushback == /\ mode = "line"
                              /\ IF ch \in {NL, EOF} THEN Turn(one) ELSE Within("line", one)
                              /\ unpeeked
LineComment == /\ mode = "line"
               /\ CASE ch = NL  -> Turn(Back(one))
                    [] ch = EOF -> Turn(one)
                    [] OTHER    -> Within("line", one)
               /\ unpeeked
BlockComment == /\ mode = "block"
                /\ CASE ch = "*" /\ ch2 = "/" -> Turn(two)
                     [] ch = "*" /\ ch2 # "/" -> Within("block", Back(two))
                     [] ch = EOF              -> Turn(one)
                     [] OTHER                 -> Within("block", one)
                /\ unpeeked

Backslash == /\ mode = "next" /\ ch = "\\"
             /\ Turn(IF ch2 = NL THEN [two EXCEPT !.continued = TRUE] ELSE two)
             /\ unpeeked

NumberBegins == mode = "next" /\ ch = "1" /\ Within("digit", one) /\ unpeeked
InNumber == /\ mode = "digit"
            /\ IF ch \in WordChars \cup {"."} THEN Within("digit", one) ELSE Turn(Back(one))
            /\ unpeeked

\* "##" and "::": passed over if they are reserved words, else returned.
Double == /\ mode = "next" /\ ch \in {"#", ":"} /\ ch2 = ch
          /\ IF <<ch, ch>> \in Reserved THEN Turn(two)
             ELSE Return(two, <<ch, ch>>, SYMBOL)
          /\ unpeeked
Sharp == /\ mode = "next" /\ ch = "#" /\ ch2 # "#"
         /\ IF ~Peeked(one).continued /\ AtFirstExceptSpace(one)
            THEN /\ mode' = "next" /\ in' = Peeked(one) /\ sharp' = TRUE
                 /\ UNCHANGED <<crflag, percent, quote, token, ptok, lasttok>>
            ELSE Turn(Peeked(one))
         /\ unpeeked
Colon == mode = "next" /\ ch = ":" /\ ch2 # ":" /\ Turn(Peeked(one)) /\ unpeeked

Percent == /\ mode = "next" /\ ch = "%"
           /\ CASE ~AtFirst(one) -> Turn(one)
                [] AtFirst(one) /\ ch2 \in {"%", "{", "}"} ->
                     IF <<ch, ch2>> \in Reserved THEN Return(two, <<ch, ch2>>, <<ch, ch2>>)
                     ELSE Turn(two)
                [] OTHER -> IF ch2 \in {" ", NL} THEN Turn(Peeked(one))
                            ELSE /\ mode' = "next" /\ in' = Peeked(one) /\ percent' = TRUE
                                 /\ UNCHANGED <<crflag, sharp, quote, token, ptok, lasttok>>
           /\ unpeeked

Begins == IF sharp THEN <<"#">> ELSE IF percent THEN <<"%">> ELSE <<>>
SymbolBegins == /\ mode = "next" /\ ch \in Letters
                /\ IF Begins = <<>> /\ ch = "L" /\ ch2 \in {"\"", "'"}
                   THEN Within("next", Peeked(one))
                   ELSE /\ mode' = "symbol" /\ in' = one
                        /\ token' = Begins \o <<ch>>
                        /\ sharp' = FALSE /\ percent' = FALSE
                        /\ UNCHANGED <<crflag, quote, ptok, lasttok>>
                /\ unpeeked
InSymbol == /\ mode = "symbol"
            /\ CASE ch \in WordChars ->
                      /\ in' = one
                      /\ token' = IF Len(token) < MAXTOKEN THEN Append(token, ch) ELSE token
                      /\ UNCHANGED <<mode, crflag, sharp, percent, quote, ptok, lasttok>>
                 [] ch \notin WordChars /\ Len(token) = MAXTOKEN -> Within("next", one)
                 [] OTHER -> Return(Back(one), token, SYMBOL)
            /\ unpeeked

\* Any other character: cmode, cppmode and ymode are on.
Special == /\ mode = "next"
           /\ ch \notin Letters \cup {" ", NL, EOF, "\"", "'", "/", "\\", "1", "#", ":", "%"}
           /\ IF ch \in Interested THEN Return(one, token, ch) ELSE Turn(one)
           /\ unpeeked

----------------------------------------------------------------------------
(* peekc.  With blanks it first reads on in the line; at its end it reads  *)
(* the file behind it, and goes back there.                                *)

unscanned == UNCHANGED <<pieces, text, crflag, sharp, percent, quote, token, ptok, lasttok, due>>

Answer(b, val) == mode' = "idle" /\ in' = b /\ answer' = val /\ UNCHANGED <<look, comment, peeked>>
Go(m, b) == mode' = m /\ in' = b /\ UNCHANGED <<look, comment, answer, peeked>>
GoRaw(m, b) == mode' = m /\ look' = b /\ UNCHANGED <<in, comment, answer, peeked>>

PeekImmediate == /\ mode = "idle" /\ ptok = <<>>
                 /\ Answer(Peeked(in), ch)
                 /\ unscanned
CallPeek == /\ mode = "idle" /\ ptok = <<>>
            /\ mode' = IF in.held THEN "peek" ELSE "raw"
            /\ look' = in /\ comment' = FALSE /\ peeked' = TRUE
            /\ UNCHANGED <<in, answer>> /\ unscanned

Peek == /\ mode = "peek"
        /\ CASE ch = " "                          -> Go("peek", one)
             [] ch = "/" /\ ch2 = "/"             -> Go("peek line", two)
             [] ch = "/" /\ ch2 = "*"             -> /\ mode' = "peek block" /\ in' = two
                                                    /\ comment' = TRUE
                                                    /\ UNCHANGED <<look, answer, peeked>>
             [] ch = "/" /\ ch2 \notin {"/", "*"} -> Go("peek", Back(two))
             [] ch = NL                           -> /\ mode' = "raw"
                                                    /\ in' = Back(one) /\ look' = one
                                                    /\ UNCHANGED <<comment, answer, peeked>>
             [] ch = EOF                          -> Answer(one, EOF)
             [] OTHER                             -> Answer(Back(one), ch)
        /\ unscanned
PeekLine == /\ mode = "peek line"
            /\ CASE ch = NL  -> Go("peek", Back(one))
                 [] ch = EOF -> Go("peek", one)
                 [] OTHER    -> Go("peek line", one)
            /\ unscanned
PeekBlock == /\ mode = "peek block"
             /\ CASE ch = "*" /\ ch2 = "/" -> /\ mode' = "peek" /\ in' = two /\ comment' = FALSE
                                             /\ UNCHANGED <<look, answer, peeked>>
                  [] ch = "*" /\ ch2 # "/" -> Go("peek block", two)
                  [] ch = NL               -> Go("peek", Back(one))
                  [] ch = EOF              -> Go("peek", one)
                  [] OTHER                 -> Go("peek block", one)
             /\ unscanned

\* In the file itself: getc(), with what it has read in look.
raw == Got(look)
raw2 == Got(After(look))
Raw == /\ mode = "raw"
       /\ CASE raw = EOF            -> Answer(in, EOF)
            [] raw # EOF /\ comment -> GoRaw("raw block", After(look))
            [] ~comment /\ raw = "/" ->
                 IF raw2 = "/" THEN GoRaw("raw line", After(After(look)))
                 ELSE IF raw2 = "*" THEN GoRaw("raw block", After(After(look)))
                 ELSE Answer(in, raw2)
            [] ~comment /\ raw \in {" ", NL}      -> GoRaw("raw", After(look))
            [] OTHER                              -> Answer(in, raw)
       /\ unscanned
\* A // comment goes on behind its line.
MUT_RawLine_Stays == /\ mode = "raw line"
                     /\ GoRaw(IF raw = EOF THEN "raw" ELSE "raw line", After(look))
                     /\ unscanned
RawLine == /\ mode = "raw line"
           /\ GoRaw(IF raw \in {NL, EOF} THEN "raw" ELSE "raw line", After(look))
           /\ unscanned
RawBlock == /\ mode = "raw block"
            /\ CASE raw = "*" /\ raw2 = "/" -> /\ mode' = "raw" /\ look' = After(After(look))
                                              /\ comment' = FALSE
                                              /\ UNCHANGED <<in, answer, peeked>>
                 [] raw = "*" /\ raw2 # "/" -> GoRaw("raw block", After(After(look)))
                 [] raw = EOF               -> GoRaw("raw", After(look))
                 [] OTHER                   -> GoRaw("raw block", After(look))
            /\ unscanned

TokenNext ==
  \/ CallNextToken \/ CallAgain \/ PushBackToken
  \/ SkipSpaces \/ LineEnds \/ OpenQuote \/ InQuote \/ Slash \/ LineComment \/ BlockComment
  \/ Backslash \/ NumberBegins \/ InNumber \/ Double \/ Sharp \/ Colon \/ Percent
  \/ SymbolBegins \/ InSymbol \/ Special
  \/ PeekImmediate \/ CallPeek \/ Peek \/ PeekLine \/ PeekBlock \/ Raw \/ RawLine \/ RawBlock
TokenSpec == TokenInit /\ [][TokenNext]_tokenVars

----------------------------------------------------------------------------

\* Whether the caller has the token it is due, and the line it is on.
Given ==
  IF due > Len(pieces) THEN lasttok = EOF
  ELSE /\ in.line = LineAt(pieces, due)
       /\ CASE pieces[due].kind = "symbol"  -> lasttok = SYMBOL /\ token = TokenAt(pieces, due)
            [] pieces[due].kind = "percents" -> lasttok = pieces[due].chars /\ token = lasttok
            [] OTHER -> lasttok = pieces[due].chars[1]

\* Comments that peekc(0) does not read as comments: over two lines, or with "**" at their end.
Overread == \E i \in DOMAIN pieces : pieces[i].kind = "long"
Slashes == \E i \in DOMAIN pieces : pieces[i].kind = "slash"
Peeking == mode \in {"peek", "peek line", "peek block", "raw", "raw line", "raw block"}

\* Whatever the caller looks at and pushes back in between, nexttoken returns the tokens of
\* the text, each once, in order and with its line: a comment, a string, a number or a blank
\* is none, and none is lost with the line that ends there (nexttoken, pushbackchar, peekc).
\* If comments are there that peekc overreads, it must not have been called.
TokensRight == mode = "idle" /\ due > 0 /\ ~(Overread /\ peeked) => Given

\* peekc(0) answers with the first character behind the token read last that is neither blank
\* nor of a comment, in whatever line it is; it does not if a slash is there that begins no
\* comment, or a comment that it overreads.
PeekRight ==
  [][Peeking /\ mode' = "idle" /\ ~Overread /\ ~Slashes
       => answer' = Seen(pieces, due, FALSE)]_tokenVars

\* peekc reads ahead and takes nothing away: the tokens and their lines are those of the text
\* also when the caller has looked ahead (the comment on peekc, token.c:261).
TokensAfterPeek == mode = "idle" /\ due > 0 => Given
=============================================================================
