------------------------------ MODULE MCToken ------------------------------
(* The texts of Token: pieces that may follow each other in a source file. *)
EXTENDS Token

Of(k, s) == [kind |-> k, chars |-> s]
MCNewline == Of("newline", <<NL>>)
MCReserved == {<<"#", "#">>, <<":", ":">>, <<"%", "%">>, <<"%", "{">>, <<"%", "}">>}

\* "long" are the comments that peekc overreads, "lost" is a symbol of MAXTOKEN characters
\* with the character behind it, which is passed over with it.
MCTextPieces == {
  Of("symbol", <<"a">>), Of("symbol", <<"a", "1">>), Of("symbol", <<"L">>),
  Of("number", <<"1", "a">>), Of("blank", <<" ">>), MCNewline,
  Of("special", <<"{">>), Of("special", <<"(">>),
  Of("string", <<"\"", "\\", "\"", "{", "'", NL, "\"">>), Of("string", <<"'", "\"", "'">>),
  Of("comment", <<"/", "*", "a", "*", "/">>), Of("comment", <<"/", "/", "{">>),
  Of("long", <<"/", "*", NL, "a", "*", "/">>), Of("long", <<"/", "*", "a", "*", "*", "/">>),
  Of("splice", <<"\\", NL>>), Of("slash", <<"/">>),
  Of("sharp", <<"#">>), Of("double", <<"#", "#">>), Of("double", <<":", ":">>),
  Of("percent", <<"%">>), Of("percents", <<"%", "%">>), Of("lost", <<"a", "a", "a", "a", " ">>) }

Wordy(p) == p.kind \in {"symbol", "number", "lost"}
MayFollow(p, q) ==
  /\ ~(Wordy(p) /\ Wordy(q))
  /\ p.kind = "slash" => q.kind \notin {"slash", "comment", "long"}
  /\ p.chars = <<"/", "/", "{">> => q = MCNewline
  /\ p.kind \in {"sharp", "percent"} =>
       q.kind \notin {"newline", "sharp", "double", "percent", "percents"}
  /\ p.kind = "percent" => q.chars # <<"{">>
MCTextsOf(n) ==
  {t \in {Append(s, MCNewline) : s \in UNION {[1 .. k -> MCTextPieces] : k \in 0 .. n}} :
     \A i \in 1 .. Len(t) - 1 : MayFollow(t[i], t[i + 1])}
MCTexts == MCTextsOf(2)
MCTexts3 == MCTextsOf(3)
=============================================================================
