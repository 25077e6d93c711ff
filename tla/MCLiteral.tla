----------------------------- MODULE MCLiteral -----------------------------
\* Lines that hold a word after the beginning of one.
EXTENDS Literal

Words == {<<"a", "a", "b", "a", "a", x, y>> : x \in {"a", "b"}, y \in {"a", "b", "c"}}
MCPatterns == {<<w>> : w \in Words}
MCTexts == {SubSeq(w, 1, k) \o w \o <<"newline", "b", "newline">> : w \in Words, k \in 0 .. 6}
MCFolded == [x \in {"a", "b", "c", newline} |-> x]
=============================================================================
