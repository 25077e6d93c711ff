--------------------------- MODULE MCCompactTags ---------------------------
\* The source files are there, whole or cut short, or some are gone.
EXTENDS CompactTags

WholeOrCut == {3, 7}
WholeOrGone == {-1, 7}
=============================================================================
