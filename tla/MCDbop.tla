------------------------------- MODULE MCDbop -------------------------------
\* The constants of the runs of Dbop.  Bytes: 0 the NUL, 1 the blank, others
\* letters; data: 0 the meta record, 1 and 2 files.
EXTENDS Dbop

MCMetaKey == <<1, 0>>

\* One name begins with another; records of file 2 are big.
MCKeys == {<<2, 0>>, <<2, 3, 0>>, <<3, 0>>}
MCHeads == {<<2>>, <<2, 3>>, <<3>>}
MCDatLen == (0 :> 1) @@ (1 :> 1) @@ (2 :> 20)
MCTags == (MCKeys \X {1, 2}) \ {<< <<3, 0>>, 1>>}

\* A symbol of two files, and two symbols after it that one of them defines; four
\* records to a page.
SharedKeys == {<<2, 0>>, <<3, 0>>, <<4, 0>>}
SharedTags == (SharedKeys \X {2}) \cup {<< <<2, 0>>, 1>>}
SharedDatLen == (0 :> 1) @@ (1 :> 1) @@ (2 :> 1)
=============================================================================
