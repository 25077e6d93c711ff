------------------------------- MODULE MCFind -------------------------------
(* A root with a subdirectory, a directory outside of the tree that links    *)
(* lead to, and the directory above the root.                                *)
EXTENDS Find

CONSTANTS R, D, E, U, a, b, c

MCDirs == {R, D, E, U}
MCAbove == {U}
MCNames == {a, b, c}

Dir(x, y, z) == [n \in MCNames |-> IF n = a THEN x ELSE IF n = b THEN y ELSE z]

\* Two directories that link to each other, or to one above the root.
MCTrees ==
  {[d \in MCDirs |->
      IF d = R THEN Dir(D, File, File)
      ELSE IF d = D THEN Dir(File, E, E)
      ELSE IF d = E THEN Dir(File, back, Nothing)
      ELSE Dir(R, File, Nothing)] : back \in {D, U}}

MCEdited == {R, D, E} \X {a, b}

\* c is skipped wherever it is, as a file and as a directory; a/b only where it
\* is a file, and b/b only where it is a directory.
MCSkipPaths == {<<a, b>>}
MCSkipTrees == {<<b, b>>}

MCLists == {<<NoPath, <<b>>, <<a, a>>, <<c>>, <<a>>>>}
=============================================================================
