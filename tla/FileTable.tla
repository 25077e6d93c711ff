----------------------------- MODULE FileTable -----------------------------
(***************************************************************************)
(* What GPATH promises the rest of GNU GLOBAL: a table of files, each with *)
(* an identifier of its own.  The tag files store only the identifier, so  *)
(* an identifier that has named a file may later name that file or         *)
(* nothing, never another file, until the whole table is remade.           *)
(***************************************************************************)
EXTENDS Naturals

CONSTANTS Paths,   \* path names
          Fids,    \* file identifiers
          Types    \* GPATH_SOURCE, GPATH_OTHER

VARIABLES rows,    \* the set of rows [fid, path, type]
          next     \* every identifier issued so far is below it

Row == [fid: Fids, path: Paths, type: Types]

Init == rows = {} /\ next = 0

\* No identifier names two files and no file has two identifiers.
OneToOne(R) == \A r, s \in R : (r.fid = s.fid) <=> (r.path = s.path)

\* The table is thrown away, to be remade from nothing.
Remake == rows' = {} /\ next' = 0

\* A new version of the table replaces the old one: rows may go and new rows
\* may come, but a new row carries an identifier that was never issued.
Commit == /\ rows' \in SUBSET Row
          /\ OneToOne(rows')
          /\ next' \in Nat
          /\ next <= next'
          /\ \A r \in rows' : r.fid < next'
          /\ \A r \in rows' \ rows : next <= r.fid

Next == Remake \/ Commit

Spec == Init /\ [][Next]_<<rows, next>>
=============================================================================
