------------------------------- MODULE Gpath -------------------------------
(***************************************************************************)
(* GPATH, the file table of the tag database (libutil/gpathop.c).          *)
(*                                                                         *)
(* A process keeps one copy of GPATH, in static variables, however many of *)
(* its parts opened it: gpath_open counts, the last gpath_close writes.    *)
(* The B-tree beneath (opened by dbop_open) is a memory image that reaches *)
(* the file only when it is closed; a process that ends before that leaves *)
(* the file as it was.                                                     *)
(***************************************************************************)
EXTENDS Naturals

CONSTANTS Paths,    \* path names
          MaxFid,   \* bound on the identifiers a run may issue
          MaxOpen,  \* bound on the nesting of gpath_open
          NoRec,    \* dbop_get finds no record
          NoFile    \* there is no GPATH file

Fids == 1 .. MaxFid
Types == {"source", "other"}

PathRec == [fid: Fids, type: Types]       \* the record of a path
FidRec  == [path: Paths, type: Types]     \* the record of an identifier

ASSUME BoundAssumption == MaxFid \in Nat /\ MaxOpen \in Nat
ASSUME NoRecAssumption == NoRec \notin PathRec \cup FidRec

VARIABLES opened,   \* how many gpath_open calls are not yet closed
          mode,     \* 0 read, 1 create, 2 modify
          created,  \* this process has already made GPATH
          nextkey,  \* the next identifier to issue
          db,       \* the B-tree image of the open GPATH
          disk      \* the file GPATH

gpathVars == <<opened, mode, created, nextkey, db, disk>>

(***************************************************************************)
(* A B-tree image: two records per file and the NEXTKEY record (0: there   *)
(* is none, as in a file that was created and never written).              *)
(***************************************************************************)
Db == [p2f: [Paths -> PathRec \cup {NoRec}],
       f2p: [Fids -> FidRec \cup {NoRec}],
       next: 0 .. MaxFid + 1]

EmptyDb == [p2f |-> [p \in Paths |-> NoRec],
            f2p |-> [i \in Fids |-> NoRec],
            next |-> 0]

ASSUME NoFileAssumption == NoFile \notin Db

HasFile == disk # NoFile

\* An image with the two records of one more file, and with one file less.
WithFile(d, p, i, type) ==
  [p2f  |-> [d.p2f EXCEPT ![p] = [fid |-> i, type |-> type]],
   f2p  |-> [d.f2p EXCEPT ![i] = [path |-> p, type |-> type]],
   next |-> d.next]

WithoutFile(d, p) ==
  [p2f  |-> [d.p2f EXCEPT ![p] = NoRec],
   f2p  |-> [d.f2p EXCEPT ![d.p2f[p].fid] = NoRec],
   next |-> d.next]

\* Mutant: records the last identifier issued, not the next.
MUT_WithNextkey_Last(d, n) == [p2f |-> d.p2f, f2p |-> d.f2p, next |-> n - 1]

WithNextkey(d, n) == [p2f |-> d.p2f, f2p |-> d.f2p, next |-> n]

----------------------------------------------------------------------------
\* dbop_get on the open image.
gpath_path2fid(p) == db.p2f[p]
gpath_fid2path(i) == db.f2p[i]

\* The mode GPATH is really opened in: a process makes the file only once.
DbMode(m) == IF m = 1 /\ created THEN 0 ELSE m

\* gpath_open either counts one more user of the open table ...
OpenAgain(m) == /\ opened > 0
                /\ m = mode
                /\ opened' = opened + 1
                /\ UNCHANGED <<mode, created, nextkey, db, disk>>

\* ... or makes a new empty file (dbop_open unlinks the old one) ...
OpenCreate(m) == /\ opened = 0
                 /\ DbMode(m) = 1
                 /\ db' = EmptyDb
                 /\ disk' = EmptyDb
                 /\ nextkey' = 1
                 /\ mode' = m
                 /\ opened' = 1
                 /\ UNCHANGED created

\* ... or loads the file, which must hold a NEXTKEY record.  Otherwise the caller
\* dies, and Exit is all that happens.
OpenExisting(m) == /\ opened = 0
                   /\ DbMode(m) # 1
                   /\ HasFile
                   /\ disk.next # 0
                   /\ db' = disk
                   /\ nextkey' = disk.next
                   /\ mode' = m
                   /\ opened' = 1
                   /\ UNCHANGED <<created, disk>>

gpath_open(m) == OpenAgain(m) \/ OpenCreate(m) \/ OpenExisting(m)

\* Mutant: gives the new file the lowest free identifier instead of NEXTKEY.
FreeId == CHOOSE i \in Fids : /\ db.f2p[i] = NoRec
                              /\ \A j \in Fids : j < i => db.f2p[j] # NoRec
MUT_gpath_put_FillHole(p, type) ==
  /\ opened > 0
  /\ mode # 0
  /\ ~ (mode = 1 /\ created)
  /\ gpath_path2fid(p) = NoRec
  /\ nextkey <= MaxFid
  /\ nextkey' = nextkey + 1
  /\ db' = WithFile(db, p, FreeId, type)
  /\ UNCHANGED <<opened, mode, created, disk>>

\* A path already in the table keeps its record, its type included.
gpath_put(p, type) ==
  /\ opened > 0
  /\ mode # 0
  /\ \/ /\ (mode = 1 /\ created) \/ gpath_path2fid(p) # NoRec
        /\ UNCHANGED gpathVars
     \/ /\ ~ (mode = 1 /\ created)
        /\ gpath_path2fid(p) = NoRec
        /\ nextkey <= MaxFid
        /\ nextkey' = nextkey + 1
        /\ db' = WithFile(db, p, nextkey, type)
        /\ UNCHANGED <<opened, mode, created, disk>>

gpath_delete(p) ==
  /\ opened > 0
  /\ mode = 2
  /\ IF gpath_path2fid(p) = NoRec
     THEN UNCHANGED db
     ELSE db' = WithoutFile(db, p)
  /\ UNCHANGED <<opened, mode, created, nextkey, disk>>

\* Only the last close does anything: it records NEXTKEY and writes the file.
gpath_close ==
  /\ opened > 0
  /\ opened' = opened - 1
  /\ IF opened > 1
     THEN UNCHANGED <<mode, created, nextkey, db, disk>>
     ELSE /\ db' = EmptyDb
          /\ disk' = IF DbMode(mode) = 0 THEN disk
                     ELSE WithNextkey(db, nextkey)
          /\ created' = (created \/ mode = 1)
          /\ UNCHANGED <<mode, nextkey>>

\* The process ends, at any point and for any reason; a new one starts.
Exit == /\ opened' = 0
        /\ mode' = 0
        /\ created' = FALSE
        /\ nextkey' = 0
        /\ db' = EmptyDb
        /\ UNCHANGED disk

----------------------------------------------------------------------------
Init == /\ opened = 0 /\ mode = 0 /\ created = FALSE /\ nextkey = 0
        /\ db = EmptyDb
        /\ disk = NoFile

\* Any caller that respects the assertions of the module.
Next == \/ \E m \in 0 .. 2 : opened < MaxOpen /\ gpath_open(m)
        \/ \E p \in Paths, type \in Types : gpath_put(p, type)
        \/ \E p \in Paths : gpath_delete(p)
        \/ gpath_close
        \/ Exit

Spec == Init /\ [][Next]_gpathVars
----------------------------------------------------------------------------
TypeOK == /\ opened \in 0 .. MaxOpen
          /\ mode \in 0 .. 2
          /\ created \in BOOLEAN
          /\ nextkey \in 0 .. MaxFid + 1
          /\ db \in Db
          /\ disk \in Db \cup {NoFile}

\* The two records of a file agree: path -> id and id -> path are inverse.
Paired(d) ==
  /\ \A p \in Paths : d.p2f[p] # NoRec =>
        d.f2p[d.p2f[p].fid] = [path |-> p, type |-> d.p2f[p].type]
  /\ \A i \in Fids : d.f2p[i] # NoRec =>
        d.p2f[d.f2p[i].path] = [fid |-> i, type |-> d.f2p[i].type]

\* The two records gpath_put writes and gpath_delete erases one by one always
\* agree, in the open image and in the file.
Consistent == Paired(db) /\ (HasFile => Paired(disk))

\* The identifier the next gpath_put will issue is free, in the image it goes
\* to and in the file a new process will load: NEXTKEY covers the file.
FreshIds ==
  /\ HasFile => \A i \in Fids : disk.f2p[i] # NoRec => i < disk.next
  /\ \A i \in Fids : db.f2p[i] # NoRec => i < nextkey

\* The rows of an image, and what the file holds of them.
Rows(d) == {[fid |-> i, path |-> d.f2p[i].path, type |-> d.f2p[i].type]
              : i \in {j \in Fids : d.f2p[j] # NoRec}}
fileRows == IF HasFile THEN Rows(disk) ELSE {}
fileNext == IF HasFile THEN disk.next ELSE 0

Refined == INSTANCE FileTable WITH rows <- fileRows, next <- fileNext

\* The file GPATH, as successive processes leave it, is the table FileTable
\* promises: an identifier whose file was deleted stays a hole.
IsFileTable == Refined!Spec
=============================================================================
