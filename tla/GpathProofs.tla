---------------------------- MODULE GpathProofs ----------------------------
(***************************************************************************)
(* The invariants of Gpath, and that it implements FileTable, for every    *)
(* set of paths and every bound.                                           *)
(***************************************************************************)
EXTENDS Gpath, TLAPS

\* While GPATH is open for writing, what the image will add to the file when
\* it is closed carries identifiers the file has never issued.
OpenImage ==
  /\ opened = 0 => db = EmptyDb
  /\ (opened > 0 /\ DbMode(mode) = 1) => (disk = EmptyDb /\ nextkey >= 1)
  /\ (opened > 0 /\ DbMode(mode) = 2) =>
       /\ HasFile
       /\ 1 <= disk.next /\ disk.next <= nextkey
       /\ \A i \in Fids : (db.f2p[i] # NoRec /\ i < disk.next) =>
                            db.f2p[i] = disk.f2p[i]

IInv == TypeOK /\ Consistent /\ FreshIds /\ OpenImage

\* The empty image is an image.
LEMMA EmptyDbType == EmptyDb \in Db /\ Paired(EmptyDb)
BY BoundAssumption, SMT DEF EmptyDb, Db, Paired, Fids

\* Giving a new path a free identifier keeps the two records of a file paired.
LEMMA PutPaired ==
  ASSUME NEW d \in Db, Paired(d), NEW p \in Paths, NEW i \in Fids,
         NEW t \in Types, d.p2f[p] = NoRec, d.f2p[i] = NoRec,
         NEW e, e = WithFile(d, p, i, t)
  PROVE  /\ e \in Db
         /\ Paired(e)
         /\ \A j \in Fids : j # i => e.f2p[j] = d.f2p[j]
  <1>1. /\ e.p2f = [d.p2f EXCEPT ![p] = [fid |-> i, type |-> t]]
        /\ e.f2p = [d.f2p EXCEPT ![i] = [path |-> p, type |-> t]]
        /\ e = [p2f |-> e.p2f, f2p |-> e.f2p, next |-> d.next]
    BY DEF WithFile
  <1>2. e \in Db
    BY <1>1 DEF Db, PathRec, FidRec
  <1>3. \A j \in Fids : j # i => e.f2p[j] = d.f2p[j]
    BY <1>1 DEF Db
  <1>4. \A q \in Paths : e.p2f[q] # NoRec =>
          e.f2p[e.p2f[q].fid] = [path |-> q, type |-> e.p2f[q].type]
    <2> SUFFICES ASSUME NEW q \in Paths, e.p2f[q] # NoRec
                 PROVE  e.f2p[e.p2f[q].fid] = [path |-> q, type |-> e.p2f[q].type]
      OBVIOUS
    <2>1. CASE q = p
      BY <1>1, <2>1 DEF Db
    <2>2. CASE q # p
      <3>1. e.p2f[q] = d.p2f[q] /\ d.p2f[q] \in PathRec
        BY <1>1, <2>2 DEF Db
      <3>2. d.f2p[d.p2f[q].fid] = [path |-> q, type |-> d.p2f[q].type]
        BY <3>1 DEF Paired
      <3>3. d.p2f[q].fid \in Fids /\ [path |-> q, type |-> d.p2f[q].type] # NoRec
        BY <3>1, NoRecAssumption DEF PathRec, FidRec
      <3>4. d.p2f[q].fid # i
        BY <3>2, <3>3
      <3> QED BY <3>1, <3>2, <3>3, <3>4, <1>3
    <2> QED BY <2>1, <2>2
  <1>5. \A j \in Fids : e.f2p[j] # NoRec =>
          e.p2f[e.f2p[j].path] = [fid |-> j, type |-> e.f2p[j].type]
    <2> SUFFICES ASSUME NEW j \in Fids, e.f2p[j] # NoRec
                 PROVE  e.p2f[e.f2p[j].path] = [fid |-> j, type |-> e.f2p[j].type]
      OBVIOUS
    <2>1. CASE j = i
      BY <1>1, <2>1 DEF Db
    <2>2. CASE j # i
      <3>1. e.f2p[j] = d.f2p[j] /\ d.f2p[j] \in FidRec
        BY <1>1, <2>2 DEF Db
      <3>2. d.p2f[d.f2p[j].path] = [fid |-> j, type |-> d.f2p[j].type]
        BY <3>1 DEF Paired
      <3>3. d.f2p[j].path \in Paths /\ [fid |-> j, type |-> d.f2p[j].type] # NoRec
        BY <3>1, NoRecAssumption DEF PathRec, FidRec
      <3>4. d.f2p[j].path # p
        BY <3>2, <3>3
      <3> QED BY <3>1, <3>2, <3>3, <3>4, <1>1 DEF Db
    <2> QED BY <2>1, <2>2
  <1> QED BY <1>2, <1>3, <1>4, <1>5 DEF Paired

\* Erasing the two records of a file keeps those of the other files paired.
LEMMA DeletePaired ==
  ASSUME NEW d \in Db, Paired(d), NEW p \in Paths, d.p2f[p] # NoRec,
         NEW e, e = WithoutFile(d, p)
  PROVE  /\ e \in Db
         /\ Paired(e)
         /\ \A j \in Fids : e.f2p[j] # NoRec => e.f2p[j] = d.f2p[j]
  <1> DEFINE i == d.p2f[p].fid
  <1>1. /\ i \in Fids
        /\ d.f2p[i] = [path |-> p, type |-> d.p2f[p].type]
    BY DEF Db, PathRec, Paired
  <1>2. /\ e.p2f = [d.p2f EXCEPT ![p] = NoRec]
        /\ e.f2p = [d.f2p EXCEPT ![i] = NoRec]
        /\ e = [p2f |-> e.p2f, f2p |-> e.f2p, next |-> d.next]
    BY DEF WithoutFile
  <1>3. e \in Db
    BY <1>1, <1>2 DEF Db
  <1>4. \A j \in Fids : e.f2p[j] # NoRec => j # i /\ e.f2p[j] = d.f2p[j]
    BY <1>1, <1>2 DEF Db
  <1>5. \A q \in Paths : e.p2f[q] # NoRec => q # p /\ e.p2f[q] = d.p2f[q]
    BY <1>2 DEF Db
  <1>6. \A q \in Paths : e.p2f[q] # NoRec =>
          e.f2p[e.p2f[q].fid] = [path |-> q, type |-> e.p2f[q].type]
    <2> SUFFICES ASSUME NEW q \in Paths, e.p2f[q] # NoRec
                 PROVE  e.f2p[e.p2f[q].fid] = [path |-> q, type |-> e.p2f[q].type]
      OBVIOUS
    <2>1. q # p /\ e.p2f[q] = d.p2f[q] /\ d.p2f[q] \in PathRec
      BY <1>5 DEF Db
    <2>2. d.f2p[d.p2f[q].fid] = [path |-> q, type |-> d.p2f[q].type]
      BY <2>1 DEF Paired
    <2>3. d.p2f[q].fid \in Fids /\ d.p2f[q].fid # i
      BY <2>1, <2>2, <1>1 DEF PathRec
    <2> QED BY <2>1, <2>2, <2>3, <1>2 DEF Db
  <1>7. \A j \in Fids : e.f2p[j] # NoRec =>
          e.p2f[e.f2p[j].path] = [fid |-> j, type |-> e.f2p[j].type]
    <2> SUFFICES ASSUME NEW j \in Fids, e.f2p[j] # NoRec
                 PROVE  e.p2f[e.f2p[j].path] = [fid |-> j, type |-> e.f2p[j].type]
      OBVIOUS
    <2>1. j # i /\ e.f2p[j] = d.f2p[j] /\ d.f2p[j] \in FidRec
      BY <1>4 DEF Db
    <2>2. d.p2f[d.f2p[j].path] = [fid |-> j, type |-> d.f2p[j].type]
      BY <2>1 DEF Paired
    <2>3. d.f2p[j].path \in Paths /\ d.f2p[j].path # p
      BY <2>1, <2>2 DEF FidRec
    <2> QED BY <2>1, <2>2, <2>3, <1>2 DEF Db
  <1> QED BY <1>3, <1>4, <1>6, <1>7 DEF Paired

----------------------------------------------------------------------------
\* No table, and static variables of zero, satisfy the invariant.
LEMMA InitIInv == Init => IInv
  <1> SUFFICES ASSUME Init PROVE IInv
    OBVIOUS
  <1>0. created \in BOOLEAN
    BY Zenon DEF Init
  <1>1. TypeOK
    BY <1>0, EmptyDbType, BoundAssumption DEF Init, TypeOK
  <1>2. Consistent
    BY EmptyDbType DEF Init, Consistent, HasFile
  <1>3. FreshIds
    BY DEF Init, FreshIds, HasFile, EmptyDb
  <1>4. OpenImage
    BY DEF Init, OpenImage
  <1> QED BY <1>1, <1>2, <1>3, <1>4 DEF IInv

\* A nested open leaves the tables alone; a first one makes an empty table or reads
\* the one on disk with its NEXTKEY.
LEMMA OpenIInv ==
  ASSUME IInv, NEW m \in 0 .. 2, opened < MaxOpen, gpath_open(m)
  PROVE  IInv'
  <1>1. CASE OpenAgain(m)
    BY <1>1, BoundAssumption
    DEF OpenAgain, IInv, TypeOK, Consistent, FreshIds, OpenImage, HasFile, DbMode
  <1>2. CASE OpenCreate(m)
    <2>1. TypeOK'
      BY <1>2, EmptyDbType, BoundAssumption DEF OpenCreate, IInv, TypeOK
    <2>2. Consistent'
      BY <1>2, EmptyDbType DEF OpenCreate, Consistent
    <2>3. FreshIds'
      BY <1>2 DEF OpenCreate, FreshIds, EmptyDb
    <2>4. OpenImage'
      BY <1>2 DEF OpenCreate, OpenImage, DbMode
    <2> QED BY <2>1, <2>2, <2>3, <2>4 DEF IInv
  <1>3. CASE OpenExisting(m)
    <2>1. disk \in Db /\ disk.next \in 1 .. MaxFid + 1
      BY <1>3 DEF OpenExisting, HasFile, IInv, TypeOK, Db
    <2>2. TypeOK'
      BY <1>3, <2>1, BoundAssumption DEF OpenExisting, IInv, TypeOK
    <2>3. Consistent'
      BY <1>3 DEF OpenExisting, IInv, Consistent, HasFile
    <2>4. FreshIds'
      BY <1>3 DEF OpenExisting, IInv, FreshIds, HasFile
    <2>5. OpenImage'
      BY <1>3, <2>1, BoundAssumption DEF OpenExisting, OpenImage, HasFile, DbMode
    <2> QED BY <2>2, <2>3, <2>4, <2>5 DEF IInv
  <1> QED BY <1>1, <1>2, <1>3 DEF gpath_open

\* A put gives a new path the identifier NEXTKEY and raises NEXTKEY above it.
LEMMA PutIInv ==
  ASSUME IInv, NEW p \in Paths, NEW t \in Types, gpath_put(p, t)
  PROVE  IInv'
  <1>1. CASE UNCHANGED gpathVars
    BY <1>1 DEF gpathVars, IInv, TypeOK, Consistent, FreshIds, OpenImage,
                HasFile, DbMode
  <1>2. CASE /\ ~ (mode = 1 /\ created)
             /\ gpath_path2fid(p) = NoRec
             /\ nextkey <= MaxFid
             /\ nextkey' = nextkey + 1
             /\ db' = WithFile(db, p, nextkey, t)
             /\ UNCHANGED <<opened, mode, created, disk>>
    <2>1. opened > 0 /\ mode # 0
      BY DEF gpath_put
    <2>2. /\ db \in Db /\ Paired(db) /\ nextkey \in 0 .. MaxFid + 1
          /\ mode \in 0 .. 2 /\ DbMode(mode) = mode
      BY <1>2 DEF IInv, TypeOK, Consistent, DbMode
    <2>3. nextkey \in Fids
      <3>1. CASE mode = 1
        BY <1>2, <2>1, <2>2, <3>1, BoundAssumption DEF IInv, OpenImage, Fids
      <3>2. CASE mode = 2
        <4>1. disk \in Db /\ 1 <= disk.next /\ disk.next <= nextkey
          BY <2>1, <2>2, <3>2, BoundAssumption DEF IInv, OpenImage, HasFile, TypeOK
        <4>2. disk.next \in 0 .. MaxFid + 1
          BY <4>1 DEF Db
        <4> QED BY <4>1, <4>2, <1>2, <2>2, BoundAssumption DEF Fids
      <3> QED BY <3>1, <3>2, <2>1, <2>2
    <2>4. db.f2p[nextkey] = NoRec
      BY <2>2, <2>3 DEF IInv, FreshIds, Fids
    <2>5. /\ db' \in Db /\ Paired(db')
          /\ \A j \in Fids : j # nextkey => db'.f2p[j] = db.f2p[j]
      BY <1>2, <2>2, <2>3, <2>4, PutPaired DEF gpath_path2fid
    <2>6. TypeOK'
      BY <1>2, <2>3, <2>5, BoundAssumption DEF IInv, TypeOK, Fids
    <2>7. Consistent'
      BY <1>2, <2>5 DEF IInv, Consistent, HasFile
    <2>8. FreshIds'
      BY <1>2, <2>3, <2>5, BoundAssumption DEF IInv, FreshIds, HasFile, Fids
    <2>9. OpenImage'
      <3>1. opened' > 0
        BY <1>2, <2>1
      <3>2. CASE mode = 1
        BY <1>2, <2>1, <2>2, <2>3, <3>1, <3>2 DEF IInv, OpenImage, DbMode, Fids
      <3>3. CASE mode = 2
        <4>1. /\ HasFile /\ 1 <= disk.next /\ disk.next <= nextkey
              /\ \A i \in Fids : (db.f2p[i] # NoRec /\ i < disk.next) =>
                                    db.f2p[i] = disk.f2p[i]
          BY <2>1, <2>2, <3>3 DEF IInv, OpenImage
        <4>2. disk.next \in Nat
          BY <4>1, BoundAssumption DEF IInv, TypeOK, HasFile, Db
        <4>3. \A i \in Fids : i < disk.next => db'.f2p[i] = db.f2p[i]
          BY <2>5, <4>1, <4>2, <2>3 DEF Fids
        <4> QED BY <1>2, <2>3, <3>1, <3>3, <4>1, <4>2, <4>3
                DEF OpenImage, HasFile, DbMode, Fids
      <3> QED BY <3>2, <3>3, <2>1, <2>2
    <2> QED BY <2>6, <2>7, <2>8, <2>9 DEF IInv
  <1> QED BY <1>1, <1>2 DEF gpath_put

\* A delete takes both records of a file away.
LEMMA DeleteIInv ==
  ASSUME IInv, NEW p \in Paths, gpath_delete(p)
  PROVE  IInv'
  <1>1. CASE gpath_path2fid(p) = NoRec
    BY <1>1 DEF gpath_delete, IInv, TypeOK, Consistent, FreshIds, OpenImage,
                HasFile, DbMode
  <1>2. CASE gpath_path2fid(p) # NoRec
    <2>1. db \in Db /\ Paired(db)
      BY DEF IInv, TypeOK, Consistent
    <2>2. /\ opened > 0 /\ db' = WithoutFile(db, p)
          /\ UNCHANGED <<opened, mode, created, nextkey, disk>>
      BY <1>2 DEF gpath_delete
    <2>3. /\ db' \in Db /\ Paired(db')
          /\ \A j \in Fids : db'.f2p[j] # NoRec => db'.f2p[j] = db.f2p[j]
      BY <1>2, <2>1, <2>2, DeletePaired DEF gpath_path2fid
    <2>4. TypeOK'
      BY <2>2, <2>3 DEF IInv, TypeOK
    <2>5. Consistent'
      BY <2>2, <2>3 DEF IInv, Consistent, HasFile
    <2>6. FreshIds'
      BY <2>2, <2>3 DEF IInv, FreshIds, HasFile
    <2>7. OpenImage'
      BY <2>2, <2>3 DEF IInv, OpenImage, HasFile, DbMode, TypeOK
    <2> QED BY <2>4, <2>5, <2>6, <2>7 DEF IInv
  <1> QED BY <1>1, <1>2

\* The last close writes NEXTKEY with the table; the others only count.
LEMMA CloseIInv ==
  ASSUME IInv, gpath_close
  PROVE  IInv'
  <1>1. CASE opened > 1
    <2>1. /\ opened > 0 /\ opened' > 0 /\ opened' = opened - 1
          /\ UNCHANGED <<mode, created, nextkey, db, disk>>
      BY <1>1, BoundAssumption DEF gpath_close, IInv, TypeOK
    <2>2. TypeOK'
      BY <2>1, BoundAssumption DEF IInv, TypeOK
    <2>3. Consistent' /\ FreshIds'
      BY <2>1 DEF IInv, Consistent, FreshIds, HasFile
    <2>4. OpenImage'
      BY <2>1 DEF IInv, OpenImage, HasFile, DbMode
    <2> QED BY <2>2, <2>3, <2>4 DEF IInv
  <1>2. CASE ~ (opened > 1)
    <2>1. /\ opened' = 0 /\ db' = EmptyDb /\ UNCHANGED <<mode, nextkey>>
          /\ created' = (created \/ mode = 1)
          /\ disk' = IF DbMode(mode) = 0 THEN disk ELSE WithNextkey(db, nextkey)
      BY <1>2, BoundAssumption DEF gpath_close, IInv, TypeOK
    <2>2. WithNextkey(db, nextkey) \in Db /\ Paired(WithNextkey(db, nextkey))
      BY DEF IInv, TypeOK, Consistent, WithNextkey, Db, Paired
    <2>3. TypeOK'
      BY <2>1, <2>2, EmptyDbType, BoundAssumption DEF IInv, TypeOK
    <2>4. Consistent'
      BY <2>1, <2>2, EmptyDbType DEF IInv, Consistent, HasFile
    <2>5. FreshIds'
      BY <2>1 DEF IInv, FreshIds, HasFile, WithNextkey, EmptyDb
    <2>6. OpenImage'
      BY <2>1 DEF OpenImage
    <2> QED BY <2>3, <2>4, <2>5, <2>6 DEF IInv
  <1> QED BY <1>1, <1>2

\* The end of a process leaves the file and starts from zero.
LEMMA ExitIInv ==
  ASSUME IInv, Exit
  PROVE  IInv'
  <1>0. (created \in BOOLEAN)'
    BY Zenon DEF Exit
  <1>1. TypeOK'
    BY <1>0, EmptyDbType, BoundAssumption DEF Exit, IInv, TypeOK
  <1>2. Consistent'
    BY EmptyDbType DEF Exit, IInv, Consistent, HasFile
  <1>3. FreshIds'
    BY DEF Exit, IInv, FreshIds, HasFile, EmptyDb
  <1>4. OpenImage'
    BY DEF Exit, OpenImage
  <1> QED BY <1>1, <1>2, <1>3, <1>4 DEF IInv

\* Every call of gpathop.c keeps the invariant.
LEMMA NextIInv == IInv /\ [Next]_gpathVars => IInv'
  <1> SUFFICES ASSUME IInv, [Next]_gpathVars PROVE IInv'
    OBVIOUS
  <1>1. ASSUME NEW m \in 0 .. 2, opened < MaxOpen, gpath_open(m) PROVE IInv'
    BY <1>1, OpenIInv
  <1>2. ASSUME NEW p \in Paths, NEW t \in Types, gpath_put(p, t) PROVE IInv'
    BY <1>2, PutIInv
  <1>3. ASSUME NEW p \in Paths, gpath_delete(p) PROVE IInv'
    BY <1>3, DeleteIInv
  <1>4. CASE gpath_close
    BY <1>4, CloseIInv
  <1>5. CASE Exit
    BY <1>5, ExitIInv
  <1>6. CASE UNCHANGED gpathVars
    BY <1>6 DEF gpathVars, IInv, TypeOK, Consistent, FreshIds, OpenImage,
                HasFile, DbMode
  <1> QED BY <1>1, <1>2, <1>3, <1>4, <1>5, <1>6 DEF Next

\* The invariant holds in every state of GPATH.
LEMMA SpecIInv == Spec => []IInv
BY InitIInv, NextIInv, PTL DEF Spec

\* Every state of GPATH has the type the code gives it.
THEOREM TypeCorrect == Spec => []TypeOK
BY SpecIInv, PTL DEF IInv

\* gpath_put writes two records and gpath_delete erases two, one call after
\* the other: whatever is called in whatever order, they never disagree.
THEOREM ConsistentCorrect == Spec => []Consistent
BY SpecIInv, PTL DEF IInv

\* NEXTKEY always covers the identifiers in use, in memory and in the file.
THEOREM FreshIdsCorrect == Spec => []FreshIds
BY SpecIInv, PTL DEF IInv

----------------------------------------------------------------------------
\* The rows of an image, found by their identifier.
LEMMA RowsOf ==
  ASSUME NEW d \in Db
  PROVE  /\ Rows(d) \in SUBSET Refined!Row
         /\ \A r \in Rows(d) : /\ r.fid \in Fids /\ d.f2p[r.fid] # NoRec
                               /\ r.path = d.f2p[r.fid].path
                               /\ r.type = d.f2p[r.fid].type
BY DEF Rows, Refined!Row, Db, FidRec

\* Paired records make a table where identifiers and paths are one to one.
LEMMA RowsOneToOne ==
  ASSUME NEW d \in Db, Paired(d)
  PROVE  Refined!OneToOne(Rows(d))
  <1> SUFFICES ASSUME NEW r \in Rows(d), NEW s \in Rows(d)
               PROVE  (r.fid = s.fid) <=> (r.path = s.path)
    BY DEF Refined!OneToOne
  <1>1. r.fid = s.fid => r.path = s.path
    BY RowsOf
  <1>2. ASSUME r.path = s.path PROVE r.fid = s.fid
    <2>1. /\ d.p2f[r.path] = [fid |-> r.fid, type |-> r.type]
          /\ d.p2f[s.path] = [fid |-> s.fid, type |-> s.type]
      BY RowsOf DEF Paired
    <2> QED BY <2>1, <1>2
  <1> QED BY <1>1, <1>2

\* Writing the image is a commit: the file keeps or loses the rows it had, and
\* the rows it gains carry identifiers it had not issued.
LEMMA CloseCommits ==
  ASSUME IInv, gpath_close
  PROVE  Refined!Commit \/ UNCHANGED <<fileRows, fileNext>>
  <1>1. CASE opened > 1 \/ DbMode(mode) = 0
    BY <1>1 DEF gpath_close, fileRows, fileNext, HasFile
  <1>2. CASE ~ (opened > 1 \/ DbMode(mode) = 0)
    <2>1. opened > 0 /\ disk' = WithNextkey(db, nextkey)
      BY <1>2 DEF gpath_close
    <2>2. /\ WithNextkey(db, nextkey) \in Db /\ Paired(WithNextkey(db, nextkey))
          /\ db \in Db /\ nextkey \in Nat
      BY BoundAssumption DEF IInv, TypeOK, Consistent, WithNextkey, Db, Paired
    <2>3. /\ fileRows' = Rows(disk') /\ fileNext' = nextkey
          /\ disk' \in Db /\ Paired(disk')
      BY <2>1, <2>2, NoFileAssumption DEF fileRows, fileNext, HasFile, WithNextkey
    <2>4. \A r \in fileRows' : /\ r.fid \in Fids /\ db.f2p[r.fid] # NoRec
                               /\ r.path = db.f2p[r.fid].path
                               /\ r.type = db.f2p[r.fid].type
      BY <2>1, <2>3, RowsOf DEF WithNextkey
    <2>5. /\ fileRows' \in SUBSET Refined!Row
          /\ Refined!OneToOne(fileRows')
      BY <2>3, RowsOf, RowsOneToOne
    <2>6. \A r \in fileRows' : r.fid < fileNext'
      BY <2>3, <2>4 DEF IInv, FreshIds
    <2>7. fileNext <= fileNext' /\ \A r \in fileRows' \ fileRows : fileNext <= r.fid
      <3>1. CASE DbMode(mode) = 1
        <4>1. fileNext = 0
          BY <2>1, <3>1, EmptyDbType, NoFileAssumption
             DEF IInv, OpenImage, fileNext, HasFile, EmptyDb
        <4> QED BY <4>1, <2>2, <2>3, <2>4 DEF Fids
      <3>2. CASE DbMode(mode) = 2
        <4>1. /\ HasFile /\ disk \in Db /\ disk.next <= nextkey
              /\ \A i \in Fids : (db.f2p[i] # NoRec /\ i < disk.next) =>
                                    db.f2p[i] = disk.f2p[i]
          BY <2>1, <3>2 DEF IInv, OpenImage, TypeOK, HasFile
        <4>2. fileNext = disk.next /\ fileRows = Rows(disk) /\ disk.next \in Nat
          BY <4>1, BoundAssumption DEF fileNext, fileRows, Db
        <4>3. ASSUME NEW r \in fileRows', r.fid < disk.next PROVE r \in fileRows
          <5>1. /\ r.fid \in Fids /\ disk.f2p[r.fid] # NoRec
                /\ r = [fid |-> r.fid, path |-> disk.f2p[r.fid].path,
                        type |-> disk.f2p[r.fid].type]
            BY <4>1, <4>3, <2>4, <2>5 DEF Refined!Row
          <5> QED BY <5>1, <4>2 DEF Rows
        <4> QED BY <4>1, <4>2, <4>3, <2>3, <2>4 DEF Fids
      <3>3. DbMode(mode) \in {1, 2}
        BY <1>2 DEF IInv, TypeOK, DbMode
      <3> QED BY <3>1, <3>2, <3>3
    <2> QED BY <2>2, <2>3, <2>5, <2>6, <2>7 DEF Refined!Commit
  <1> QED BY <1>1, <1>2

\* The file changes only as FileTable allows: it is made anew, or committed whole.
LEMMA NextCommits ==
  ASSUME IInv, [Next]_gpathVars
  PROVE  [Refined!Next]_<<fileRows, fileNext>>
  <1>1. ASSUME NEW m \in 0 .. 2, gpath_open(m)
        PROVE  Refined!Remake \/ UNCHANGED <<fileRows, fileNext>>
    <2>1. CASE OpenCreate(m)
      <3>1. disk' = EmptyDb /\ EmptyDb # NoFile
        BY <2>1, EmptyDbType, NoFileAssumption DEF OpenCreate
      <3>2. Rows(EmptyDb) = {} /\ EmptyDb.next = 0
        BY DEF Rows, EmptyDb
      <3> QED BY <3>1, <3>2 DEF Refined!Remake, fileRows, fileNext, HasFile
    <2>2. CASE OpenAgain(m) \/ OpenExisting(m)
      BY <2>2 DEF OpenAgain, OpenExisting, fileRows, fileNext, HasFile
    <2> QED BY <1>1, <2>1, <2>2 DEF gpath_open
  <1>2. ASSUME UNCHANGED disk
        PROVE  UNCHANGED <<fileRows, fileNext>>
    BY <1>2 DEF fileRows, fileNext, HasFile
  <1>3. ASSUME NEW p \in Paths, NEW t \in Types, gpath_put(p, t)
        PROVE  UNCHANGED disk
    BY <1>3 DEF gpath_put, gpathVars
  <1>4. ASSUME NEW p \in Paths, gpath_delete(p) PROVE UNCHANGED disk
    BY <1>4 DEF gpath_delete
  <1>5. CASE gpath_close
    BY <1>5, CloseCommits DEF Refined!Next
  <1>6. CASE Exit \/ UNCHANGED gpathVars
    BY <1>2, <1>6 DEF Exit, gpathVars
  <1> QED BY <1>1, <1>2, <1>3, <1>4, <1>5, <1>6 DEF Next, Refined!Next

\* The file GPATH, across any number of processes that create, modify, read
\* or abandon it, behaves as the table FileTable: an identifier never comes
\* back for another file.
THEOREM GpathImplementsFileTable == Spec => IsFileTable
  <1>1. Init => Refined!Init
    BY DEF Init, Refined!Init, fileRows, fileNext, HasFile
  <1>2. IInv /\ [Next]_gpathVars => [Refined!Next]_<<fileRows, fileNext>>
    BY NextCommits
  <1> QED BY <1>1, <1>2, SpecIInv, PTL DEF Spec, IsFileTable, Refined!Spec
=============================================================================
