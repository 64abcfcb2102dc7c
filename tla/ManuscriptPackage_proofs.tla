----------------------- MODULE ManuscriptPackage_proofs -----------------------
(***************************************************************************)
(* Theorems about ManuscriptPackage, for every value of its constants: any  *)
(* tables and keys, rows, files and pulls.                                  *)
(***************************************************************************)
EXTENDS ManuscriptPackage, TLAPS

----------------------------------------------------------------------------
(* Type correctness.                                                       *)

LEMMA ReferableTypes ==
    ASSUME NEW u, NEW db, NEW refs \in Referable(u, db)
    PROVE  /\ refs \in SUBSET Uuids /\ refs \subseteq Here(db)
           /\ \A v \in refs : <<TableOf[u], TableOf[v]>> \in MayRef
BY DEF Referable, Here

LEMMA FileTypes == ASSUME NEW u PROVE FilesFor(u) \subseteq Names \cup {None}
BY DEF FilesFor

LEMMA DeletedTypes ==
    ASSUME NEW db \in [Uuids -> Row \cup {None}], NEW u
    PROVE  /\ Deleted(db, u) \in [Uuids -> Row \cup {None}]
           /\ \A v \in Uuids : Deleted(db, u)[v] # None =>
                 /\ v # u /\ db[v] # None
                 /\ Deleted(db, u)[v].refs = db[v].refs \ {u}
                 /\ Deleted(db, u)[v].file = db[v].file
           /\ \A v \in Uuids : v # u /\ db[v] # None => Deleted(db, u)[v] # None
<1>1. ASSUME NEW v \in Uuids, db[v] # None, v # u
      PROVE  /\ Deleted(db, u)[v] = [db[v] EXCEPT !.refs = @ \ {u}]
             /\ Deleted(db, u)[v] \in Row
             /\ Deleted(db, u)[v].refs = db[v].refs \ {u}
             /\ Deleted(db, u)[v].file = db[v].file
  BY <1>1 DEF Deleted, Row
<1>2. ASSUME NEW v \in Uuids, db[v] = None \/ v = u
      PROVE  Deleted(db, u)[v] = None
  BY <1>2 DEF Deleted
<1>3. Deleted(db, u) \in [Uuids -> Row \cup {None}]
  <2>1. Deleted(db, u) = [v \in Uuids |-> Deleted(db, u)[v]]
    BY DEF Deleted
  <2>2. \A v \in Uuids : Deleted(db, u)[v] \in Row \cup {None}
    BY <1>1, <1>2
  <2>3. QED
    BY <2>1, <2>2
<1>4. QED
  BY <1>1, <1>2, <1>3, NoneAssumption

LEMMA InitTypes == Init => TypeOK
BY PackageAssumption DEF Init, TypeOK, Nothing, Here

LEMMA EditorTypes == TypeOK /\ Editors => TypeOK'
<1>1. SUFFICES ASSUME TypeOK, NEW u \in Uuids,
                      SaveAtSource(u) \/ DeleteAtSource(u) \/ SaveHere(u) \/ DeleteHere(u)
               PROVE  TypeOK'
  BY DEF Editors
<1>0. ASSUME Edit PROVE edits' \in 0..MaxEdits
  BY <1>0, <1>1, PackageAssumption DEF Edit, TypeOK
<1>2. CASE SaveAtSource(u)
  <2>1. src' \in [Uuids -> Row \cup {None}]
    BY <1>1, <1>2, ReferableTypes, FileTypes DEF SaveAtSource, TypeOK, Row
  <2>2. QED
    BY <1>0, <1>1, <1>2, <2>1 DEF SaveAtSource, EditSource, Edit, TypeOK, pullVars, Here
<1>3. CASE DeleteAtSource(u)
  <2>1. src' \in [Uuids -> Row \cup {None}]
    BY <1>1, <1>3, DeletedTypes DEF DeleteAtSource, TypeOK
  <2>2. QED
    BY <1>0, <1>1, <1>3, <2>1 DEF DeleteAtSource, EditSource, Edit, TypeOK, pullVars, Here
<1>4. CASE SaveHere(u)
  <2>1. PICK refs \in Referable(u, dst), file \in FilesFor(u) \cup {dst[u].file} :
          /\ dst' = [dst EXCEPT ![u] = [refs |-> refs, file |-> file]]
          /\ IF file \in {None, dst[u].file} THEN UNCHANGED media
             ELSE media[file] = None /\ media' = [media EXCEPT ![file] = "ours"]
          /\ imported' = IF file = dst[u].file THEN imported ELSE imported \ {u}
    BY <1>4 DEF SaveHere
  <2>2. file \in Names \cup {None}
    BY <1>1, <1>4, <2>1, FileTypes DEF SaveHere, TypeOK, Row
  <2>3. dst' \in [Uuids -> Row \cup {None}]
    BY <1>1, <2>1, <2>2, ReferableTypes DEF TypeOK, Row
  <2>4. media' \in [Names -> {"ours", "theirs", None}] /\ imported' \in SUBSET Uuids
    BY <1>1, <2>1, <2>2 DEF TypeOK
  <2>5. QED
    BY <1>0, <1>1, <1>4, <2>3, <2>4 DEF SaveHere, Edit, Cross, Passed, TypeOK, pullVars, Here
<1>5. CASE DeleteHere(u)
  <2>1. dst' \in [Uuids -> Row \cup {None}]
    BY <1>1, <1>5, DeletedTypes DEF DeleteHere, TypeOK
  <2>2. QED
    BY <1>0, <1>1, <1>5, <2>1 DEF DeleteHere, Edit, Cross, Passed, TypeOK, pullVars, Here
<1>6. QED
  BY <1>1, <1>2, <1>3, <1>4, <1>5

LEMMA FilesTypes ==
    ASSUME TypeOK, NEW rows \in SUBSET Here(src)
    PROVE  FilesOf(rows) \in SUBSET Names
BY DEF TypeOK, FilesOf, Here, Row

LEMMA EndTypes ==
    ASSUME TypeOK, NEW p \in Pulls, NEW how \in {"done", "refused", "failed"},
           End(p, how), dst' \in [Uuids -> Row \cup {None}], imported' \in SUBSET Uuids,
           crossed' \in [Pulls -> SUBSET Uuids]
    PROVE  TypeOK'
BY DEF End, TypeOK, Nothing, Here

LEMMA PullTypes ==
    ASSUME TypeOK, NEW p \in Pulls, Pull(p)
    PROVE  TypeOK'
<1>1. CASE StartPull(p)
  <2>1. FilesOf({Manuscript}) \in SUBSET Names
    BY <1>1, FilesTypes, PackageAssumption DEF StartPull, Here
  <2>2. [Nothing EXCEPT ![Manuscript] = src[Manuscript]] \in [Uuids -> Row \cup {None}]
    BY PackageAssumption DEF TypeOK, Nothing
  <2>3. QED
    BY <1>1, <2>1, <2>2 DEF StartPull, TypeOK, siteVars, Here
<1>2. CASE StartInVain(p)
  BY <1>2 DEF StartInVain, TypeOK, siteVars, Here
<1>3. CASE ReadTable(p)
  <2>1. PICK t \in left[p] : Include(p, t)
    BY <1>3 DEF ReadTable
  <2>2. FilesOf(Found(p, t)) \in SUBSET Names
    BY FilesTypes DEF Found
  <2>3. [u \in Uuids |-> IF u \in Found(p, t) THEN src[u] ELSE got[p][u]]
          \in [Uuids -> Row \cup {None}]
    BY DEF TypeOK
  <2>4. got' \in [Pulls -> [Uuids -> Row \cup {None}]]
    BY <2>1, <2>3 DEF Include, TypeOK
  <2>5. ASSUME NEW q \in Pulls PROVE todo'[q] \cup written'[q] \subseteq Here(got'[q])
    <3>1. todo' = todo /\ written' = written
      BY <2>1 DEF Include
    <3>2. CASE q = p
      BY <1>3, <3>1, <3>2 DEF ReadTable, TypeOK
    <3>3. CASE q # p
      BY <2>1, <3>1, <3>3 DEF Include, TypeOK, Here
    <3>4. QED
      BY <3>2, <3>3
  <2>6. files' \in [Pulls -> SUBSET Names] /\ left' \in [Pulls -> SUBSET Tables]
    BY <2>1, <2>2 DEF Include, TypeOK
  <2>7. \A q \in Pulls : phase'[q] # "export" => left'[q] = {}
    BY <2>1 DEF Include, TypeOK
  <2>8. UNCHANGED <<src, dst, unborn, media, phase, todo, written, outcome, edits,
                    moved, crossed, imported>>
    BY <2>1 DEF Include, siteVars
  <2>9. /\ todo' \in [Pulls -> SUBSET Uuids] /\ written' \in [Pulls -> SUBSET Uuids]
        /\ \A q \in Pulls : phase'[q] # "import" => todo'[q] = {} /\ written'[q] = {}
    BY <2>8 DEF TypeOK
  <2>10. QED
    BY <2>4, <2>5, <2>6, <2>7, <2>8, <2>9 DEF TypeOK, Here
<1>4. CASE EndExport(p)
  BY <1>4 DEF EndExport, TypeOK, siteVars, Here
<1>5. CASE ImportRow(p)
  <2>1. PICK u \in Due(p) :
          /\ \/ UNCHANGED written
             \/ written' = [written EXCEPT ![p] = @ \cup {u}]
          /\ todo' = [todo EXCEPT ![p] = @ \ {u}]
    BY <1>5 DEF ImportRow
  <2>2. u \in todo[p] /\ u \in Here(got[p]) /\ phase[p] = "import" /\ u \in Uuids
    BY <1>5, <2>1 DEF ImportRow, Due, TypeOK
  <2>3. todo' \in [Pulls -> SUBSET Uuids] /\ written' \in [Pulls -> SUBSET Uuids]
    BY <2>1, <2>2 DEF TypeOK
  <2>4. UNCHANGED <<siteVars, phase, left, got, files, outcome, edits, moved, crossed,
                    imported>>
    BY <1>5 DEF ImportRow
  <2>5. ASSUME NEW q \in Pulls
        PROVE  /\ phase[q] # "import" => todo'[q] = {} /\ written'[q] = {}
               /\ todo'[q] \cup written'[q] \subseteq Here(got[q])
    <3>1. CASE q = p
      BY <2>1, <2>2, <3>1 DEF TypeOK
    <3>2. CASE q # p
      BY <2>1, <3>2 DEF TypeOK
    <3>3. QED
      BY <3>1, <3>2
  <2>6. QED
    BY <2>3, <2>4, <2>5 DEF TypeOK, siteVars, Here
<1>6. CASE Refuse(p)
  BY <1>6, EndTypes DEF Refuse, TypeOK
<1>7. CASE WriteFile(p)
  BY <1>7 DEF WriteFile, TypeOK, Here
<1>8. CASE Commit(p)
  <2>1. Merged(p) \in [Uuids -> Row \cup {None}]
    BY DEF Merged, TypeOK
  <2>2. imported' \in SUBSET Uuids
    BY <1>8 DEF Commit, Arrived, TypeOK, Here
  <2>3. crossed' \in [Pulls -> SUBSET Uuids]
    BY <1>8 DEF Commit, Cross, Passed, TypeOK, Here
  <2>4. QED
    BY <1>8, <2>1, <2>2, <2>3, EndTypes DEF Commit
<1>9. CASE Fail(p)
  BY <1>9, EndTypes DEF Fail, TypeOK
<1>10. QED
  BY <1>1, <1>2, <1>3, <1>4, <1>5, <1>6, <1>7, <1>8, <1>9 DEF Pull

LEMMA NextTypes == TypeOK /\ [Next]_vars => TypeOK'
<1>1. ASSUME TypeOK, UNCHANGED vars PROVE TypeOK'
  BY <1>1 DEF vars, siteVars, pullVars, TypeOK
<1>2. QED
  BY <1>1, EditorTypes, PullTypes DEF Next

\* Nothing an editor or a pull does leaves the state outside its types, and
\* nobody reads tables outside an export.
THEOREM TypeCorrect == Spec => []TypeOK
<1>1. QED
  BY InitTypes, NextTypes, PTL DEF Spec

----------------------------------------------------------------------------
(* Files.                                                                  *)

\* The file of a row is there, and the source's.
HasFile(r, rest, m) == r.file \notin {None} \cup Lost \cup rest => m[r.file] = "theirs"

\* Inductive with the types: what has been imported is there, and what is being
\* pulled has its files, or they are still to be written.
FileInv ==
    /\ \A u \in imported : dst[u] # None /\ HasFile(dst[u], {}, media)
    /\ \A p \in Pulls : \A u \in Here(got[p]) : HasFile(got[p][u], files[p], media)

LEMMA InitFiles == Init => FileInv
BY DEF Init, FileInv, Here, Nothing

\* A file of the source stays.
LEMMA TheirsStay ==
    ASSUME TypeOK, [Next]_vars, NEW n \in Names, media[n] = "theirs"
    PROVE  media'[n] = "theirs"
<1>1. ASSUME NEW u \in Uuids, SaveHere(u) PROVE media'[n] = "theirs"
  BY <1>1, NoneAssumption DEF SaveHere, TypeOK
<1>2. ASSUME NEW p \in Pulls, WriteFile(p) PROVE media'[n] = "theirs"
  BY <1>2 DEF WriteFile, TypeOK
<1>3. CASE UNCHANGED media
  BY <1>3
<1>4. QED
  BY <1>1, <1>2, <1>3
     DEF Next, Editors, Pull, SaveAtSource, DeleteAtSource, EditSource, DeleteHere,
         StartPull, StartInVain, ReadTable, Include, EndExport, ImportRow, Refuse,
         Commit, Fail, End, siteVars, vars

LEMMA HasFileStays ==
    ASSUME TypeOK, [Next]_vars, NEW r \in Row, NEW rest, HasFile(r, rest, media)
    PROVE  HasFile(r, rest, media')
<1>1. r.file \in Names \cup {None}
  BY DEF Row
<1>2. QED
  BY <1>1, TheirsStay DEF HasFile

\* Steps that change neither the destination nor what is pulled
LEMMA FilesElsewhere ==
    ASSUME TypeOK, FileInv, [Next]_vars, UNCHANGED <<dst, imported, got, files>>
    PROVE  FileInv'
<1>1. ASSUME NEW u \in imported PROVE dst[u] # None /\ HasFile(dst[u], {}, media')
  BY <1>1, HasFileStays DEF FileInv, TypeOK
<1>2. ASSUME NEW p \in Pulls, NEW u \in Here(got[p]) PROVE HasFile(got[p][u], files[p], media')
  BY <1>2, HasFileStays DEF FileInv, TypeOK, Here
<1>3. QED
  BY <1>1, <1>2 DEF FileInv, HasFile, Here

LEMMA SaveHereFiles ==
    ASSUME TypeOK, FileInv, NEW u \in Uuids, SaveHere(u)
    PROVE  FileInv'
<1>0. [Next]_vars
  BY DEF Next, Editors
<1>1. PICK refs \in Referable(u, dst), file \in FilesFor(u) \cup {dst[u].file} :
        /\ dst' = [dst EXCEPT ![u] = [refs |-> refs, file |-> file]]
        /\ imported' = IF file = dst[u].file THEN imported ELSE imported \ {u}
  BY DEF SaveHere
<1>2. ASSUME NEW v \in imported' PROVE dst'[v] # None /\ HasFile(dst'[v], {}, media')
  <2>1. v \in imported /\ dst[v] \in Row /\ dst[v] # None
    BY <1>1, <1>2 DEF FileInv, TypeOK
  <2>2. dst'[v] # None /\ dst'[v].file = dst[v].file
    <3>1. CASE v # u
      BY <1>1, <2>1, <3>1 DEF TypeOK
    <3>2. CASE v = u
      <4>1. file = dst[u].file /\ file \in Names \cup {None}
        BY <1>1, <1>2, <2>1, <3>2 DEF Row
      <4>2. dst'[u] = [refs |-> refs, file |-> file]
        BY <1>1 DEF TypeOK
      <4>3. dst'[u] \in Row
        BY <4>1, <4>2, ReferableTypes DEF Row
      <4>4. QED
        BY <3>2, <4>1, <4>2, <4>3, NoneAssumption
    <3>3. QED
      BY <3>1, <3>2
  <2>3. HasFile(dst[v], {}, media')
    BY <1>0, <2>1, HasFileStays DEF FileInv
  <2>4. QED
    BY <2>2, <2>3 DEF HasFile
<1>3. ASSUME NEW p \in Pulls, NEW v \in Here(got[p]) PROVE HasFile(got[p][v], files[p], media')
  BY <1>0, <1>3, HasFileStays DEF FileInv, TypeOK, Here
<1>4. got' = got /\ files' = files
  BY DEF SaveHere, Edit, pullVars
<1>5. QED
  BY <1>2, <1>3, <1>4 DEF FileInv, HasFile, Here

LEMMA DeleteHereFiles ==
    ASSUME TypeOK, FileInv, NEW u \in Uuids, DeleteHere(u)
    PROVE  FileInv'
<1>1. UNCHANGED <<media, got, files>>
  BY DEF DeleteHere, Edit, pullVars
<1>2. ASSUME NEW v \in imported' PROVE dst'[v] # None /\ HasFile(dst'[v], {}, media')
  <2>1. v \in imported /\ v # u /\ dst[v] # None /\ v \in Uuids
    BY <1>2 DEF DeleteHere, FileInv, TypeOK
  <2>2. dst'[v] # None /\ dst'[v].file = dst[v].file
    BY <2>1, DeletedTypes DEF DeleteHere, TypeOK
  <2>3. QED
    BY <1>1, <2>1, <2>2 DEF FileInv, HasFile
<1>3. QED
  BY <1>1, <1>2 DEF FileInv, HasFile, Here

LEMMA ExportFiles ==
    ASSUME TypeOK, FileInv, NEW p \in Pulls, StartPull(p) \/ ReadTable(p)
    PROVE  FileInv'
<1>1. UNCHANGED <<dst, imported, media>>
  BY DEF StartPull, ReadTable, Include, siteVars
<1>2. ASSUME NEW u \in Here(src), NEW rows \in SUBSET Here(src), u \in rows
      PROVE  HasFile(src[u], FilesOf(rows), media)
  BY <1>2 DEF HasFile, FilesOf
<1>3. ASSUME NEW q \in Pulls, NEW u \in Here(got'[q]) PROVE HasFile(got'[q][u], files'[q], media)
  <2>1. CASE q # p
    BY <1>3, <2>1 DEF StartPull, ReadTable, Include, TypeOK, FileInv
  <2>2. CASE q = p /\ StartPull(p)
    <3>1. u = Manuscript /\ got'[p][u] = src[Manuscript] /\ files'[p] = FilesOf({Manuscript})
      BY <1>3, <2>2, PackageAssumption DEF StartPull, TypeOK, Here, Nothing
    <3>2. Manuscript \in Here(src)
      BY <2>2, PackageAssumption DEF StartPull, Here
    <3>3. QED
      BY <1>2, <2>2, <3>1, <3>2
  <2>3. CASE q = p /\ ReadTable(p)
    <3>1. PICK t \in left[p] : Include(p, t)
      BY <2>3 DEF ReadTable
    <3>2. /\ got'[p][u] = IF u \in Found(p, t) THEN src[u] ELSE got[p][u]
          /\ files'[p] = files[p] \cup FilesOf(Found(p, t))
          /\ u \in Uuids /\ got'[p][u] # None
      BY <1>3, <2>3, <3>1 DEF Include, TypeOK, Here
    <3>3. CASE u \in Found(p, t)
      <4>1. HasFile(src[u], FilesOf(Found(p, t)), media)
        BY <1>2, <3>3 DEF Found
      <4>2. QED
        BY <2>3, <3>2, <3>3, <4>1 DEF HasFile
    <3>4. CASE u \notin Found(p, t)
      <4>1. u \in Here(got[p])
        BY <3>2, <3>4 DEF Here
      <4>2. QED
        BY <2>3, <3>2, <3>4, <4>1 DEF FileInv, HasFile
    <3>5. QED
      BY <3>3, <3>4
  <2>4. QED
    BY <2>1, <2>2, <2>3
<1>4. QED
  BY <1>1, <1>3 DEF FileInv, HasFile

LEMMA WriteFiles ==
    ASSUME TypeOK, FileInv, NEW p \in Pulls, WriteFile(p)
    PROVE  FileInv'
<1>0. [Next]_vars
  BY DEF Next, Pull
<1>1. PICK n \in files[p] : /\ media' = [media EXCEPT ![n] = "theirs"]
                            /\ files' = [files EXCEPT ![p] = @ \ {n}]
  BY DEF WriteFile
<1>2. UNCHANGED <<dst, imported, got>>
  BY DEF WriteFile
<1>3. ASSUME NEW u \in imported PROVE dst[u] # None /\ HasFile(dst[u], {}, media')
  BY <1>0, <1>3, HasFileStays DEF FileInv, TypeOK
<1>4. ASSUME NEW q \in Pulls, NEW u \in Here(got[q]) PROVE HasFile(got[q][u], files'[q], media')
  <2>1. HasFile(got[q][u], files[q], media')
    BY <1>0, <1>4, HasFileStays DEF FileInv, TypeOK, Here
  <2>2. files'[q] = files[q] \/ files'[q] = files[q] \ {n}
    BY <1>1 DEF TypeOK
  <2>3. n \in Names /\ media'[n] = "theirs"
    BY <1>1 DEF TypeOK
  <2>4. QED
    BY <2>1, <2>2, <2>3 DEF HasFile
<1>5. QED
  BY <1>2, <1>3, <1>4 DEF FileInv, HasFile

\* A pull that ends has nothing in hand.
LEMMA EndFiles ==
    ASSUME TypeOK, FileInv, NEW p \in Pulls, NEW how, End(p, how)
    PROVE  \A q \in Pulls : \A u \in Here(got'[q]) :
              u \in Here(got[q]) /\ got'[q][u] = got[q][u] /\ files'[q] = files[q]
BY DEF End, TypeOK, Here, Nothing

LEMMA CommitFiles ==
    ASSUME TypeOK, FileInv, NEW p \in Pulls, Commit(p)
    PROVE  FileInv'
<1>1. media' = media
  BY DEF Commit, End
<1>2. ASSUME NEW u \in imported' PROVE dst'[u] # None /\ HasFile(dst'[u], {}, media)
  <2>1. u \in Uuids /\ dst'[u] = IF u \in written[p] THEN got[p][u] ELSE dst[u]
    BY <1>2 DEF Commit, Merged, Arrived, TypeOK, Here
  <2>2. CASE u \in Arrived(p)
    <3>1. u \in Here(got[p]) /\ dst'[u] # None /\ dst'[u].file = got[p][u].file
      BY <2>2 DEF Commit, Arrived
    <3>2. HasFile(got[p][u], {}, media)
      BY <3>1 DEF Commit, FileInv
    <3>3. QED
      BY <3>1, <3>2 DEF HasFile
  <2>3. CASE u \notin Arrived(p)
    <3>1. u \in imported
      BY <1>2, <2>3 DEF Commit
    <3>2. u \notin written[p]
      BY <2>1, <2>3 DEF Arrived, Merged, TypeOK, Here
    <3>3. QED
      BY <2>1, <3>1, <3>2 DEF FileInv
  <2>4. QED
    BY <2>2, <2>3
<1>3. ASSUME NEW q \in Pulls, NEW u \in Here(got'[q]) PROVE HasFile(got'[q][u], files'[q], media)
  BY <1>3, EndFiles DEF Commit, FileInv
<1>4. QED
  BY <1>1, <1>2, <1>3 DEF FileInv, HasFile

LEMMA NextFiles == TypeOK /\ FileInv /\ [Next]_vars => FileInv'
<1>1. SUFFICES ASSUME TypeOK, FileInv, [Next]_vars PROVE FileInv'
  OBVIOUS
<1>2. CASE UNCHANGED <<dst, imported, got, files>>
  BY <1>1, <1>2, FilesElsewhere
<1>3. ASSUME NEW p \in Pulls, Refuse(p) \/ Fail(p) PROVE FileInv'
  <2>1. UNCHANGED <<dst, imported, media>>
    BY <1>3 DEF Refuse, Fail, End
  <2>2. PICK how : End(p, how)
    BY <1>3 DEF Refuse, Fail
  <2>3. ASSUME NEW q \in Pulls, NEW u \in Here(got'[q]) PROVE HasFile(got'[q][u], files'[q], media)
    BY <1>1, <2>2, <2>3, EndFiles DEF FileInv
  <2>4. QED
    BY <1>1, <2>1, <2>3 DEF FileInv, HasFile
<1>4. ASSUME NEW u \in Uuids, SaveAtSource(u) \/ DeleteAtSource(u)
      PROVE  UNCHANGED <<dst, imported, got, files>>
  BY <1>4 DEF SaveAtSource, DeleteAtSource, EditSource, Edit, pullVars
<1>5. ASSUME NEW p \in Pulls, StartInVain(p) \/ EndExport(p) \/ ImportRow(p)
      PROVE  UNCHANGED <<dst, imported, got, files>>
  BY <1>5 DEF StartInVain, EndExport, ImportRow, siteVars
<1>6. CASE UNCHANGED vars
  BY <1>2, <1>6 DEF vars, siteVars, pullVars
<1>7. QED
  BY <1>1, <1>2, <1>3, <1>4, <1>5, <1>6, SaveHereFiles, DeleteHereFiles, ExportFiles,
     WriteFiles, CommitFiles DEF Next, Editors, Pull

\* A row that came with a package has its file, for any files that were there
\* before, uploads in between, and pulls that fail after some of the files.
THEOREM FilesCome == Spec => []FilesArrive
<1>1. TypeOK /\ FileInv => FilesArrive
  BY DEF FileInv, FilesArrive, HasFile
<1>2. QED
  BY <1>1, InitTypes, InitFiles, NextTypes, NextFiles, PTL DEF Spec

----------------------------------------------------------------------------
(* Whole packages.                                                         *)

\* At the source keys lead to rows that are there, in tables they may lead to.
SourceInv ==
    \A u \in Here(src) : \A v \in src[u].refs :
        v \in Here(src) /\ <<TableOf[u], TableOf[v]>> \in MayRef

\* The tables that have been read come before those that are left.
InOrder(p) ==
    \A a \in left[p] : /\ a # TableOf[Manuscript]
                       /\ \A b \in Tables \ left[p] : b = TableOf[Manuscript] \/ b < a

\* What has been read belongs to the manuscript and is as it is at the source,
\* and all that belongs in the tables that were read has been read.
Complete(p) ==
    LET G == Here(got[p]) IN
    /\ Manuscript \in G
    /\ \A u \in G : got[p][u] = src[u] /\ Belongs(u, G)
    /\ \A u \in Here(src) : TableOf[u] \notin left[p] /\ Belongs(u, G) => u \in G

\* Inductive with the types.
PackageInv ==
    /\ SourceInv
    /\ \A p \in Pulls \ moved : phase[p] # "idle" => InOrder(p) /\ Complete(p)

LEMMA InitPackage == Init => PackageInv
<1>1. Init => SourceInv
  BY ReferableTypes DEF Init, SourceInv, Here
<1>2. Init => \A p \in Pulls : phase[p] = "idle"
  BY DEF Init
<1>3. QED
  BY <1>1, <1>2 DEF PackageInv

LEMMA EditSourcePackage ==
    ASSUME TypeOK, PackageInv, NEW u \in Uuids, SaveAtSource(u) \/ DeleteAtSource(u)
    PROVE  PackageInv'
<1>1. CASE SaveAtSource(u)
  <2>1. PICK refs \in Referable(u, src), file \in FilesFor(u) :
          src' = [src EXCEPT ![u] = [refs |-> refs, file |-> file]]
    BY <1>1 DEF SaveAtSource
  <2>2. [refs |-> refs, file |-> file] \in Row
    BY <2>1, ReferableTypes, FileTypes DEF Row
  <2>3. [refs |-> refs, file |-> file] # None
    BY <2>2, NoneAssumption
  <2>4. Here(src) \subseteq Here(src')
    BY <2>1, <2>3 DEF Here, TypeOK
  <2>5. ASSUME NEW w \in Here(src'), NEW v \in src'[w].refs
        PROVE  v \in Here(src') /\ <<TableOf[w], TableOf[v]>> \in MayRef
    <3>1. CASE w = u
      <4>1. src'[w].refs = refs
        BY <2>1, <3>1 DEF TypeOK
      <4>2. QED
        BY <2>1, <2>4, <2>5, <3>1, <4>1, ReferableTypes
    <3>2. CASE w # u
      <4>1. w \in Here(src) /\ src'[w] = src[w]
        BY <2>1, <2>5, <3>2 DEF Here, TypeOK
      <4>2. QED
        BY <2>4, <2>5, <4>1 DEF PackageInv, SourceInv
    <3>3. QED
      BY <3>1, <3>2
  <2>6. SourceInv'
    BY <2>5 DEF SourceInv, Here
  <2>7. \A p \in Pulls \ moved' : phase'[p] = "idle"
    BY <1>1 DEF SaveAtSource, EditSource, Edit, pullVars
  <2>8. QED
    BY <2>6, <2>7 DEF PackageInv
<1>2. CASE DeleteAtSource(u)
  <2>1. src' = Deleted(src, u)
    BY <1>2 DEF DeleteAtSource
  <2>2. ASSUME NEW w \in Here(src'), NEW v \in src'[w].refs
        PROVE  v \in Here(src') /\ <<TableOf[w], TableOf[v]>> \in MayRef
    <3>1. w \in Here(src) /\ v \in src[w].refs /\ v # u
      BY <2>1, <2>2, DeletedTypes DEF Here, TypeOK
    <3>2. v \in Here(src) /\ <<TableOf[w], TableOf[v]>> \in MayRef
      BY <3>1 DEF PackageInv, SourceInv
    <3>3. v \in Here(src')
      BY <2>1, <3>1, <3>2, DeletedTypes DEF Here, TypeOK
    <3>4. QED
      BY <3>2, <3>3
  <2>3. SourceInv'
    BY <2>2 DEF SourceInv, Here
  <2>4. \A p \in Pulls \ moved' : phase'[p] = "idle"
    BY <1>2 DEF DeleteAtSource, EditSource, Edit, pullVars
  <2>5. QED
    BY <2>3, <2>4 DEF PackageInv
<1>3. QED
  BY <1>1, <1>2

\* Steps that take nothing from the source leave a pull as complete as it was.
LEMMA CompleteStays ==
    ASSUME TypeOK, PackageInv, UNCHANGED src,
           \A p \in Pulls \ moved' : phase'[p] # "idle" =>
              /\ p \notin moved /\ phase[p] # "idle"
              /\ left'[p] = left[p] /\ got'[p] = got[p]
    PROVE  PackageInv'
<1>1. SourceInv'
  BY DEF PackageInv, SourceInv, Here
<1>2. ASSUME NEW p \in Pulls \ moved', phase'[p] # "idle" PROVE InOrder(p)' /\ Complete(p)'
  <2>1. /\ InOrder(p) /\ Complete(p)
        /\ left'[p] = left[p] /\ got'[p] = got[p] /\ src' = src
    BY <1>2 DEF PackageInv
  <2>2. QED
    BY <2>1 DEF InOrder, Complete, Belongs, Here
<1>3. QED
  BY <1>1, <1>2 DEF PackageInv

LEMMA StartComplete ==
    ASSUME TypeOK, PackageInv, NEW p \in Pulls, StartPull(p)
    PROVE  InOrder(p)' /\ Complete(p)'
<1>1. src' = src
  BY DEF StartPull, siteVars
<1>2. /\ left'[p] = Tables \ {TableOf[Manuscript]}
      /\ got'[p] = [Nothing EXCEPT ![Manuscript] = src[Manuscript]]
  BY DEF StartPull, TypeOK
<1>3. Here(got'[p]) = {Manuscript} /\ got'[p][Manuscript] = src[Manuscript]
  BY <1>2, PackageAssumption DEF StartPull, Here, Nothing
<1>4. ASSUME NEW u \in Here(src), TableOf[u] \notin left'[p], u # Manuscript
      PROVE  src[u].refs = {}
  <2>1. TableOf[u] = TableOf[Manuscript]
    BY <1>2, <1>4, PackageAssumption DEF Here
  <2>2. \A v \in src[u].refs : <<TableOf[Manuscript], TableOf[v]>> \in MayRef
    BY <1>4, <2>1 DEF PackageInv, SourceInv
  <2>3. \A v \in src[u].refs : FALSE
    BY <2>2, PackageAssumption
  <2>4. QED
    BY <2>3
<1>5. Complete(p)'
  BY <1>1, <1>3, <1>4 DEF Complete, Belongs, Here
<1>6. InOrder(p)'
  BY <1>2 DEF InOrder
<1>7. QED
  BY <1>5, <1>6

\* The rows of the next table that belong are those it finds, and they make
\* nothing belong that has been passed over.
LEMMA ReadComplete ==
    ASSUME TypeOK, PackageInv, NEW p \in Pulls \ moved, ReadTable(p)
    PROVE  InOrder(p)' /\ Complete(p)'
<1>1. PICK t \in left[p] : (\A k \in left[p] : t <= k) /\ Include(p, t)
  BY DEF ReadTable
<1>2. src' = src /\ left'[p] = left[p] \ {t}
  BY <1>1 DEF Include, siteVars, TypeOK
<1>3. got'[p] = [u \in Uuids |-> IF u \in Found(p, t) THEN src[u] ELSE got[p][u]]
  BY <1>1 DEF Include, TypeOK
<1>4. InOrder(p) /\ Complete(p)
  BY DEF PackageInv, ReadTable
<1>5. t \in Tables /\ t \in Nat /\ left[p] \subseteq Tables /\ Tables \subseteq Nat
      /\ t # TableOf[Manuscript]
  BY <1>4, PackageAssumption DEF TypeOK, InOrder
<1> DEFINE G == Here(got[p])
           H == G \cup Found(p, t)
<1>6. Here(got'[p]) = H
  BY <1>3 DEF Here, Found
<1>7. \A u \in H : got'[p][u] = src[u]
  BY <1>3, <1>4 DEF Complete, Here, Found
<1>8. \A u \in H : Belongs(u, H)
  BY <1>4 DEF Complete, Belongs, Found
<1>9. ASSUME NEW u \in Here(src), TableOf[u] \notin left'[p], Belongs(u, H), u \notin G
      PROVE  u \in Found(p, t)
  <2>0. u # Manuscript
    BY <1>4, <1>9 DEF Complete
  <2>1. CASE TableOf[u] \in Owned
    <3>1. Manuscript \in src[u].refs
      BY <1>9, <2>0, <2>1 DEF Belongs
    <3>2. TableOf[u] = t
      BY <1>2, <1>4, <1>9, <2>1, <3>1 DEF Complete, Belongs
    <3>3. QED
      BY <2>1, <3>1, <3>2 DEF Found
  <2>2. CASE TableOf[u] \notin Owned
    <3>1. PICK w \in H : w \in src[u].refs
      BY <1>9, <2>0, <2>2 DEF Belongs
    <3>2. <<TableOf[u], TableOf[w]>> \in MayRef
      BY <3>1 DEF PackageInv, SourceInv
    <3>3. /\ TableOf[w] < TableOf[u] /\ TableOf[u] # TableOf[Manuscript]
          /\ TableOf[u] \in Nat /\ TableOf[w] \in Nat /\ TableOf[u] \in Tables
      BY <3>2, PackageAssumption
    <3>4. TableOf[u] = t
      <4>1. SUFFICES ASSUME TableOf[u] # t PROVE FALSE
        OBVIOUS
      <4>2. TableOf[u] \notin left[p]
        BY <1>2, <1>9, <4>1
      <4>3. w \in Found(p, t)
        BY <1>4, <1>9, <2>2, <3>1, <4>2 DEF Complete, Belongs
      <4>4. TableOf[w] = t
        BY <4>3 DEF Found
      <4>5. TableOf[u] < t
        BY <1>4, <3>3, <4>2 DEF InOrder
      <4>6. QED
        BY <1>5, <3>3, <4>4, <4>5
    <3>5. w \in G
      BY <1>5, <3>1, <3>3, <3>4 DEF Found
    <3>6. QED
      BY <2>2, <3>1, <3>4, <3>5 DEF Found
  <2>3. QED
    BY <2>1, <2>2
<1>10. Complete(p)'
  <2>1. Manuscript \in H
    BY <1>4 DEF Complete
  <2>2. \A u \in Here(src) : TableOf[u] \notin left'[p] /\ Belongs(u, H) => u \in H
    BY <1>9
  <2>3. QED
    BY <1>2, <1>6, <1>7, <1>8, <2>1, <2>2 DEF Complete, Belongs, Here
<1>11. InOrder(p)'
  <2>1. ASSUME NEW a \in left'[p] PROVE a # TableOf[Manuscript] /\ a \in Nat /\ t <= a /\ t # a
    BY <1>1, <1>2, <1>4, <1>5, <2>1 DEF InOrder
  <2>2. ASSUME NEW a \in left'[p], NEW b \in Tables \ left'[p], b # TableOf[Manuscript]
        PROVE  b < a
    <3>1. CASE b = t
      BY <1>5, <2>1, <2>2, <3>1
    <3>2. CASE b # t
      BY <1>2, <1>4, <2>2, <3>2 DEF InOrder
    <3>3. QED
      BY <3>1, <3>2
  <2>3. QED
    BY <2>1, <2>2 DEF InOrder
<1>12. QED
  BY <1>10, <1>11

LEMMA NextPackage == TypeOK /\ PackageInv /\ [Next]_vars => PackageInv'
<1>1. SUFFICES ASSUME TypeOK, PackageInv, [Next]_vars PROVE PackageInv'
  OBVIOUS
<1>2. ASSUME NEW u \in Uuids, SaveHere(u) \/ DeleteHere(u) PROVE PackageInv'
  <2>1. UNCHANGED <<src, phase, left, got, moved>>
    BY <1>2 DEF SaveHere, DeleteHere, Edit, pullVars
  <2>2. QED
    BY <1>1, <2>1, CompleteStays
<1>3. ASSUME NEW p \in Pulls, StartPull(p) PROVE PackageInv'
  <2>1. SourceInv'
    BY <1>1, <1>3 DEF PackageInv, SourceInv, Here, StartPull, siteVars
  <2>2. InOrder(p)' /\ Complete(p)'
    BY <1>1, <1>3, StartComplete
  <2>3. ASSUME NEW q \in Pulls \ moved', phase'[q] # "idle", q # p
        PROVE  InOrder(q)' /\ Complete(q)'
    <3>1. /\ q \in Pulls \ moved /\ phase[q] # "idle"
          /\ left'[q] = left[q] /\ got'[q] = got[q] /\ src' = src
      BY <1>1, <1>3, <2>3 DEF StartPull, siteVars, TypeOK
    <3>2. InOrder(q) /\ Complete(q)
      BY <1>1, <3>1 DEF PackageInv
    <3>3. QED
      BY <3>1, <3>2 DEF InOrder, Complete, Belongs, Here
  <2>4. QED
    BY <2>1, <2>2, <2>3 DEF PackageInv
<1>4. ASSUME NEW p \in Pulls, ReadTable(p) PROVE PackageInv'
  <2>1. PICK t \in left[p] : Include(p, t)
    BY <1>4 DEF ReadTable
  <2>2. UNCHANGED <<src, phase, moved>>
    BY <2>1 DEF Include, siteVars
  <2>3. SourceInv'
    BY <1>1, <2>2 DEF PackageInv, SourceInv, Here
  <2>4. p \notin moved => InOrder(p)' /\ Complete(p)'
    BY <1>1, <1>4, ReadComplete
  <2>5. ASSUME NEW q \in Pulls \ moved', phase'[q] # "idle", q # p
        PROVE  InOrder(q)' /\ Complete(q)'
    <3>1. /\ q \in Pulls \ moved /\ phase[q] # "idle"
          /\ left'[q] = left[q] /\ got'[q] = got[q] /\ src' = src
      BY <1>1, <2>1, <2>2, <2>5 DEF Include, TypeOK
    <3>2. InOrder(q) /\ Complete(q)
      BY <1>1, <3>1 DEF PackageInv
    <3>3. QED
      BY <3>1, <3>2 DEF InOrder, Complete, Belongs, Here
  <2>6. QED
    BY <2>2, <2>3, <2>4, <2>5 DEF PackageInv
<1>5. ASSUME NEW p \in Pulls,
             StartInVain(p) \/ EndExport(p) \/ ImportRow(p) \/ WriteFile(p)
      PROVE  PackageInv'
  <2>1. UNCHANGED <<src, left, got, moved>>
    BY <1>5 DEF StartInVain, EndExport, ImportRow, WriteFile, siteVars
  <2>2. \A q \in Pulls : phase'[q] # "idle" => phase[q] # "idle"
    BY <1>1, <1>5 DEF StartInVain, EndExport, ImportRow, WriteFile, TypeOK
  <2>3. QED
    BY <1>1, <2>1, <2>2, CompleteStays
<1>6. ASSUME NEW p \in Pulls, Refuse(p) \/ Commit(p) \/ Fail(p) PROVE PackageInv'
  <2>1. PICK how : End(p, how)
    BY <1>6 DEF Refuse, Commit, Fail
  <2>2. UNCHANGED <<src, moved>>
    BY <2>1 DEF End
  <2>3. \A q \in Pulls : phase'[q] # "idle" =>
           phase[q] # "idle" /\ left'[q] = left[q] /\ got'[q] = got[q]
    BY <1>1, <2>1 DEF End, TypeOK
  <2>4. QED
    BY <1>1, <2>2, <2>3, CompleteStays
<1>7. CASE UNCHANGED vars
  <2>1. UNCHANGED <<src, phase, left, got, moved>>
    BY <1>7 DEF vars, siteVars, pullVars
  <2>2. QED
    BY <1>1, <2>1, CompleteStays
<1>8. QED
  BY <1>1, <1>2, <1>3, <1>4, <1>5, <1>6, <1>7, EditSourcePackage DEF Next, Editors, Pull

\* When an export has read its last table, it has read the package.
LEMMA ReadAll ==
    ASSUME TypeOK, PackageInv, NEW p \in Pulls \ moved,
           phase[p] = "import"
    PROVE  /\ IsPackage(Here(got[p]))
           /\ \A u \in Here(got[p]) : got[p][u] = src[u]
<1>1. left[p] = {} /\ Complete(p)
  BY DEF TypeOK, PackageInv
<1>2. Here(got[p]) \subseteq Here(src)
  BY <1>1 DEF Complete, Here
<1>3. QED
  BY <1>1, <1>2 DEF Complete, IsPackage

----------------------------------------------------------------------------
(* Rows that an import has passed.                                         *)

\* A row that the import of p has passed and not written is as the package has
\* it, or others changed it since.
AsPassed(p) ==
    \A u \in Passed(p) \ written[p] : dst[u] = got[p][u] \/ u \in crossed[p]

PassedInv == \A p \in Pulls : AsPassed(p)

LEMMA InitPassed == Init => PassedInv
BY DEF Init, PassedInv, AsPassed, Passed

\* What others do, q being left as it was
LEMMA OthersPass ==
    ASSUME TypeOK, NEW q \in Pulls, AsPassed(q),
           phase'[q] = phase[q], got'[q] = got[q], todo'[q] = todo[q],
           written'[q] = written[q],
           Cross \/ (dst' = dst /\ crossed'[q] = crossed[q])
    PROVE  AsPassed(q)'
<1>1. Passed(q)' = Passed(q)
  BY DEF Passed, Here
<1>2. ASSUME NEW u \in Passed(q) \ written[q]
      PROVE  dst'[u] = got[q][u] \/ u \in crossed'[q]
  <2>1. dst[u] = got[q][u] \/ u \in crossed[q]
    BY <1>2 DEF AsPassed
  <2>2. CASE Cross
    <3>1. crossed'[q] = crossed[q] \cup {v \in Passed(q) : dst'[v] # dst[v]}
      BY <2>2 DEF Cross
    <3>2. QED
      BY <1>2, <2>1, <3>1
  <2>3. CASE dst' = dst /\ crossed'[q] = crossed[q]
    BY <2>1, <2>3
  <2>4. QED
    BY <2>2, <2>3
<1>3. QED
  BY <1>1, <1>2 DEF AsPassed

LEMMA NothingPassed ==
    ASSUME NEW q \in Pulls, phase'[q] # "import" \/ todo'[q] = Here(got'[q])
    PROVE  AsPassed(q)'
<1>1. Passed(q)' = {}
  BY DEF Passed, Here
<1>2. QED
  BY <1>1 DEF AsPassed

LEMMA ImportRowPasses ==
    ASSUME TypeOK, NEW p \in Pulls, AsPassed(p), ImportRow(p)
    PROVE  AsPassed(p)'
<1>1. PICK u \in Due(p) :
        /\ \/ Unchanged(p, u) /\ UNCHANGED written
           \/ written' = [written EXCEPT ![p] = @ \cup {u}]
        /\ todo' = [todo EXCEPT ![p] = @ \ {u}]
  BY DEF ImportRow
<1>2. /\ UNCHANGED <<phase, got, dst, crossed>>
      /\ todo'[p] = todo[p] \ {u}
      /\ written'[p] = written[p] \/ written'[p] = written[p] \cup {u}
  BY <1>1 DEF ImportRow, siteVars, TypeOK
<1>3. ASSUME NEW v \in Passed(p)' \ written'[p]
      PROVE  dst[v] = got[p][v] \/ v \in crossed[p]
  <2>1. CASE v = u
    <3>1. written'[p] # written[p] \cup {u}
      BY <1>3, <2>1
    <3>2. Unchanged(p, u)
      BY <1>1, <3>1 DEF TypeOK
    <3>3. QED
      BY <2>1, <3>2 DEF Unchanged
  <2>2. CASE v # u
    <3>1. v \in Passed(p) \ written[p]
      BY <1>2, <1>3, <2>2 DEF Passed, Here
    <3>2. QED
      BY <3>1 DEF AsPassed
  <2>3. QED
    BY <2>1, <2>2
<1>4. QED
  BY <1>2, <1>3 DEF AsPassed

LEMMA NextPassed == TypeOK /\ PassedInv /\ [Next]_vars => PassedInv'
<1>1. SUFFICES ASSUME TypeOK, PassedInv, [Next]_vars, NEW q \in Pulls PROVE AsPassed(q)'
  BY DEF PassedInv
<1>0. AsPassed(q)
  BY <1>1 DEF PassedInv
<1>2. CASE UNCHANGED vars
  BY <1>0, <1>1, <1>2, OthersPass DEF vars, siteVars, pullVars
<1>3. ASSUME NEW u \in Uuids, SaveAtSource(u) \/ DeleteAtSource(u) PROVE AsPassed(q)'
  BY <1>0, <1>1, <1>3, OthersPass
     DEF SaveAtSource, DeleteAtSource, EditSource, Edit, pullVars
<1>4. ASSUME NEW u \in Uuids, SaveHere(u) \/ DeleteHere(u) PROVE AsPassed(q)'
  BY <1>0, <1>1, <1>4, OthersPass DEF SaveHere, DeleteHere, Edit, pullVars
<1>5. ASSUME NEW p \in Pulls, Pull(p), p # q PROVE AsPassed(q)'
  <2>1. ASSUME StartPull(p) \/ StartInVain(p) \/ ReadTable(p) \/ EndExport(p)
               \/ ImportRow(p) \/ WriteFile(p)
        PROVE  /\ dst' = dst /\ crossed'[q] = crossed[q]
               /\ phase'[q] = phase[q] /\ got'[q] = got[q] /\ todo'[q] = todo[q]
               /\ written'[q] = written[q]
    BY <1>1, <1>5, <2>1
       DEF StartPull, StartInVain, ReadTable, Include, EndExport, ImportRow, WriteFile,
           siteVars, TypeOK
  <2>2. ASSUME NEW how, End(p, how)
        PROVE  /\ phase'[q] = phase[q] /\ got'[q] = got[q] /\ todo'[q] = todo[q]
               /\ written'[q] = written[q]
    BY <1>1, <1>5, <2>2 DEF End, TypeOK
  <2>3. CASE Refuse(p) \/ Fail(p)
    BY <1>0, <1>1, <2>2, <2>3, OthersPass DEF Refuse, Fail
  <2>4. CASE Commit(p)
    BY <1>0, <1>1, <2>2, <2>4, OthersPass DEF Commit
  <2>5. QED
    BY <1>0, <1>1, <1>5, <2>1, <2>3, <2>4, OthersPass DEF Pull
<1>6. CASE Pull(q)
  <2>1. CASE StartPull(q) \/ ReadTable(q)
    <3>1. phase'[q] # "import"
      BY <1>1, <2>1 DEF StartPull, ReadTable, Include, TypeOK
    <3>2. QED
      BY <1>1, <3>1, NothingPassed
  <2>2. CASE EndExport(q)
    <3>1. todo'[q] = Here(got'[q])
      BY <1>1, <2>2 DEF EndExport, TypeOK, Here
    <3>2. QED
      BY <1>1, <3>1, NothingPassed
  <2>3. CASE ImportRow(q)
    BY <1>0, <1>1, <2>3, ImportRowPasses
  <2>4. CASE StartInVain(q) \/ WriteFile(q)
    BY <1>0, <1>1, <2>4, OthersPass DEF StartInVain, WriteFile, siteVars
  <2>5. CASE Refuse(q) \/ Commit(q) \/ Fail(q)
    <3>1. phase'[q] # "import"
      BY <1>1, <2>5 DEF Refuse, Commit, Fail, End, TypeOK
    <3>2. QED
      BY <1>1, <3>1, NothingPassed
  <2>6. QED
    BY <1>6, <2>1, <2>2, <2>3, <2>4, <2>5 DEF Pull
<1>7. QED
  BY <1>1, <1>2, <1>3, <1>4, <1>5, <1>6 DEF Next, Editors

\* When the source has not changed meanwhile, a commit leaves the destination
\* with all that belongs to the manuscript, as it is at the source: for any
\* tables and keys without a cycle, and whatever was there.  Rows that others
\* changed behind the import, which had skipped them, are all that may differ.
THEOREM PackagesAreWhole == Spec => WholePackage
<1>1. ASSUME TypeOK, PackageInv, PassedInv, NEW p \in Pulls \ moved, Commit(p)
      PROVE  \E S \in SUBSET Uuids :
                IsPackage(S) /\ \A u \in S : dst'[u] = src[u] \/ u \in crossed[p] \ written[p]
  <2>1. /\ IsPackage(Here(got[p]))
        /\ \A u \in Here(got[p]) : got[p][u] = src[u]
    BY <1>1, ReadAll DEF Commit
  <2>2. ASSUME NEW u \in Here(got[p])
        PROVE  dst'[u] = got[p][u] \/ u \in crossed[p] \ written[p]
    <3>1. u \in Uuids /\ dst'[u] = IF u \in written[p] THEN got[p][u] ELSE dst[u]
      BY <1>1, <2>2 DEF Commit, Merged, Here
    <3>2. u \in Passed(p)
      BY <1>1, <2>2 DEF Commit, Passed
    <3>3. QED
      BY <1>1, <3>1, <3>2 DEF PassedInv, AsPassed
  <2>3. Here(got[p]) \in SUBSET Uuids
    BY DEF Here
  <2>4. QED
    BY <2>1, <2>2, <2>3
<1>2. TypeOK /\ PackageInv /\ PassedInv =>
         [\A p \in Pulls \ moved : Commit(p) =>
            \E S \in SUBSET Uuids :
                IsPackage(S) /\ \A u \in S : dst'[u] = src[u] \/ u \in crossed[p] \ written[p]]_vars
  BY <1>1
<1>3. QED
  BY <1>2, InitTypes, InitPackage, InitPassed, NextTypes, NextPackage, NextPassed, PTL
     DEF Spec, WholePackage

\* A package that was exported in peace and is refused has a row that refers to
\* a row outside its manuscript, or one that the import had passed and an editor
\* deleted before a row that refers to it was read: neither the order in which
\* the export reads the tables nor what the destination has or lacks of the
\* package beforehand is the reason.
THEOREM RefusalsAreEarned == Spec => RefusedForAReason
<1>1. ASSUME TypeOK, PackageInv, PassedInv, NEW p \in Pulls \ moved, Refuse(p)
      PROVE  \E u \in Here(got[p]) : Astray(u) \/ (u \in crossed[p] /\ dst[u] = None)
  <2>1. PICK u \in Due(p) : \E v \in got[p][u].refs : v \notin Here(dst) \cup written[p]
    BY <1>1 DEF Refuse, Missing
  <2>2. PICK v \in got[p][u].refs : v \notin Here(dst) \cup written[p]
    BY <2>1
  <2>3. IsPackage(Here(got[p])) /\ u \in Here(got[p]) /\ got[p][u] = src[u]
    BY <1>1, <2>1, ReadAll DEF Refuse, Due, TypeOK
  <2>4. u \in Here(src) /\ v \in src[u].refs
    BY <2>2, <2>3 DEF IsPackage
  <2>5. v \in Here(src) /\ <<TableOf[u], TableOf[v]>> \in MayRef
    BY <1>1, <2>4 DEF PackageInv, SourceInv
  <2>6. CASE v \notin Here(got[p])
    <3>1. v # Manuscript
      BY <2>3, <2>6 DEF IsPackage
    <3>2. Manuscript \notin src[v].refs
      <4>1. SUFFICES ASSUME Manuscript \in src[v].refs PROVE FALSE
        OBVIOUS
      <4>2. <<TableOf[v], TableOf[Manuscript]>> \in MayRef
        BY <1>1, <2>5, <4>1 DEF PackageInv, SourceInv
      <4>3. TableOf[v] \in Owned
        BY <2>5, <4>2, PackageAssumption
      <4>4. QED
        BY <2>3, <2>5, <2>6, <4>1, <4>3 DEF IsPackage, Belongs
    <3>3. QED
      BY <2>3, <2>4, <3>1, <3>2 DEF Astray
  <2>7. CASE v \in Here(got[p])
    <3>1. /\ TableOf[v] < TableOf[u]
          /\ TableOf[u] \in Nat /\ TableOf[v] \in Nat
      BY <2>5, PackageAssumption
    <3>2. v \notin todo[p]
      BY <2>1, <3>1 DEF Due
    <3>3. v \in Passed(p) \ written[p]
      BY <1>1, <2>2, <2>7, <3>2 DEF Refuse, Passed
    <3>4. v \in Uuids /\ got[p][v] # None /\ dst[v] = None
      BY <2>2, <2>7 DEF Here
    <3>5. v \in crossed[p]
      BY <1>1, <3>3, <3>4 DEF PassedInv, AsPassed
    <3>6. QED
      BY <2>7, <3>4, <3>5
  <2>8. QED
    BY <2>6, <2>7
<1>2. TypeOK /\ PackageInv /\ PassedInv =>
         [\A p \in Pulls \ moved : Refuse(p) =>
            \E u \in Here(got[p]) : Astray(u) \/ (u \in crossed[p] /\ dst[u] = None)]_vars
  BY <1>1
<1>3. QED
  BY <1>2, InitTypes, InitPackage, InitPassed, NextTypes, NextPackage, NextPassed, PTL
     DEF Spec, RefusedForAReason

=============================================================================
