-------------------------- MODULE ManuscriptPackage --------------------------
(***************************************************************************)
(* The package of a manuscript: its export at one site and its import at    *)
(* another (etlapp/services.py), while editors work at both.                *)
(*                                                                         *)
(* The export reads one table after the other with no transaction around    *)
(* it, so that its parts may be of different moments.  The import stores     *)
(* the rows one after the other in one transaction, within which it also     *)
(* writes the files, which no rollback takes back.  It reads what others have *)
(* committed (READ COMMITTED), and locks the rows it writes, not those it    *)
(* only reads.                                                              *)
(***************************************************************************)
EXTENDS Integers

CONSTANTS
    Tables,     \* the tables of category `ms`, numbered in dependency order
    Owned,      \* tables with a foreign key to Manuscripts
    MayRef,     \* pairs of tables: the first has a foreign key to the second
    WithFile,   \* tables with a file or image field
    Uuids,
    TableOf,    \* the table of a row
    Manuscript, \* the one that is pulled
    Pulls,      \* bound: pulls at once
    Names,      \* names of files
    Lost,       \* names that rows at the source have, without a file there
    MaxEdits,   \* bound: what editors do
    None

\* Keys within `ms` have no cycle: a table refers to tables before it, and only
\* to Manuscripts, which has none, and to tables with a key to Manuscripts.
ASSUME PackageAssumption ==
    /\ Tables \subseteq Nat /\ Owned \subseteq Tables /\ WithFile \subseteq Tables
    /\ TableOf \in [Uuids -> Tables]
    /\ Manuscript \in Uuids
    /\ \A k \in MayRef : /\ k \in Tables \X Tables /\ k[2] < k[1]
                         /\ k[1] # TableOf[Manuscript]
                         /\ k[2] \in Owned \cup {TableOf[Manuscript]}
    /\ Lost \subseteq Names
    /\ MaxEdits \in Nat

\* A row is what it refers to within `ms`, and its file.
Row == [refs : SUBSET Uuids, file : Names \cup {None}]

ASSUME NoneAssumption == None \notin Row /\ None \notin Names \cup {"ours", "theirs"}

VARIABLES
    src, dst,  \* rows of the two sites, or None
    unborn,    \* rows that are not yet created, at the source
    media,     \* files at the destination: its own or the source's
    phase,     \* a pull: idle, or what it does
    left,      \* tables its export has not read yet
    got,       \* what the export has read: rows, or None
    files,     \* its media_files, as far as they are not written yet
    todo,      \* rows of it that its import has not come to yet
    written,   \* rows that its import has written, and so locked
    outcome,   \* how the last pull ended, or None while there is one
    edits,     \* bound: what editors did
    moved,     \* history only: pulls since whose start the source has changed
    crossed,   \* history only: rows that others changed behind an import
    imported   \* history only: rows as an import left them, with their file

siteVars == <<src, dst, unborn, media>>
pullVars == <<phase, left, got, files, todo, written, outcome>>
vars == <<siteVars, pullVars, edits, moved, crossed, imported>>

Here(db) == {u \in Uuids : db[u] # None}

TypeOK ==
    /\ src \in [Uuids -> Row \cup {None}] /\ dst \in [Uuids -> Row \cup {None}]
    /\ unborn \in SUBSET Uuids
    /\ media \in [Names -> {"ours", "theirs", None}]
    /\ phase \in [Pulls -> {"idle", "export", "import"}]
    /\ left \in [Pulls -> SUBSET Tables]
    /\ got \in [Pulls -> [Uuids -> Row \cup {None}]]
    /\ files \in [Pulls -> SUBSET Names]
    /\ todo \in [Pulls -> SUBSET Uuids] /\ written \in [Pulls -> SUBSET Uuids]
    /\ \A p \in Pulls :
         /\ phase[p] # "export" => left[p] = {}
         /\ phase[p] # "import" => todo[p] = {} /\ written[p] = {}
         /\ todo[p] \cup written[p] \subseteq Here(got[p])
    /\ outcome \in [Pulls -> {None, "done", "refused", "failed"}]
    /\ edits \in 0..MaxEdits
    /\ moved \in SUBSET Pulls
    /\ crossed \in [Pulls -> SUBSET Uuids]
    /\ imported \in SUBSET Uuids

\* The rows u may refer to: at most one through each key.
Referable(u, db) ==
    {refs \in SUBSET {v \in Here(db) : <<TableOf[u], TableOf[v]>> \in MayRef} :
        \A v, w \in refs : TableOf[v] = TableOf[w] => v = w}

FilesFor(u) == {None} \cup IF TableOf[u] \in WithFile THEN Names ELSE {}

Nothing == [u \in Uuids |-> None]

\* The source has the manuscript; the destination has nothing of it, but perhaps
\* files of its own that happen to have the same names.
Init ==
    /\ src \in {db \in [Uuids -> Row \cup {None}] :
                  /\ db[Manuscript] # None
                  /\ \A u \in Here(db) : /\ db[u].refs \in Referable(u, db)
                                         /\ db[u].file \in FilesFor(u)}
    /\ unborn = Uuids \ Here(src)
    /\ dst = Nothing
    /\ media \in [Names -> {"ours", None}]
    /\ phase = [p \in Pulls |-> "idle"]
    /\ left = [p \in Pulls |-> {}]
    /\ got = [p \in Pulls |-> Nothing]
    /\ files = [p \in Pulls |-> {}]
    /\ todo = [p \in Pulls |-> {}] /\ written = [p \in Pulls |-> {}]
    /\ outcome = [p \in Pulls |-> None]
    /\ edits = 0 /\ moved = {} /\ imported = {}
    /\ crossed = [p \in Pulls |-> {}]

-----------------------------------------------------------------------------
\* Editors.

\* The keys are SET_NULL.
Deleted(db, u) ==
    [v \in Uuids |-> IF v = u \/ db[v] = None THEN None
                     ELSE [db[v] EXCEPT !.refs = @ \ {u}]]

Edit == edits < MaxEdits /\ edits' = edits + 1 /\ UNCHANGED pullVars

EditSource ==
    /\ Edit
    /\ moved' = {p \in Pulls : p \in moved \/ phase[p] # "idle"}
    /\ UNCHANGED <<dst, media, crossed, imported>>

\* A row is created, under a new uuid, or saved.
SaveAtSource(u) ==
    /\ EditSource
    /\ src[u] # None \/ u \in unborn
    /\ \E refs \in Referable(u, src), file \in FilesFor(u) :
          src' = [src EXCEPT ![u] = [refs |-> refs, file |-> file]]
    /\ unborn' = unborn \ {u}

DeleteAtSource(u) ==
    /\ EditSource
    /\ src[u] # None
    /\ src' = Deleted(src, u)
    /\ UNCHANGED unborn

\* What open transactions have written: others who would write it wait.
Locked(others) == UNION {written[p] : p \in others}

\* Rows that others change where the import of p has passed
Passed(p) == IF phase[p] = "import" THEN Here(got[p]) \ todo[p] ELSE {}
Cross ==
    crossed' = [p \in Pulls |-> crossed[p] \cup {u \in Passed(p) : dst'[u] # dst[u]}]

\* An upload gets a name that no file has.
SaveHere(u) ==
    /\ Edit
    /\ dst[u] # None /\ u \notin Locked(Pulls)
    /\ \E refs \in Referable(u, dst), file \in FilesFor(u) \cup {dst[u].file} :
         /\ dst' = [dst EXCEPT ![u] = [refs |-> refs, file |-> file]]
         /\ IF file \in {None, dst[u].file} THEN UNCHANGED media
            ELSE media[file] = None /\ media' = [media EXCEPT ![file] = "ours"]
         /\ imported' = IF file = dst[u].file THEN imported ELSE imported \ {u}
    /\ Cross
    /\ UNCHANGED <<src, unborn, moved>>

\* A row that a locked row refers to, or will after its commit, is waited for too:
\* by the update that sets its key to null, or by the check of foreign keys.
DeleteHere(u) ==
    /\ Edit
    /\ dst[u] # None
    /\ \A v \in Here(dst) : v = u \/ u \in dst[v].refs => v \notin Locked(Pulls)
    /\ \A p \in Pulls : \A v \in written[p] : u \notin got[p][v].refs
    /\ dst' = Deleted(dst, u)
    /\ Cross
    /\ imported' = imported \ {u}
    /\ UNCHANGED <<src, unborn, media, moved>>

-----------------------------------------------------------------------------
\* The export: build_manuscript_export_payload.

\* _collect_media_files_for_records
FilesOf(rows) == {src[u].file : u \in rows} \ ({None} \cup Lost)

\* The manuscript itself is read first.
StartPull(p) ==
    /\ phase[p] = "idle"
    /\ src[Manuscript] # None
    /\ phase' = [phase EXCEPT ![p] = "export"]
    /\ left' = [left EXCEPT ![p] = Tables \ {TableOf[Manuscript]}]
    /\ got' = [got EXCEPT ![p] = [Nothing EXCEPT ![Manuscript] = src[Manuscript]]]
    /\ files' = [files EXCEPT ![p] = FilesOf({Manuscript})]
    /\ moved' = moved \ {p}
    /\ crossed' = [crossed EXCEPT ![p] = {}]
    /\ outcome' = [outcome EXCEPT ![p] = None]
    /\ UNCHANGED <<siteVars, todo, written, edits, imported>>

\* "Unknown manuscript uuid"
StartInVain(p) ==
    /\ phase[p] = "idle"
    /\ src[Manuscript] = None
    /\ outcome' = [outcome EXCEPT ![p] = "failed"]
    /\ UNCHANGED <<siteVars, phase, left, got, files, todo, written, edits, moved,
                   crossed, imported>>

\* _build_manuscript_model_queryset: by the manuscript if the table has such a
\* key, else by whatever has been included so far.
Found(p, t) ==
    {u \in Here(src) :
        /\ TableOf[u] = t
        /\ IF t \in Owned THEN Manuscript \in src[u].refs
           ELSE src[u].refs \cap Here(got[p]) # {}}

Include(p, t) ==
    /\ got' = [got EXCEPT ![p] =
                 [u \in Uuids |-> IF u \in Found(p, t) THEN src[u] ELSE @[u]]]
    /\ files' = [files EXCEPT ![p] = @ \cup FilesOf(Found(p, t))]
    /\ left' = [left EXCEPT ![p] = @ \ {t}]
    /\ UNCHANGED <<siteVars, phase, todo, written, outcome, edits, moved, crossed,
                   imported>>

\* Variant: the tables are read in any order.
ReadTable_AnyOrder(p) ==
    /\ phase[p] = "export"
    /\ \E t \in left[p] : Include(p, t)

ReadTable(p) ==
    /\ phase[p] = "export"
    /\ \E t \in left[p] : (\A k \in left[p] : t <= k) /\ Include(p, t)

EndExport(p) ==
    /\ phase[p] = "export"
    /\ left[p] = {}
    /\ phase' = [phase EXCEPT ![p] = "import"]
    /\ todo' = [todo EXCEPT ![p] = Here(got[p])]
    /\ UNCHANGED <<siteVars, left, got, files, written, outcome, edits, moved, crossed,
                   imported>>

-----------------------------------------------------------------------------
\* The import: pull_remote_manuscript, import_manuscript_payload.

\* Variant: the tables are not put in dependency order.
Due_AnyOrder(p) == todo[p]

\* Rows of the table it is at.  The order within a table is that of the export.
Due(p) == {u \in todo[p] : \A v \in todo[p] : TableOf[u] <= TableOf[v]}

\* _prepare_import_values: related objects that do not exist, neither at the
\* destination nor among what this import has written.
Missing(p, u) == got[p][u].refs \ (Here(dst) \cup written[p])

\* Variant: a row that is there already is left as it is.
Unchanged_Known(p, u) == dst[u] # None

Unchanged(p, u) == dst[u] = got[p][u]

\* _import_model_records for a record.  A row that is there just so is skipped,
\* and not locked.  Any other is written, when no other import has it locked.
\* Between the read of the row and its UPDATE or INSERT nothing is lost that others
\* commit: all fields are set, so that a save in between is overwritten as it
\* would be just before; if the row or what it refers to has gone or come
\* meanwhile, the statement fails (Fail).
ImportRow(p) ==
    /\ phase[p] = "import"
    /\ \E u \in Due(p) :
         /\ Missing(p, u) = {}
         /\ \/ Unchanged(p, u) /\ UNCHANGED written
            \/ /\ ~Unchanged(p, u) /\ u \notin Locked(Pulls \ {p})
               /\ written' = [written EXCEPT ![p] = @ \cup {u}]
         /\ todo' = [todo EXCEPT ![p] = @ \ {u}]
    /\ UNCHANGED <<siteVars, phase, left, got, files, outcome, edits, moved, crossed,
                   imported>>

\* Variant: a file that is there already is left as it is.
WriteFile_IfNone(p) ==
    /\ phase[p] = "import" /\ todo[p] = {}
    /\ \E n \in files[p] :
         /\ media' = [media EXCEPT ![n] = IF @ = None THEN "theirs" ELSE @]
         /\ files' = [files EXCEPT ![p] = @ \ {n}]
    /\ UNCHANGED <<src, dst, unborn, phase, left, got, todo, written, outcome, edits,
                   moved, crossed, imported>>

\* _import_media_files: over a file of that name, whosever it is.
WriteFile(p) ==
    /\ phase[p] = "import" /\ todo[p] = {}
    /\ \E n \in files[p] :
         /\ media' = [media EXCEPT ![n] = "theirs"]
         /\ files' = [files EXCEPT ![p] = @ \ {n}]
    /\ UNCHANGED <<src, dst, unborn, phase, left, got, todo, written, outcome, edits,
                   moved, crossed, imported>>

\* The pull is over: told how, with nothing in hand.
End(p, how) ==
    /\ phase' = [phase EXCEPT ![p] = "idle"]
    /\ left' = [left EXCEPT ![p] = {}]
    /\ got' = [got EXCEPT ![p] = Nothing]
    /\ files' = [files EXCEPT ![p] = {}]
    /\ todo' = [todo EXCEPT ![p] = {}]
    /\ written' = [written EXCEPT ![p] = {}]
    /\ outcome' = [outcome EXCEPT ![p] = how]
    /\ UNCHANGED <<src, unborn, media, edits, moved>>

Merged(p) == [u \in Uuids |-> IF u \in written[p] THEN got[p][u] ELSE dst[u]]

\* Rows of the package with the file they have there
Arrived(p) ==
    {u \in Here(got[p]) : Merged(p)[u] # None /\ Merged(p)[u].file = got[p][u].file}

Commit(p) ==
    /\ phase[p] = "import" /\ todo[p] = {} /\ files[p] = {}
    /\ dst' = Merged(p)
    /\ imported' = imported \cup Arrived(p)
    /\ Cross
    /\ End(p, "done")

\* Rows of a table have a related object missing, and nothing more of that table
\* can be stored: the transaction is undone.
Refuse(p) ==
    /\ phase[p] = "import"
    /\ \E u \in Due(p) : Missing(p, u) # {}
    /\ End(p, "refused")
    /\ UNCHANGED <<dst, crossed, imported>>

\* The peer does not answer, the disk is full, the worker dies: the rows are
\* rolled back, the files that were written stay.
Fail(p) ==
    /\ phase[p] # "idle"
    /\ End(p, "failed")
    /\ UNCHANGED <<dst, crossed, imported>>

-----------------------------------------------------------------------------
Editors ==
    \E u \in Uuids :
        SaveAtSource(u) \/ DeleteAtSource(u) \/ SaveHere(u) \/ DeleteHere(u)

Pull(p) ==
    \/ StartPull(p) \/ StartInVain(p) \/ ReadTable(p) \/ EndExport(p)
    \/ ImportRow(p) \/ Refuse(p) \/ WriteFile(p) \/ Commit(p) \/ Fail(p)

Next == Editors \/ \E p \in Pulls : Pull(p)

Spec == Init /\ [][Next]_vars

-----------------------------------------------------------------------------
\* What belongs to the manuscript at the source, given that S does: the rows
\* that name it and, in tables that cannot, the rows that refer to such.
Belongs(u, S) ==
    \/ u = Manuscript
    \/ TableOf[u] \in Owned /\ Manuscript \in src[u].refs
    \/ TableOf[u] \notin Owned /\ src[u].refs \cap S # {}

IsPackage(S) == Manuscript \in S /\ S = {u \in Here(src) : Belongs(u, S)}

\* A package is whole: when the source has not changed while it was pulled, a
\* commit leaves every row that belongs to the manuscript as it is there,
\* whatever was at the destination and whoever else pulls; but for rows that
\* others changed there after the import had found them as they should be, and
\* not locked them.
WholePackage ==
    [][\A p \in Pulls \ moved : Commit(p) =>
          \E S \in SUBSET Uuids :
              IsPackage(S) /\ \A u \in S : dst'[u] = src[u] \/ u \in crossed[p] \ written[p]]_vars

\* A row of the package that refers to a row of another manuscript, or of none
Astray(u) ==
    \E v \in src[u].refs : v # Manuscript /\ Manuscript \notin src[v].refs

\* A package is refused for a missing relation only if the source has changed
\* while it was pulled, or has a row that refers outside its manuscript, or an
\* editor deleted a row of it at the destination behind the import, which had
\* found it there: the order of the tables at both ends is never the reason.
RefusedForAReason ==
    [][\A p \in Pulls \ moved : Refuse(p) =>
          \E u \in Here(got[p]) : Astray(u) \/ (u \in crossed[p] /\ dst[u] = None)]_vars

\* A row that came with a package has the file that it has at the source,
\* though files are no part of the transaction, may be there under their names
\* before, and are written by several pulls.
FilesArrive ==
    \A u \in imported :
        dst[u].file \notin {None} \cup Lost => media[dst[u].file] = "theirs"

\* Packages that arrive again and again leave the destination with all of the
\* manuscript as it is at the source, after torn ones and local edits.
PackagesConverge ==
    []<><<\E p \in Pulls : Commit(p)>>_vars =>
        <>[](\A S \in SUBSET Uuids : IsPackage(S) => \A u \in S : dst[u] = src[u])
=============================================================================
